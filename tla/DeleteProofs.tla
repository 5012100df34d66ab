---------------------------- MODULE DeleteProofs ----------------------------
(***************************************************************************)
(* What holds of DeleteTransaction for all files, contents, plans and      *)
(* bounds: the types; that what the program replaces is in the durable     *)
(* journal (WriteAhead); that the originals can always be had from the     *)
(* disk (OriginalsRecoverable); that the publication happens once, on the  *)
(* metadata it was planned on, and is final; and, from these, that the     *)
(* deletion implements AtomicDelete.                                       *)
(***************************************************************************)
EXTENDS DeleteTransaction, FiniteSetTheorems, SequenceTheorems, TLAPS

CapturePc == {"capture", "prepare", "postWal", "mutate"} \cup ConfirmPc

(* What the types rest on: where a change is in hand, where the rollback   *)
(* loop stands, and that a re-ingest in progress is one of those left.     *)
Control ==
  /\ pc \in CapturePc => change # None
  /\ pc \in CapturePc /\ stage = "rebuild" => left > 0
  /\ pc = "reindex" => stage \in {"wipe", "purge"}
  /\ pc \in {"rollWrite", "rollVerify"} => cursor > 0
  /\ pc \notin RollbackPc => cursor = 0

TypeInv == TypeOK /\ Control
-----------------------------------------------------------------------------
(* The journals the protocol writes are journals.                          *)
LEMMA StatusTyped ==
  ASSUME NEW j \in Journal, NEW s \in Status
  PROVE  [j EXCEPT !.status = s] \in Journal
  BY DEF Journal

(* A journal with another status and completeness is a journal.            *)
LEMMA IncompleteTyped ==
  ASSUME NEW j \in Journal, NEW s \in Status, NEW b \in BOOLEAN
  PROVE  [j EXCEPT !.status = s, !.complete = b] \in Journal
  BY DEF Journal

(* A journal that names a step is a journal.                               *)
LEMMA PreparedTyped ==
  ASSUME NEW j \in Journal, NEW s \in Status, NEW b \in BOOLEAN,
         NEW m \in Mutation \cup {None}
  PROVE  [j EXCEPT !.status = s, !.complete = b, !.prepared = m] \in Journal
  BY DEF Journal

(* A journal with one more step is a journal.                              *)
LEMMA AppendTyped ==
  ASSUME NEW j \in Journal, NEW s \in Status, NEW b \in BOOLEAN, NEW m \in Mutation
  PROVE  [j EXCEPT !.status = s, !.complete = b,
                   !.mutations = Append(@, m), !.prepared = None] \in Journal
  <1> DEFINE ms == Append(j.mutations, m)
  <1>1. ms \in Seq(Mutation)
    BY DEF Journal
  <1> HIDE DEF ms
  <1>2. [j EXCEPT !.status = s, !.complete = b, !.mutations = ms, !.prepared = None]
          \in Journal
    BY <1>1 DEF Journal
  <1> QED BY <1>2 DEF ms

(* The absent journal.                                                     *)
LEMMA NoJournalTyped == NoJournal \in Journal
  BY DEF NoJournal, Journal, Status

(* The types hold at first.                                                *)
LEMMA InitTyped == Init => TypeInv
  <1> SUFFICES ASSUME Init PROVE TypeInv
    OBVIOUS
  <1> USE DEF Init
  <1>1. FilesTyped
    BY ImagesAssumption DEF FilesTyped
  <1>2. JournalsTyped
    BY NoJournalTyped DEF JournalsTyped
  <1>3. PlaceTyped
    BY DEF PlaceTyped, Stage, Pc
  <1>4. Len(mem.mutations) = 0
    BY DEF NoJournal
  <1>5. CountersTyped
    BY <1>4 DEF CountersTyped
  <1>6. Control
    BY DEF Control, CapturePc, ConfirmPc, RollbackPc
  <1> QED BY <1>1, <1>2, <1>3, <1>5, <1>6 DEF TypeInv, TypeOK

(* The memory of a run that ends, whatever it leaves on the disk.          *)
LEMMA RestTyped ==
  ASSUME TypeInv, Rest,
         vault' \in [Path -> Image], metadata' \in Hash \cup {Gone},
         dirty' \subseteq Path, journal' \in Journal \cup {None},
         published' \in BOOLEAN,
         edits' \in Nat, crashes' \in Nat, faults' \in Nat
  PROVE  TypeInv'
  <1>1. FilesTyped'
    BY ImagesAssumption DEF Rest, FilesTyped
  <1>2. JournalsTyped'
    BY NoJournalTyped DEF Rest, JournalsTyped
  <1>3. PlaceTyped'
    BY DEF Rest, PlaceTyped, Pc, Stage
  <1>4. Len(mem'.mutations) \in Nat
    BY <1>2 DEF JournalsTyped, Journal
  <1>5. CountersTyped'
    BY <1>4 DEF Rest, CountersTyped
  <1>6. Control'
    BY DEF Rest, Control, CapturePc, ConfirmPc, RollbackPc
  <1> QED BY <1>1, <1>2, <1>3, <1>5, <1>6 DEF TypeInv, TypeOK

(* A journal write, whatever its outcome, leaves journals on the disk.     *)
LEMMA WriteTyped ==
  ASSUME TypeInv, NEW j \in Journal, Written(j) \/ WriteThrows(j)
  PROVE  /\ journal' \in Journal \cup {None} /\ raw' \in Journal \cup {None}
         /\ faults' \in Nat
  <1>1. journal \in Journal \cup {None} /\ raw \in Journal \cup {None} /\ faults \in Nat
    BY DEF TypeInv, TypeOK, JournalsTyped, CountersTyped
  <1>2. CASE Written(j)
    BY <1>1, <1>2 DEF Written
  <1>3. CASE WriteThrows(j)
    BY <1>1, <1>3 DEF WriteThrows
  <1> QED BY <1>2, <1>3

(* The count of faults.                                                    *)
LEMMA FaultTyped == TypeInv /\ (Fault \/ UNCHANGED faults) => faults' \in Nat
  BY DEF TypeInv, TypeOK, CountersTyped, Fault

(* A step of the forward part, outside captureMutation.                    *)
LEMMA StageTyped ==
  ASSUME TypeInv, pc \in {"stage", "reindex"}, stageUnchanged,
         todo' \subseteq Path, left' \in Nat, stage' \in Stage, failing' \in BOOLEAN,
         change' \in Mutation \cup {None},
         \/ pc' \in {"stage", "fail"}
         \/ pc' = "capture" /\ change' # None /\ (stage' = "rebuild" => left' > 0)
  PROVE  TypeInv'
  <1> USE DEF TypeInv, TypeOK, stageUnchanged
  <1>1. FilesTyped'
    BY DEF FilesTyped, durable, env
  <1>2. JournalsTyped'
    BY DEF JournalsTyped, durable
  <1>3. PlaceTyped'
    BY DEF PlaceTyped, Pc, ForwardPc, rollback, env
  <1>4. CountersTyped'
    BY DEF CountersTyped, rollback, env
  <1>5. Control'
    BY DEF Control, CapturePc, ConfirmPc, RollbackPc, rollback
  <1> QED BY <1>1, <1>2, <1>3, <1>4, <1>5

(* A step of captureMutation: it goes on, throws or is done.               *)
LEMMA CaptureStepTyped ==
  ASSUME TypeInv, pc \in CapturePc, captureUnchanged,
         vault' \in [Path -> Image], journal' \in Journal \cup {None},
         raw' \in Journal \cup {None}, mem' \in Journal,
         faults' \in Nat, trustworthy' \in BOOLEAN,
         \/ Thrown \/ AfterCommit
         \/ pc' \in CapturePc /\ UNCHANGED <<change, failing, left>>
  PROVE  TypeInv'
  <1> USE DEF TypeInv, TypeOK, captureUnchanged
  <1>1. FilesTyped'
    BY DEF FilesTyped, env, Thrown, AfterCommit
  <1>2. JournalsTyped'
    BY DEF JournalsTyped
  <1>3. PlaceTyped'
    BY DEF PlaceTyped, Pc, ForwardPc, CapturePc, rollback, env, Thrown, AfterCommit
  <1>4. Len(mem'.mutations) \in Nat /\ cursor' = 0
    BY DEF Journal, Control, CapturePc, ConfirmPc, RollbackPc, rollback
  <1>5. left' \in Nat
    BY DEF Control, CountersTyped, Thrown, AfterCommit
  <1>6. CountersTyped'
    BY <1>4, <1>5 DEF CountersTyped, env
  <1>7. Control'
    BY <1>4 DEF Control, CapturePc, ConfirmPc, RollbackPc, Thrown, AfterCommit
  <1> QED BY <1>1, <1>2, <1>3, <1>6, <1>7

(* A step of the publication that goes on.                                 *)
LEMMA PublishStepTyped ==
  ASSUME TypeInv, pc \in PublishPc \cup {"idle", "stage", "rollCheck", "activate"}, cursor = 0,
         UNCHANGED <<mode, plan, change, trustworthy, failing, rollback, aborted, vault,
                     dirty, edits, crashes>>,
         metadata' \in Hash \cup {Gone}, snapshot' \in Hash \cup {Gone},
         journal' \in Journal \cup {None}, raw' \in Journal \cup {None},
         mem' \in Journal, faults' \in Nat, published' \in BOOLEAN,
         pc' \in PublishPc \cup {"stage", "fail", "unjournal"}
  PROVE  TypeInv'
  <1> USE DEF TypeInv, TypeOK
  <1>1. FilesTyped'
    BY DEF FilesTyped, plan
  <1>2. JournalsTyped'
    BY DEF JournalsTyped
  <1>3. PlaceTyped'
    BY DEF PlaceTyped, Pc, ForwardPc, rollback, plan
  <1>4. Len(mem'.mutations) \in Nat /\ cursor' = 0
    BY DEF Journal, rollback
  <1>5. CountersTyped'
    BY <1>4 DEF CountersTyped, plan
  <1>6. Control'
    BY <1>4 DEF Control, CapturePc, ConfirmPc, RollbackPc, PublishPc
  <1> QED BY <1>1, <1>2, <1>3, <1>5, <1>6

-----------------------------------------------------------------------------
(* One lemma for the steps of each part of the program.                    *)
LEMMA ForwardTyped == TypeInv /\ Forward => TypeInv'
  <1> SUFFICES ASSUME TypeInv, Forward PROVE TypeInv'
    OBVIOUS
  <1>0. /\ vault \in [Path -> Image] /\ planned \in [Path -> Image]
        /\ todo \subseteq Path /\ change \in Mutation \cup {None}
        /\ failing \in BOOLEAN /\ stage \in Stage /\ left \in Nat
        /\ None \notin Mutation
    BY TokensAssumption DEF TypeInv, TypeOK, FilesTyped, PlaceTyped, CountersTyped
  <1>m. \A p \in Path, b \in Image, a \in Image :
          /\ [path |-> p, before |-> b, after |-> a] \in Mutation
          /\ [path |-> p, before |-> b, after |-> a] # None
    BY <1>0 DEF Mutation
  <1>a. \A p \in Path, a \in Image : Attempt(p, a) =>
          change' \in Mutation \cup {None} /\ change' # None /\ pc' = "capture"
    BY <1>0, <1>m DEF Attempt
  <1>p. \A p \in Path : AttemptPlanned(p) =>
          change' \in Mutation \cup {None} /\ change' # None /\ pc' = "capture"
    BY <1>0, <1>m DEF AttemptPlanned, Image
  <1>1. CASE Activate
    <2>1. CASE Rest
      <3>1. journal' \in Journal \cup {None} /\ faults' \in Nat
        BY <1>1, FaultTyped, StatusTyped DEF Activate, Fault, TypeInv, TypeOK,
           JournalsTyped, CountersTyped, Written, Status
      <3> QED BY <1>1, <2>1, <3>1, RestTyped DEF Activate, durable, env, TypeInv, TypeOK,
           FilesTyped, PlaceTyped, CountersTyped
    <2>2. CASE ~Rest
      <3> DEFINE j == [mem EXCEPT !.status = "active"]
      <3>1. j \in Journal
        BY StatusTyped DEF Status, TypeInv, TypeOK, JournalsTyped
      <3>2. Written(j) /\ mem' = j /\ pc' = "stage" /\ pc = "activate"
            /\ UNCHANGED <<vault, metadata, mode, plan, change, trustworthy,
                           failing, rollback, snapshot, aborted, env>>
        BY <1>1, <2>2 DEF Activate
      <3>3. cursor = 0
        BY <3>2 DEF TypeInv, Control, RollbackPc
      <3> HIDE DEF j
      <3> QED BY <3>1, <3>2, <3>3, WriteTyped, PublishStepTyped
           DEF TypeInv, TypeOK, FilesTyped, PlaceTyped, env
    <2> QED BY <2>1, <2>2
  <1>2. CASE RemovePage
    <2>1. PICK p \in todo :
            /\ todo' = todo \ {p}
            /\ IF p \in Rejected
                 THEN pc' = "fail" /\ failing' = TRUE /\ UNCHANGED change
                 ELSE AttemptPlanned(p) /\ UNCHANGED failing
      BY <1>2 DEF RemovePage
    <2>2. CASE p \in Rejected
      BY <1>0, <1>2, <2>1, <2>2, StageTyped DEF RemovePage
    <2>3. CASE p \notin Rejected
      <3>1. stage' \notin {"rebuild"}
        BY <1>2 DEF RemovePage
      <3> QED BY <1>0, <1>2, <1>p, <2>1, <2>3, <3>1, StageTyped DEF RemovePage
    <2> QED BY <2>2, <2>3
  <1>3. CASE Reindex
    <2>1. stage \notin {"rebuild"}
      BY <1>3 DEF Reindex, TypeInv, Control
    <2>2. Index \in Path
      BY PathsAssumption
    <2>3. CASE \E c \in Content : Attempt(Index, c)
      BY <1>0, <1>3, <1>a, <2>1, <2>2, <2>3, StageTyped DEF Reindex, Image
    <2>4. CASE pc' = "stage" /\ UNCHANGED change
      BY <1>0, <1>3, <2>1, <2>4, StageTyped DEF Reindex
    <2> QED BY <1>3, <2>3, <2>4 DEF Reindex
  <1>4. CASE RebuildWrite
    <2>1. Writable \subseteq Path
      BY PathsAssumption
    <2> QED BY <1>0, <1>4, <1>m, <2>1, StageTyped DEF RebuildWrite, Attempt, Image
  <1>5. CASE RebuildSource
    <2>1. left' \in Nat
      BY <1>0, <1>5 DEF RebuildSource
    <2> QED BY <1>0, <1>5, <2>1, StageTyped DEF RebuildSource
  <1>6. CASE Rewrite
    BY <1>0, <1>6, <1>m, StageTyped DEF Rewrite, Attempt, Image
  <1>7. CASE RemoveSource
    <2>1. Source \in Path
      BY PathsAssumption
    <2> QED BY <1>0, <1>7, <1>m, <2>1, StageTyped DEF RemoveSource, AttemptPlanned, Image
  <1>8. CASE Stop
    BY <1>0, <1>8, StageTyped DEF Stop
  <1>9. CASE NextStage
    <2>1. stage \in Stage \ {"commit"}
      BY <1>0, <1>9 DEF NextStage
    <2>2. Follows[stage] \in Stage
      BY <2>1 DEF Follows, Stage
    <2>3. FilesOf(Follows[stage]) \subseteq Path
      BY PathsAssumption DEF FilesOf
    <2> QED BY <1>0, <1>9, <2>2, <2>3, StageTyped DEF NextStage
  <1> QED BY <1>1, <1>2, <1>3, <1>4, <1>5, <1>6, <1>7, <1>8, <1>9 DEF Forward

(* The steps of captureMutation.                                           *)
LEMMA ProtocolTyped == TypeInv /\ Protocol => TypeInv'
  <1> SUFFICES ASSUME TypeInv, Protocol PROVE TypeInv'
    OBVIOUS
  <1>0. /\ vault \in [Path -> Image] /\ mem \in Journal
        /\ journal \in Journal \cup {None} /\ raw \in Journal \cup {None}
        /\ trustworthy \in BOOLEAN /\ faults \in Nat
    BY DEF TypeInv, TypeOK, FilesTyped, JournalsTyped, PlaceTyped, CountersTyped
  <1>c. pc \in CapturePc => change \in Mutation
    BY DEF TypeInv, TypeOK, FilesTyped, Control
  <1>1. CASE Capture
    BY <1>0, <1>1, CaptureStepTyped DEF Capture, CapturePc
  <1>2. CASE Prepare
    <2> DEFINE j == [mem EXCEPT !.status = "active", !.complete = TRUE, !.prepared = change]
    <2>1. j \in Journal
      BY <1>0, <1>2, <1>c, PreparedTyped DEF Prepare, CapturePc, Status
    <2>2. /\ pc = "prepare" /\ captureUnchanged /\ UNCHANGED <<vault, trustworthy>>
          /\ \/ Written(j) /\ mem' = j /\ pc' = "postWal"
                  /\ UNCHANGED <<change, failing, left>>
             \/ WriteThrows(j) /\ Thrown /\ UNCHANGED mem
      BY <1>2 DEF Prepare
    <2> HIDE DEF j
    <2> QED BY <1>0, <2>1, <2>2, WriteTyped, CaptureStepTyped DEF CapturePc
  <1>3. CASE PostWal
    BY <1>0, <1>3, CaptureStepTyped DEF PostWal, CapturePc
  <1>4. CASE Mutate
    <2>1. change \in Mutation /\ pc \in CapturePc
      BY <1>4, <1>c DEF Mutate, CapturePc
    <2>2. [vault EXCEPT ![change.path] = change.after] \in [Path -> Image]
      BY <1>0, <2>1 DEF Mutation
    <2>3. vault' \in [Path -> Image] /\ faults' \in Nat
      BY <1>0, <1>4, <2>2, FaultTyped DEF Mutate
    <2> QED BY <1>0, <1>4, <2>1, <2>3, CaptureStepTyped DEF Mutate, CapturePc, ConfirmPc
  <1>5. CASE ConfirmDone
    <2> DEFINE j == [mem EXCEPT !.status = "active", !.complete = TRUE,
                                !.mutations = Append(@, change), !.prepared = None]
    <2>1. j \in Journal
      BY <1>0, <1>5, <1>c, AppendTyped DEF ConfirmDone, CapturePc, Status
    <2>2. /\ pc \in ConfirmPc /\ captureUnchanged /\ UNCHANGED vault
          /\ \/ Written(j) /\ mem' = j /\ (AfterCommit \/ Thrown) /\ UNCHANGED trustworthy
             \/ WriteThrows(j) /\ Thrown /\ UNCHANGED mem /\ trustworthy' = FALSE
      BY <1>5 DEF ConfirmDone
    <2> HIDE DEF j
    <2> QED BY <1>0, <2>1, <2>2, WriteTyped, CaptureStepTyped DEF CapturePc
  <1>6. CASE ConfirmNoEffect
    <2> DEFINE j == [mem EXCEPT !.status = "active", !.complete = TRUE, !.prepared = None]
    <2>1. j \in Journal
      BY <1>0, PreparedTyped DEF Status
    <2>2. /\ pc \in ConfirmPc /\ captureUnchanged /\ UNCHANGED vault /\ Thrown
          /\ \/ Written(j) /\ mem' = j /\ UNCHANGED trustworthy
             \/ WriteThrows(j) /\ UNCHANGED mem /\ trustworthy' = FALSE
      BY <1>6 DEF ConfirmNoEffect
    <2> HIDE DEF j
    <2> QED BY <1>0, <2>1, <2>2, WriteTyped, CaptureStepTyped DEF CapturePc
  <1>7. CASE ConfirmUntrusted
    <2>1. faults' \in Nat
      BY <1>7, FaultTyped DEF ConfirmUntrusted
    <2> QED BY <1>0, <1>7, <2>1, CaptureStepTyped DEF ConfirmUntrusted, CapturePc
  <1> QED BY <1>1, <1>2, <1>3, <1>4, <1>5, <1>6, <1>7 DEF Protocol

(* A step of the rollback loop.                                            *)
LEMMA RollStepTyped ==
  ASSUME TypeInv, pc \in RollbackPc, rollUnchanged,
         vault' \in [Path -> Image], rollbackError' \in BOOLEAN, faults' \in Nat,
         \/ pc' = "rollCheck" /\ cursor' = cursor - 1 /\ cursor > 0
         \/ pc' \in RollbackPc /\ UNCHANGED cursor /\ cursor > 0
  PROVE  TypeInv'
  <1> USE DEF TypeInv, TypeOK, rollUnchanged
  <1>1. FilesTyped'
    BY DEF FilesTyped, plan, env
  <1>2. JournalsTyped'
    BY DEF JournalsTyped
  <1>3. PlaceTyped'
    BY DEF PlaceTyped, Pc, RollbackPc, plan, env
  <1>4. left' \in Nat /\ edits' \in Nat /\ crashes' \in Nat
    BY DEF CountersTyped, plan, env
  <1>5. cursor' \in 0 .. Len(mem'.mutations)
    <2>1. cursor \in 0 .. Len(mem.mutations) /\ mem' = mem
      BY DEF CountersTyped
    <2>2. Len(mem.mutations) \in Nat
      BY DEF JournalsTyped, Journal
    <2> QED BY <2>1, <2>2
  <1>6. CountersTyped'
    BY <1>4, <1>5 DEF CountersTyped
  <1>7. Control'
    BY DEF Control, CapturePc, ConfirmPc, RollbackPc
  <1> QED BY <1>1, <1>2, <1>3, <1>6, <1>7

(* The step that enters the rollback loop.                                 *)
LEMMA RollStartTyped ==
  ASSUME TypeInv, mem' \in Journal, journal' \in Journal \cup {None},
         raw' \in Journal \cup {None}, faults' \in Nat, snapshot' \in Hash \cup {Gone},
         mode' \in {"run", "recover"}, journalError' \in BOOLEAN, rollbackError' = FALSE,
         pc' = "rollCheck", cursor' = Len(mem'.mutations),
         UNCHANGED <<plan, change, trustworthy, failing, aborted, vault, metadata, env>>
  PROVE  TypeInv'
  <1> USE DEF TypeInv, TypeOK
  <1>1. FilesTyped'
    BY DEF FilesTyped, plan, env
  <1>2. JournalsTyped'
    BY DEF JournalsTyped
  <1>3. PlaceTyped'
    BY DEF PlaceTyped, Pc, RollbackPc, plan, env
  <1>4. Len(mem'.mutations) \in Nat
    BY DEF Journal
  <1>5. CountersTyped'
    BY <1>4 DEF CountersTyped, plan, env
  <1>6. Control'
    BY DEF Control, CapturePc, ConfirmPc, RollbackPc
  <1> QED BY <1>1, <1>2, <1>3, <1>5, <1>6

(* The steps of the rollback.                                              *)
LEMMA UndoTyped == TypeInv /\ Undo => TypeInv'
  <1> SUFFICES ASSUME TypeInv, Undo PROVE TypeInv'
    OBVIOUS
  <1>0. /\ vault \in [Path -> Image] /\ mem \in Journal /\ metadata \in Hash \cup {Gone}
        /\ snapshot \in Hash \cup {Gone} /\ mode \in {"run", "recover"}
        /\ journal \in Journal \cup {None} /\ raw \in Journal \cup {None}
        /\ faults \in Nat /\ dirty \subseteq Path
        /\ edits \in Nat /\ crashes \in Nat
        /\ cursor \in 0 .. Len(mem.mutations) /\ mem.mutations \in Seq(Mutation)
    BY DEF TypeInv, TypeOK, FilesTyped, JournalsTyped, PlaceTyped, CountersTyped, Journal
  <1>b. rollbackError \in BOOLEAN /\ published \in BOOLEAN /\ journalError \in BOOLEAN
    BY DEF TypeInv, TypeOK, PlaceTyped
  <1>1. CASE Fail
    <2> DEFINE j == IF mem.status = "committed" THEN [mem EXCEPT !.status = "rollback"]
                    ELSE [mem EXCEPT !.status = "active", !.complete = FALSE]
    <2>1. j \in Journal
      BY <1>0, StatusTyped, IncompleteTyped DEF Status
    <2>u. UNCHANGED <<vault, metadata, env>>
      BY <1>1 DEF Fail
    <2>2. CASE Rest
      <3>1. faults' \in Nat /\ journal' \in Journal \cup {None}
        <4>1. \/ UNCHANGED <<journal, faults>>
              \/ Written(j)
              \/ WriteThrows(j)
              \/ Fault /\ journal' \in {journal, j}
          BY <1>1 DEF Fail
        <4> HIDE DEF j
        <4> QED BY <1>0, <2>1, <4>1, WriteTyped, FaultTyped
      <3> QED BY <1>0, <1>b, <2>u, <2>2, <3>1, RestTyped DEF env
    <2>3. CASE ~Rest
      <3>1. /\ \E je \in BOOLEAN : StartRollback(je)
            /\ UNCHANGED <<mode, plan, change, trustworthy, failing, snapshot, aborted>>
            /\ \/ UNCHANGED <<journal, mem, raw, faults>>
               \/ Written(j) /\ mem' = j
               \/ WriteThrows(j) /\ UNCHANGED mem
        BY <1>1, <2>3 DEF Fail
      <3> HIDE DEF j
      <3>2. mem' \in Journal /\ journal' \in Journal \cup {None} /\ faults' \in Nat
            /\ raw' \in Journal \cup {None}
        BY <1>0, <2>1, <3>1, WriteTyped
      <3>3. mem'.mutations = mem.mutations
        <4>1. j.mutations = mem.mutations
          BY <1>0 DEF j, Journal
        <4> QED BY <3>1, <4>1
      <3> QED BY <1>0, <2>u, <3>1, <3>2, <3>3, RollStartTyped DEF StartRollback
    <2> QED BY <2>2, <2>3
  <1>2. CASE RollCheck
    <2>1. faults' \in Nat
      BY <1>2, FaultTyped DEF RollCheck
    <2>2. pc \in RollbackPc /\ cursor > 0
      BY <1>2 DEF RollCheck, RollbackPc
    <2>3. rollbackError' \in BOOLEAN
      BY <1>2, <1>b DEF RollCheck
    <2>4. /\ rollUnchanged /\ UNCHANGED vault
          /\ \/ pc' = "rollCheck" /\ cursor' = cursor - 1
             \/ pc' \in RollbackPc /\ UNCHANGED cursor
      BY <1>2 DEF RollCheck, RollbackPc
    <2> QED BY <1>0, <2>1, <2>2, <2>3, <2>4, RollStepTyped
  <1>3. CASE RollWrite
    <2>1. pc \in RollbackPc /\ cursor > 0 /\ rollUnchanged
      BY <1>3 DEF RollWrite, RollbackPc, TypeInv, Control
    <2>2. mem.mutations[cursor] \in Mutation
      BY <1>0, <2>1
    <2>3. [vault EXCEPT ![mem.mutations[cursor].path] = mem.mutations[cursor].before]
            \in [Path -> Image]
      BY <1>0, <2>2 DEF Mutation
    <2>4. vault' \in [Path -> Image]
      BY <1>0, <1>3, <2>3 DEF RollWrite
    <2>5. faults' \in Nat
      BY <1>3, FaultTyped DEF RollWrite
    <2>6. rollbackError' \in BOOLEAN
      BY <1>3, <1>b DEF RollWrite
    <2>7. \/ pc' = "rollCheck" /\ cursor' = cursor - 1
          \/ pc' \in RollbackPc /\ UNCHANGED cursor
      BY <1>3 DEF RollWrite, RollbackPc
    <2> QED BY <2>1, <2>4, <2>5, <2>6, <2>7, RollStepTyped
  <1>4. CASE RollVerify
    <2>1. pc \in RollbackPc /\ cursor > 0 /\ rollUnchanged
      BY <1>4 DEF RollVerify, RollbackPc, TypeInv, Control
    <2>2. rollbackError' \in BOOLEAN
      BY <1>4 DEF RollVerify
    <2> QED BY <1>0, <1>4, <2>1, <2>2, RollStepTyped DEF RollVerify
  <1>5. CASE RollDone
    <2>1. CASE Retained
      BY <1>0, <1>b, <1>5, <2>1, RestTyped DEF RollDone, env
    <2>2. CASE ~Retained
      BY <1>0, <1>b, <1>5, <2>2, PublishStepTyped DEF RollDone, env
    <2> QED BY <2>1, <2>2
  <1>6. CASE Unjournal
    <2>1. faults' \in Nat
      BY <1>6, FaultTyped DEF Unjournal
    <2>2. journal' \in Journal \cup {None}
      BY <1>0, <1>6 DEF Unjournal
    <2> QED BY <1>0, <1>b, <1>6, <2>1, <2>2, RestTyped DEF Unjournal, env
  <1> QED BY <1>1, <1>2, <1>3, <1>4, <1>5, <1>6 DEF Undo

(* The steps of the publication.                                           *)
LEMMA PublicationTyped == TypeInv /\ Publication => TypeInv'
  <1> SUFFICES ASSUME TypeInv, Publication PROVE TypeInv'
    OBVIOUS
  <1>0. /\ vault \in [Path -> Image] /\ mem \in Journal /\ metadata \in Hash \cup {Gone}
        /\ snapshot \in Hash \cup {Gone} /\ Gone \in Hash \cup {Gone}
        /\ journal \in Journal \cup {None} /\ raw \in Journal \cup {None}
        /\ faults \in Nat /\ edits \in Nat /\ crashes \in Nat
        /\ dirty \subseteq Path /\ published \in BOOLEAN
        /\ pc \in PublishPc \cup {"stage"} => cursor = 0
    BY DEF TypeInv, TypeOK, FilesTyped, JournalsTyped, PlaceTyped, CountersTyped,
       Control, RollbackPc, PublishPc
  <1>q. quiet <=> UNCHANGED <<mode, plan, change, trustworthy, failing, rollback, aborted>>
    BY DEF quiet
  <1>1. CASE Commit
    <2> DEFINE j == [mem EXCEPT !.status = "committed", !.complete = trustworthy]
    <2>1. trustworthy \in BOOLEAN
      BY DEF TypeInv, TypeOK, PlaceTyped
    <2>2. j \in Journal
      BY <1>0, <2>1, IncompleteTyped DEF Status
    <2>3. /\ pc = "stage" /\ mem' = j /\ (Written(j) \/ WriteThrows(j))
          /\ pc' \in {"verify", "fail"}
          /\ UNCHANGED <<vault, metadata, mode, plan, change, trustworthy, failing,
                         rollback, snapshot, aborted, env>>
      BY <1>1 DEF Commit
    <2> HIDE DEF j
    <2> QED BY <1>0, <2>2, <2>3, WriteTyped, PublishStepTyped DEF PublishPc, env
  <1>2. CASE Verify
    BY <1>0, <1>2, PublishStepTyped DEF Verify, PublishPc, durable, env
  <1>3. CASE Publish
    <2> DEFINE j == [mem EXCEPT !.status = "publishing"]
    <2>1. j \in Journal
      BY <1>0, StatusTyped DEF Status
    <2>2. CASE Rest
      <3>1. faults' \in Nat /\ journal' \in Journal \cup {None}
        <4>1. \/ Written(j)
              \/ Fault /\ journal' \in {journal, j}
              \/ UNCHANGED <<journal, faults>>
          BY <1>3 DEF Publish
        <4> HIDE DEF j
        <4> QED BY <1>0, <2>1, <4>1, WriteTyped, FaultTyped
      <3> QED BY <1>0, <1>3, <2>2, <3>1, RestTyped DEF Publish, env
    <2>3. CASE ~Rest
      <3>1. /\ pc = "publish" /\ Written(j) /\ mem' = j /\ pc' = "snapshot" /\ quiet
            /\ UNCHANGED <<snapshot, vault, metadata, env>>
        BY <1>3, <2>3 DEF Publish
      <3> HIDE DEF j
      <3> QED BY <1>0, <1>q, <2>1, <3>1, WriteTyped, PublishStepTyped DEF PublishPc, env
    <2> QED BY <2>2, <2>3
  <1>4. CASE Snapshot
    <2>1. CASE Rest
      BY <1>0, <1>4, <2>1, RestTyped DEF Snapshot, durable, env
    <2>2. CASE ~Rest
      BY <1>0, <1>q, <1>4, <2>2, PublishStepTyped DEF Snapshot, PublishPc, durable, env
    <2> QED BY <2>1, <2>2
  <1>5. CASE Recheck
    <2>1. CASE Rest
      BY <1>0, <1>5, <2>1, RestTyped DEF Recheck, durable, env
    <2>2. CASE ~Rest
      BY <1>0, <1>q, <1>5, <2>2, PublishStepTyped DEF Recheck, PublishPc, durable, env
    <2> QED BY <2>1, <2>2
  <1>6. CASE Save
    <2>1. faults' \in Nat
      BY <1>6, FaultTyped DEF Save
    <2>2. metadata' \in Hash \cup {Gone} /\ published' \in BOOLEAN
      BY <1>0, <1>6 DEF Save
    <2>3. CASE Rest
      BY <1>0, <1>6, <2>1, <2>2, <2>3, RestTyped DEF Save
    <2>4. CASE ~Rest
      BY <1>0, <1>q, <1>6, <2>1, <2>2, <2>4, PublishStepTyped DEF Save, PublishPc
    <2> QED BY <2>3, <2>4
  <1>7. CASE Seal
    <2> DEFINE j == [mem EXCEPT !.status = "published"]
    <2>1. j \in Journal
      BY <1>0, StatusTyped DEF Status
    <2>2. CASE Rest
      <3>1. faults' \in Nat /\ journal' \in Journal \cup {None}
        <4>1. \/ Written(j)
              \/ Fault /\ journal' \in {journal, j}
              \/ UNCHANGED <<journal, faults>>
          BY <1>7 DEF Seal
        <4> HIDE DEF j
        <4> QED BY <1>0, <2>1, <4>1, WriteTyped, FaultTyped
      <3> QED BY <1>0, <1>7, <2>2, <3>1, RestTyped DEF Seal, env
    <2>3. CASE ~Rest
      <3>1. /\ pc = "seal" /\ Written(j) /\ mem' = j /\ pc' = "receipt" /\ quiet
            /\ UNCHANGED <<snapshot, vault, metadata, env>>
        BY <1>7, <2>3 DEF Seal
      <3> HIDE DEF j
      <3> QED BY <1>0, <1>q, <2>1, <3>1, WriteTyped, PublishStepTyped DEF PublishPc, env
    <2> QED BY <2>2, <2>3
  <1>8. CASE Receipt
    <2>1. CASE Rest
      BY <1>0, <1>8, <2>1, RestTyped DEF Receipt, durable, env
    <2>2. CASE ~Rest
      BY <1>0, <1>q, <1>8, <2>2, PublishStepTyped DEF Receipt, PublishPc, durable, env
    <2> QED BY <2>1, <2>2
  <1>9. CASE Cleanup
    <2>1. faults' \in Nat /\ journal' \in Journal \cup {None}
      BY <1>0, <1>9, FaultTyped DEF Cleanup
    <2> QED BY <1>0, <1>9, <2>1, RestTyped DEF Cleanup, env
  <1>10. CASE Compare
    <2>1. metadata' \in Hash \cup {Gone} /\ published' \in BOOLEAN /\ faults' \in Nat
      BY <1>0, <1>10 DEF Compare, durable, TypeInv, TypeOK, FilesTyped, PlaceTyped, CountersTyped
    <2>2. CASE Rest
      BY <1>0, <1>10, <2>1, <2>2, RestTyped DEF Compare, durable
    <2>3. CASE ~Rest
      BY <1>0, <1>q, <1>10, <2>1, <2>3, PublishStepTyped DEF Compare, PublishPc, durable
    <2> QED BY <2>2, <2>3
  <1>11. CASE ReadBack
    <2>1. CASE Rest
      BY <1>0, <1>11, <2>1, RestTyped DEF ReadBack, durable, env
    <2>2. CASE ~Rest
      BY <1>0, <1>q, <1>11, <2>2, PublishStepTyped DEF ReadBack, PublishPc, durable, env
    <2> QED BY <2>1, <2>2
  <1> QED BY <1>1, <1>2, <1>3, <1>4, <1>5, <1>6, <1>7, <1>8, <1>9, <1>10, <1>11
       DEF Publication

(* A run that starts, afresh or to settle the journal it found.            *)
LEMMA BeginTyped == TypeInv /\ Begin => TypeInv'
  <1> SUFFICES ASSUME TypeInv, Begin PROVE TypeInv'
    OBVIOUS
  <1> DEFINE j == [NoJournal EXCEPT !.base = metadata]
  <1>0. /\ vault \in [Path -> Image] /\ metadata \in Hash \cup {Gone}
        /\ journal \in Journal \cup {None} /\ faults \in Nat
        /\ edits \in Nat /\ crashes \in Nat /\ dirty \subseteq Path
        /\ published \in BOOLEAN /\ cursor = 0
    BY DEF Begin, TypeInv, TypeOK, FilesTyped, JournalsTyped, PlaceTyped, CountersTyped,
       Control, RollbackPc
  <1>1. j \in Journal /\ j.mutations = <<>>
    <2>1. NoJournal \in Journal /\ NoJournal.mutations = <<>>
      BY NoJournalTyped DEF NoJournal
    <2> QED BY <1>0, <2>1 DEF Journal
  <1>u. UNCHANGED <<vault, metadata, env>>
    BY DEF Begin
  <1>2. CASE Rest
    <2>1. faults' \in Nat /\ journal' \in Journal \cup {None}
      <3>1. journal' \in {None, j} /\ (Fault \/ UNCHANGED faults)
        BY DEF Begin
      <3> HIDE DEF j
      <3> QED BY <1>1, <3>1, FaultTyped
    <2> QED BY <1>0, <1>u, <1>2, <2>1, RestTyped DEF env
  <1>3. CASE ~Rest
    <2>1. /\ journal' = j /\ raw' = j /\ mem' = j
          /\ planned' = vault /\ stage' = "wipe"
          /\ todo' = {p \in ToRebuild : vault[p] # Absent}
          /\ left' = Remaining /\ pc' = "activate"
          /\ UNCHANGED <<mode, change, trustworthy, failing, rollback, snapshot,
                         aborted, faults>>
      BY <1>3 DEF Begin
    <2> HIDE DEF j
    <2> USE DEF TypeInv, TypeOK
    <2>2. FilesTyped'
      BY <1>0, <1>u, <2>1, PathsAssumption DEF FilesTyped, env
    <2>3. JournalsTyped'
      BY <1>1, <2>1 DEF JournalsTyped
    <2>4. PlaceTyped'
      BY <1>u, <2>1 DEF PlaceTyped, Pc, ForwardPc, Stage, rollback, env
    <2>5. Len(mem'.mutations) = 0 /\ cursor' = 0
      BY <1>0, <1>1, <2>1 DEF rollback
    <2>6. CountersTyped'
      BY <1>0, <1>u, <2>1, <2>5, BoundsAssumption DEF CountersTyped, env
    <2>7. Control'
      BY <2>1, <2>5 DEF Control, CapturePc, ConfirmPc, RollbackPc
    <2> QED BY <2>2, <2>3, <2>4, <2>6, <2>7
  <1> QED BY <1>2, <1>3

(* A run that finds a journal takes it over.                               *)
LEMMA RecoverTyped == TypeInv /\ Recover => TypeInv'
  <1> SUFFICES ASSUME TypeInv, Recover PROVE TypeInv'
    OBVIOUS
  <1>0. /\ pc = "idle" /\ cursor = 0 /\ journal \in Journal /\ faults \in Nat
        /\ metadata \in Hash \cup {Gone}
        /\ vault \in [Path -> Image] /\ published \in BOOLEAN
        /\ journal.status \in Status \ {"publishing"}
    BY DEF Recover, TypeInv, TypeOK, FilesTyped, JournalsTyped, PlaceTyped,
       CountersTyped, Control, RollbackPc, Journal
  <1>1. /\ mode' = "recover" /\ mem' = journal /\ raw' = journal /\ snapshot' = metadata
        /\ UNCHANGED <<durable, plan, change, trustworthy, failing, aborted, env, faults>>
    BY DEF Recover
  <1>2. CASE journal.status \in {"active", "rollback"}
    <2>1. pc' = "rollCheck" /\ cursor' = Len(journal.mutations)
          /\ rollbackError' = FALSE /\ journalError' = FALSE
      BY <1>2 DEF Recover
    <2> QED BY <1>0, <1>1, <2>1, RollStartTyped DEF durable
  <1>3. CASE journal.status \in {"prepared", "committed", "published"}
    <2>1. pc' \in {"unjournal", "verify", "cleanup"} /\ UNCHANGED rollback
      BY <1>3 DEF Recover
    <2> USE DEF TypeInv, TypeOK
    <2>2. FilesTyped'
      BY <1>0, <1>1 DEF FilesTyped, plan, durable, env
    <2>3. JournalsTyped'
      BY <1>0, <1>1 DEF JournalsTyped, durable
    <2>4. PlaceTyped'
      BY <1>0, <1>1, <2>1 DEF PlaceTyped, Pc, PublishPc, plan, rollback, env
    <2>5. Len(mem'.mutations) \in Nat /\ cursor' = 0
      BY <1>0, <1>1, <2>1 DEF Journal, rollback
    <2>6. CountersTyped'
      BY <1>0, <1>1, <2>5 DEF CountersTyped, plan, env
    <2>7. Control'
      BY <2>1, <2>5 DEF Control, CapturePc, ConfirmPc, RollbackPc
    <2> QED BY <2>2, <2>3, <2>4, <2>6, <2>7
  <1> QED BY <1>0, <1>2, <1>3 DEF Status

(* Edits, the abort and a crash.                                           *)
LEMMA EnvironmentTyped == TypeInv /\ Environment => TypeInv'
  <1> SUFFICES ASSUME TypeInv, Environment PROVE TypeInv'
    OBVIOUS
  <1> USE DEF TypeInv, TypeOK
  <1>0. vault \in [Path -> Image] /\ metadata \in Hash \cup {Gone} /\ edits \in Nat
        /\ crashes \in Nat /\ faults \in Nat /\ journal \in Journal \cup {None}
        /\ dirty \subseteq Path /\ published \in BOOLEAN
    BY DEF FilesTyped, JournalsTyped, PlaceTyped, CountersTyped
  <1>1. ASSUME UNCHANGED memory, UNCHANGED <<journal, published, faults>>,
               vault' \in [Path -> Image], metadata' \in Hash \cup {Gone},
               dirty' \subseteq Path, edits' \in Nat, crashes' \in Nat, aborted' \in BOOLEAN
        PROVE  TypeInv'
    <2>1. FilesTyped'
      BY <1>1 DEF FilesTyped, memory, plan
    <2>2. JournalsTyped'
      BY <1>1 DEF JournalsTyped, memory
    <2>3. PlaceTyped'
      BY <1>1 DEF PlaceTyped, memory, plan, rollback
    <2>4. left' \in Nat /\ faults' \in Nat /\ cursor' \in 0 .. Len(mem'.mutations)
      BY <1>1 DEF CountersTyped, memory, plan, rollback
    <2>5. CountersTyped'
      BY <1>1, <2>4 DEF CountersTyped
    <2>6. Control'
      BY <1>1 DEF Control, memory, plan, rollback
    <2> QED BY <2>1, <2>2, <2>3, <2>5, <2>6
  <1>a. aborted \in BOOLEAN
    BY DEF PlaceTyped
  <1>2. CASE \E p \in Path : EditFile(p)
    <2>1. PICK p \in Path : EditFile(p)
      BY <1>2
    <2>2. PICK image \in Image \ {vault[p]} : vault' = [vault EXCEPT ![p] = image]
      BY <2>1 DEF EditFile
    <2>3. vault' \in [Path -> Image]
      BY <1>0, <2>2
    <2>4. edits' \in Nat
      BY <1>0, <2>1 DEF EditFile
    <2> QED BY <1>0, <1>1, <1>a, <2>1, <2>3, <2>4 DEF EditFile
  <1>3. CASE EditMetadata
    <2>1. edits' \in Nat
      BY <1>0, <1>3 DEF EditMetadata
    <2> QED BY <1>0, <1>1, <1>3, <1>a, <2>1 DEF EditMetadata
  <1>4. CASE Abort
    BY <1>0, <1>1, <1>4 DEF Abort, durable, env
  <1>5. CASE Crash
    <2>1. crashes' \in Nat
      BY <1>0, <1>5 DEF Crash
    <2> QED BY <1>0, <1>5, <2>1, RestTyped DEF Crash, durable
  <1> QED BY <1>2, <1>3, <1>4, <1>5 DEF Environment

(* A stuttering step.                                                      *)
LEMMA StutterTyped == TypeInv /\ UNCHANGED vars => TypeInv'
  BY DEF vars, durable, plan, rollback, env, TypeInv, TypeOK, FilesTyped, JournalsTyped,
     PlaceTyped, CountersTyped, Control

(* TypeInv always holds.                                                   *)
LEMMA TypeInvariant == Spec => []TypeInv
  <1>1. TypeInv /\ [Next]_vars => TypeInv'
    BY ForwardTyped, ProtocolTyped, UndoTyped, PublicationTyped, BeginTyped,
       RecoverTyped, EnvironmentTyped, StutterTyped DEF Next, Program, Running
  <1> QED BY InitTyped, <1>1, PTL DEF Spec

(* Type correctness of the journal, the files and the run, whatever the    *)
(* plan, the edits, the crashes and the failing calls: in particular the   *)
(* loop of rollbackFileMutations never leaves the manifest.                *)
THEOREM TypeCorrect == Spec => []TypeOK
  <1>1. TypeInv => TypeOK
    BY DEF TypeInv
  <1> QED BY <1>1, TypeInvariant, PTL

-----------------------------------------------------------------------------
(* WriteAhead.  The step in hand is the one prepared in the journal, and   *)
(* the manifest in memory is part of the durable one.                      *)
Covers(j, ms) == \A i \in DOMAIN ms :
  \E k \in DOMAIN j.mutations : j.mutations[k] = ms[i]

OnDisk ==
  /\ pc # "idle" => journal # None /\ Covers(journal, mem.mutations)
  /\ pc \in {"postWal", "mutate"} => journal.prepared = change
  /\ ClosedWindows =>
       /\ pc = "mutate" => vault[change.path] = change.before
       /\ pc = "rollWrite" =>
            vault[mem.mutations[cursor].path] = mem.mutations[cursor].after

(* Naming or clearing the prepared step leaves the manifest alone.         *)
LEMMA PreparedFields ==
  ASSUME NEW j \in Journal, NEW s, NEW b, NEW m
  PROVE  LET n == [j EXCEPT !.status = s, !.complete = b, !.prepared = m] IN
         n.mutations = j.mutations /\ n.prepared = m /\ n.status = s
  BY DEF Journal

(* An appended step keeps the earlier entries where they were.             *)
LEMMA AppendFields ==
  ASSUME NEW j \in Journal, NEW s, NEW b, NEW m
  PROVE  LET n == [j EXCEPT !.status = s, !.complete = b,
                            !.mutations = Append(@, m), !.prepared = None] IN
         n.mutations = Append(j.mutations, m) /\ n.prepared = None /\ n.status = s
  <1> DEFINE ms == Append(j.mutations, m)
  <1> HIDE DEF ms
  <1>1. LET n == [j EXCEPT !.status = s, !.complete = b, !.mutations = ms, !.prepared = None]
        IN  n.mutations = ms /\ n.prepared = None /\ n.status = s
    BY DEF Journal
  <1> QED BY <1>1 DEF ms

(* A change of status leaves the steps alone.                              *)
LEMMA StatusFields ==
  ASSUME NEW j \in Journal, NEW s, NEW b
  PROVE  /\ LET n == [j EXCEPT !.status = s] IN
              n.mutations = j.mutations /\ n.prepared = j.prepared /\ n.status = s
         /\ LET n == [j EXCEPT !.status = s, !.complete = b] IN
              n.mutations = j.mutations /\ n.prepared = j.prepared /\ n.status = s
  BY DEF Journal

(* A journal covers its own manifest.                                      *)
LEMMA CoversSame == \A j \in Journal : Covers(j, j.mutations)
  BY DEF Covers

(* A step that neither writes files nor enters a step in hand.             *)
LEMMA OnDiskKept ==
  ASSUME TypeInv, OnDisk,
         \/ pc' = "idle"
         \/ /\ pc # "idle" /\ mem'.mutations = mem.mutations
            /\ journal' # None
            /\ journal' = journal \/ journal'.mutations = mem.mutations
            /\ pc' \notin {"postWal", "mutate", "rollWrite"}
  PROVE  OnDisk'
  <1>1. CASE pc' = "idle"
    BY <1>1 DEF OnDisk
  <1>2. CASE pc' # "idle"
    <2>1. mem \in Journal
      BY DEF TypeInv, TypeOK, JournalsTyped
    <2>2. Covers(journal', mem'.mutations)
      <3>1. CASE journal' = journal
        BY <1>2, <3>1 DEF OnDisk, Covers
      <3>2. CASE journal'.mutations = mem.mutations
        BY <1>2, <3>2 DEF Covers
      <3> QED BY <1>2, <3>1, <3>2
    <2> QED BY <1>2, <2>2 DEF OnDisk, Covers
  <1> QED BY <1>1, <1>2

(* At first there is no journal and nothing in hand.                       *)
LEMMA OnDiskInit == Init => OnDisk
  BY DEF Init, OnDisk

(* Between two files nothing is in hand.                                   *)
LEMMA OnDiskForward == TypeInv /\ OnDisk /\ Forward => OnDisk'
  <1> SUFFICES ASSUME TypeInv, OnDisk, Forward PROVE OnDisk'
    OBVIOUS
  <1>j. journal # None /\ mem \in Journal
    BY DEF OnDisk, Forward, Activate, RemovePage, Reindex, RebuildWrite, RebuildSource,
       Rewrite, RemoveSource, Stop, NextStage, TypeInv, TypeOK, JournalsTyped
  <1>1. CASE Activate
    <2> DEFINE j == [mem EXCEPT !.status = "active"]
    <2>1. CASE Rest
      BY <2>1, OnDiskKept DEF Rest
    <2>2. CASE ~Rest
      <3>1. Written(j) /\ mem' = j /\ pc' = "stage" /\ pc = "activate"
        BY <1>1, <2>2 DEF Activate
      <3>2. j.mutations = mem.mutations /\ j \in Journal
        BY <1>j, StatusTyped DEF Journal, Status
      <3>3. j # None
        BY <3>2, TokensAssumption
      <3>4. mem'.mutations = mem.mutations /\ journal'.mutations = mem.mutations
            /\ journal' # None
        BY <3>1, <3>2, <3>3 DEF Written
      <3> QED BY <3>1, <3>4, OnDiskKept
    <2> QED BY <2>1, <2>2
  <1>2. CASE ~Activate
    <2>1. pc \in {"stage", "reindex"} /\ stageUnchanged
          /\ pc' \in {"stage", "reindex", "capture", "fail"}
      BY <1>2 DEF Forward, RemovePage, Reindex, RebuildWrite, RebuildSource, Rewrite,
         RemoveSource, Stop, NextStage, Attempt, AttemptPlanned
    <2> QED BY <1>j, <2>1, OnDiskKept DEF stageUnchanged, durable
  <1> QED BY <1>1, <1>2

(* captureMutation: the journal is written before the file.                *)
LEMMA OnDiskProtocol == TypeInv /\ OnDisk /\ Protocol => OnDisk'
  <1> SUFFICES ASSUME TypeInv, OnDisk, Protocol PROVE OnDisk'
    OBVIOUS
  <1>0. pc \in CapturePc
    BY DEF Protocol, Capture, Prepare, PostWal, Mutate, ConfirmDone, ConfirmNoEffect,
       ConfirmUntrusted, CapturePc
  <1>j. /\ pc # "idle" /\ journal # None /\ mem \in Journal
        /\ Covers(journal, mem.mutations) /\ None \notin Journal
    BY <1>0, TokensAssumption
       DEF OnDisk, CapturePc, ConfirmPc, TypeInv, TypeOK, JournalsTyped
  <1>t. Thrown => pc' \in {"stage", "fail"}
    BY DEF Thrown
  <1>1. CASE Capture
    BY <1>1, <1>j, <1>t, OnDiskKept DEF Capture
  <1>2. CASE Prepare
    <2> DEFINE j == [mem EXCEPT !.status = "active", !.complete = TRUE, !.prepared = change]
    <2>a. j.mutations = mem.mutations /\ j.prepared = change
      BY <1>j, PreparedFields
    <2>b. "active" \in Status /\ TRUE \in BOOLEAN /\ change \in Mutation \cup {None}
      BY DEF Status, TypeInv, TypeOK, FilesTyped
    <2>1. j \in Journal /\ j.mutations = mem.mutations /\ j.prepared = change
      BY <1>j, <2>a, <2>b, PreparedTyped
    <2>2. CASE Written(j) /\ mem' = j /\ pc' = "postWal" /\ UNCHANGED change
      <3>1. journal' = j /\ journal' # None /\ mem'.mutations = mem.mutations
        BY <1>j, <2>1, <2>2 DEF Written
      <3> QED BY <2>1, <2>2, <3>1, CoversSame DEF OnDisk
    <2>3. CASE WriteThrows(j) /\ Thrown /\ UNCHANGED mem
      <3>1. journal' = journal \/ journal' = j
        BY <2>3 DEF WriteThrows
      <3> QED BY <1>j, <1>t, <2>1, <2>3, <3>1, OnDiskKept
    <2> QED BY <1>2, <2>2, <2>3 DEF Prepare
  <1>3. CASE PostWal
    <2>1. CASE Thrown
      BY <1>3, <1>j, <1>t, <2>1, OnDiskKept DEF PostWal
    <2>2. CASE ~Thrown
      <3>1. /\ pc = "postWal" /\ pc' = "mutate" /\ vault[change.path] = change.before
            /\ UNCHANGED <<change, vault, journal, mem>>
        BY <1>3, <2>2 DEF PostWal
      <3> QED BY <1>j, <3>1 DEF OnDisk
    <2> QED BY <2>1, <2>2
  <1>4. CASE Mutate
    BY <1>4, <1>j, OnDiskKept DEF Mutate
  <1>5. CASE ConfirmDone
    <2> DEFINE j == [mem EXCEPT !.status = "active", !.complete = TRUE,
                                !.mutations = Append(@, change), !.prepared = None]
    <2>1. change \in Mutation
      BY <1>0 DEF TypeInv, TypeOK, FilesTyped, Control
    <2>2. j \in Journal /\ j.mutations = Append(mem.mutations, change)
      <3>1. j.mutations = Append(mem.mutations, change)
        BY <1>j, AppendFields
      <3>2. "active" \in Status /\ TRUE \in BOOLEAN
        BY DEF Status
      <3> QED BY <1>j, <2>1, <3>1, <3>2, AppendTyped
    <2>3. Covers(j, mem.mutations)
      <3>1. mem.mutations \in Seq(Mutation)
        BY <1>j DEF Journal
      <3>2. \A i \in DOMAIN mem.mutations :
              i \in DOMAIN j.mutations /\ j.mutations[i] = mem.mutations[i]
        BY <2>1, <2>2, <3>1
      <3> QED BY <3>2 DEF Covers
    <2>4. pc' \in {"stage", "fail", "reindex"}
      BY <1>5, <1>t DEF ConfirmDone, AfterCommit
    <2>5. CASE Written(j) /\ mem' = j
      <3>1. journal' = j
        BY <2>5 DEF Written
      <3> HIDE DEF j
      <3> QED BY <1>j, <2>2, <2>4, <2>5, <3>1, CoversSame DEF OnDisk
    <2>6. CASE WriteThrows(j) /\ UNCHANGED mem
      <3>1. journal' = journal \/ journal' = j
        BY <2>6 DEF WriteThrows
      <3> HIDE DEF j
      <3> QED BY <1>j, <2>2, <2>3, <2>4, <2>6, <3>1 DEF OnDisk
    <2> QED BY <1>5, <2>5, <2>6 DEF ConfirmDone
  <1>6. CASE ConfirmNoEffect
    <2> DEFINE j == [mem EXCEPT !.status = "active", !.complete = TRUE, !.prepared = None]
    <2>1. j \in Journal /\ j.mutations = mem.mutations
      <3>1. j.mutations = mem.mutations
        BY <1>j, PreparedFields
      <3>2. "active" \in Status /\ TRUE \in BOOLEAN /\ None \in Mutation \cup {None}
        BY DEF Status
      <3> QED BY <1>j, <3>1, <3>2, PreparedTyped
    <2>2. (journal' = journal /\ mem' = mem) \/ (journal' = j /\ mem' \in {mem, j})
      BY <1>6 DEF ConfirmNoEffect, Written, WriteThrows
    <2>3. pc' \in {"stage", "fail"}
      BY <1>6, <1>t DEF ConfirmNoEffect
    <2> HIDE DEF j
    <2> QED BY <1>j, <2>1, <2>2, <2>3, OnDiskKept
  <1>7. CASE ConfirmUntrusted
    BY <1>7, <1>j, <1>t, OnDiskKept DEF ConfirmUntrusted
  <1> QED BY <1>1, <1>2, <1>3, <1>4, <1>5, <1>6, <1>7 DEF Protocol

(* The rollback replaces only images the manifest holds.                   *)
LEMMA OnDiskUndo == TypeInv /\ OnDisk /\ Undo => OnDisk'
  <1> SUFFICES ASSUME TypeInv, OnDisk, Undo PROVE OnDisk'
    OBVIOUS
  <1>0. pc \in {"fail", "unjournal"} \cup RollbackPc
    BY DEF Undo, Fail, RollCheck, RollWrite, RollVerify, RollDone, Unjournal, RollbackPc
  <1>j. pc # "idle" /\ journal # None /\ mem \in Journal /\ None \notin Journal
        /\ Covers(journal, mem.mutations)
    BY <1>0, TokensAssumption
       DEF OnDisk, RollbackPc, TypeInv, TypeOK, JournalsTyped
  <1>1. CASE Fail
    <2> DEFINE j == IF mem.status = "committed" THEN [mem EXCEPT !.status = "rollback"]
                    ELSE [mem EXCEPT !.status = "active", !.complete = FALSE]
    <2>1. j \in Journal /\ j.mutations = mem.mutations
      BY <1>j, StatusTyped, IncompleteTyped DEF Journal, Status
    <2>2. CASE Rest
      BY <2>2, OnDiskKept DEF Rest
    <2>3. CASE ~Rest
      <3>1. /\ \E je \in BOOLEAN : StartRollback(je)
            /\ \/ UNCHANGED <<journal, mem>>
               \/ Written(j) /\ mem' = j
               \/ WriteThrows(j) /\ UNCHANGED mem
        BY <1>1, <2>3 DEF Fail
      <3>2. journal' \in {journal, j} /\ mem' \in {mem, j} /\ pc' = "rollCheck"
        BY <3>1 DEF Written, WriteThrows, StartRollback
      <3> HIDE DEF j
      <3> QED BY <1>j, <2>1, <3>2, OnDiskKept
    <2> QED BY <2>2, <2>3
  <1>2. CASE RollCheck
    <2>1. CASE pc' = "rollWrite"
      <3>1. vault[mem.mutations[cursor].path] = mem.mutations[cursor].after
            /\ UNCHANGED <<journal, mem, vault, cursor>>
        BY <1>2, <2>1 DEF RollCheck, rollUnchanged
      <3> QED BY <1>j, <2>1, <3>1 DEF OnDisk
    <2>2. CASE pc' # "rollWrite"
      BY <1>2, <1>j, <2>2, OnDiskKept DEF RollCheck, rollUnchanged
    <2> QED BY <2>1, <2>2
  <1>3. CASE RollWrite
    BY <1>3, <1>j, OnDiskKept DEF RollWrite, rollUnchanged
  <1>4. CASE RollVerify
    BY <1>4, <1>j, OnDiskKept DEF RollVerify, rollUnchanged
  <1>5. CASE RollDone
    BY <1>5, <1>j, OnDiskKept DEF RollDone, Rest
  <1>6. CASE Unjournal
    BY <1>6, OnDiskKept DEF Unjournal, Rest
  <1> QED BY <1>1, <1>2, <1>3, <1>4, <1>5, <1>6 DEF Undo

(* The publication writes the metadata and the journal's status.           *)
LEMMA OnDiskPublication == TypeInv /\ OnDisk /\ Publication => OnDisk'
  <1> SUFFICES ASSUME TypeInv, OnDisk, Publication PROVE OnDisk'
    OBVIOUS
  <1>0. pc \in PublishPc \cup {"stage"}
    BY DEF Publication, Commit, Verify, Publish, Snapshot, Recheck, Compare, Save, ReadBack, Seal, Receipt,
       Cleanup, PublishPc
  <1>j. pc # "idle" /\ journal # None /\ mem \in Journal /\ None \notin Journal
    BY <1>0, TokensAssumption
       DEF OnDisk, PublishPc, TypeInv, TypeOK, JournalsTyped
  <1>w. \A j \in Journal : j.mutations = mem.mutations /\ mem' = j
          /\ (Written(j) \/ WriteThrows(j)) /\ pc' \in PublishPc \cup {"fail"} => OnDisk'
    <2> SUFFICES ASSUME NEW j \in Journal, j.mutations = mem.mutations, mem' = j,
                        Written(j) \/ WriteThrows(j), pc' \in PublishPc \cup {"fail"}
                 PROVE  OnDisk'
      OBVIOUS
    <2>1. journal' \in {journal, j}
      BY DEF Written, WriteThrows
    <2> QED BY <1>j, <2>1, OnDiskKept DEF PublishPc
  <1>r. Rest => OnDisk'
    BY OnDiskKept DEF Rest
  <1>1. CASE Commit
    <2> DEFINE j == [mem EXCEPT !.status = "committed", !.complete = trustworthy]
    <2>1. j \in Journal /\ j.mutations = mem.mutations
      <3>1. trustworthy \in BOOLEAN
        BY DEF TypeInv, TypeOK, PlaceTyped
      <3>2. j.mutations = mem.mutations
        BY <1>j, StatusFields
      <3>3. "committed" \in Status
        BY DEF Status
      <3> QED BY <1>j, <3>1, <3>2, <3>3, IncompleteTyped
    <2>2. mem' = j /\ (Written(j) \/ WriteThrows(j)) /\ pc' \in {"verify", "fail"}
      BY <1>1 DEF Commit
    <2> HIDE DEF j
    <2> QED BY <1>w, <2>1, <2>2 DEF PublishPc
  <1>2. CASE Verify
    BY <1>2, <1>j, OnDiskKept DEF Verify, durable
  <1>3. CASE Publish
    <2> DEFINE j == [mem EXCEPT !.status = "publishing"]
    <2>1. j \in Journal /\ j.mutations = mem.mutations
      BY <1>j, StatusTyped DEF Journal, Status
    <2>2. Rest \/ (mem' = j /\ Written(j) /\ pc' = "snapshot")
      BY <1>3 DEF Publish
    <2> HIDE DEF j
    <2> QED BY <1>r, <1>w, <2>1, <2>2 DEF PublishPc
  <1>4. CASE Snapshot
    BY <1>4, <1>j, <1>r, OnDiskKept DEF Snapshot, durable
  <1>5. CASE Recheck
    BY <1>5, <1>j, <1>r, OnDiskKept DEF Recheck, durable
  <1>6. CASE Compare \/ Save \/ ReadBack
    BY <1>6, <1>j, <1>r, OnDiskKept DEF Compare, Save, ReadBack, durable
  <1>7. CASE Seal
    <2> DEFINE j == [mem EXCEPT !.status = "published"]
    <2>1. j \in Journal /\ j.mutations = mem.mutations
      BY <1>j, StatusTyped DEF Journal, Status
    <2>2. Rest \/ (mem' = j /\ Written(j) /\ pc' = "receipt")
      BY <1>7 DEF Seal
    <2> HIDE DEF j
    <2> QED BY <1>r, <1>w, <2>1, <2>2 DEF PublishPc
  <1>8. CASE Receipt
    BY <1>8, <1>j, <1>r, OnDiskKept DEF Receipt, durable
  <1>9. CASE Cleanup
    BY <1>9, <1>r DEF Cleanup
  <1> QED BY <1>1, <1>2, <1>3, <1>4, <1>5, <1>6, <1>7, <1>8, <1>9 DEF Publication

(* A run begins without a journal or with the durable one.                 *)
LEMMA OnDiskStart == TypeInv /\ OnDisk /\ (Begin \/ Recover) => OnDisk'
  <1> SUFFICES ASSUME TypeInv, OnDisk, Begin \/ Recover PROVE OnDisk'
    OBVIOUS
  <1>1. CASE Begin
    <2> DEFINE j == [NoJournal EXCEPT !.base = metadata]
    <2>1. CASE Rest
      BY <2>1, OnDiskKept DEF Rest
    <2>2. CASE ~Rest
      <3>1. journal' = j /\ mem' = j /\ pc' = "activate"
        BY <1>1, <2>2 DEF Begin
      <3>2. j \in Journal
        <4>1. NoJournal \in Journal /\ metadata \in Hash \cup {Gone}
          BY NoJournalTyped DEF TypeInv, TypeOK, FilesTyped
        <4> QED BY <4>1 DEF Journal
      <3>3. j # None /\ Covers(j, j.mutations)
        BY <3>2, TokensAssumption, CoversSame
      <3> HIDE DEF j
      <3> QED BY <3>1, <3>3 DEF OnDisk
    <2> QED BY <2>1, <2>2
  <1>2. CASE Recover
    <2>1. journal \in Journal /\ journal # None /\ Covers(journal, journal.mutations)
      BY <1>2, CoversSame DEF Recover, TypeInv, TypeOK, JournalsTyped
    <2>2. mem' = journal /\ journal' = journal
      BY <1>2 DEF Recover, durable
    <2>3. journal.status \in Status
      BY <2>1 DEF Journal
    <2>4. pc' \in {"rollCheck", "unjournal", "verify", "cleanup"}
      BY <1>2, <2>3 DEF Recover, Status
    <2> QED BY <2>1, <2>2, <2>4 DEF OnDisk
  <1> QED BY <1>1, <1>2

(* Closed windows keep edits off the file being replaced.                  *)
LEMMA OnDiskEnvironment == TypeInv /\ OnDisk /\ Environment => OnDisk'
  <1> SUFFICES ASSUME TypeInv, OnDisk, Environment PROVE OnDisk'
    OBVIOUS
  <1>1. CASE Crash
    BY <1>1, OnDiskKept DEF Crash, Rest
  <1>2. CASE \E p \in Path : EditFile(p)
    <2>1. /\ UNCHANGED <<journal, pc, change, mem, cursor>>
          /\ ClosedWindows => pc \notin {"mutate", "rollWrite"}
      BY <1>2 DEF EditFile, memory, rollback
    <2> QED BY <2>1 DEF OnDisk, Covers
  <1>3. CASE EditMetadata \/ Abort
    BY <1>3 DEF EditMetadata, Abort, memory, rollback, durable, OnDisk, Covers
  <1> QED BY <1>1, <1>2, <1>3 DEF Environment

(* A stuttering step.                                                      *)
LEMMA OnDiskStutter == OnDisk /\ UNCHANGED vars => OnDisk'
  BY DEF vars, durable, plan, rollback, OnDisk, Covers

(* OnDisk always holds.                                                    *)
LEMMA OnDiskInvariant == Spec => []OnDisk
  <1>1. TypeInv /\ OnDisk /\ [Next]_vars => OnDisk'
    BY OnDiskForward, OnDiskProtocol, OnDiskUndo, OnDiskPublication, OnDiskStart,
       OnDiskEnvironment, OnDiskStutter DEF Next, Program, Running
  <1> QED BY OnDiskInit, <1>1, TypeInvariant, PTL DEF Spec

(* The files the program changes, and how.                                 *)
LEMMA FilesWritten ==
  TypeInv /\ Next /\ vault' # vault =>
    \/ \E p \in Path : EditFile(p)
    \/ Mutate /\ vault' = [vault EXCEPT ![change.path] = change.after]
    \/ RollWrite /\ vault' = [vault EXCEPT ![mem.mutations[cursor].path]
                                = mem.mutations[cursor].before]
  <1> SUFFICES ASSUME Next, vault' # vault
               PROVE  \/ \E p \in Path : EditFile(p)
                      \/ Mutate /\ vault' = [vault EXCEPT ![change.path] = change.after]
                      \/ RollWrite /\ vault' = [vault EXCEPT ![mem.mutations[cursor].path]
                                                  = mem.mutations[cursor].before]
    OBVIOUS
  <1>1. ~Forward
    BY DEF Forward, Activate, RemovePage, Reindex, RebuildWrite, RebuildSource, Rewrite,
       RemoveSource, Stop, NextStage, stageUnchanged, durable
  <1>2. Protocol => Mutate
    BY DEF Protocol, Capture, Prepare, PostWal, ConfirmDone, ConfirmNoEffect,
       ConfirmUntrusted
  <1>3. Undo => RollWrite
    BY DEF Undo, Fail, RollCheck, RollVerify, RollDone, Unjournal
  <1>4. ~Publication
    BY DEF Publication, Commit, Verify, Publish, Snapshot, Recheck, Compare, Save, ReadBack, Seal, Receipt,
       Cleanup, durable
  <1>5. ~Begin /\ ~Recover /\ ~EditMetadata /\ ~Abort /\ ~Crash
    BY DEF Begin, Recover, EditMetadata, Abort, Crash, durable
  <1>6. Mutate => vault' = [vault EXCEPT ![change.path] = change.after]
    BY DEF Mutate
  <1>7. RollWrite => vault' = [vault EXCEPT ![mem.mutations[cursor].path]
                                 = mem.mutations[cursor].before]
    BY DEF RollWrite
  <1> QED BY <1>1, <1>2, <1>3, <1>4, <1>5, <1>6, <1>7 DEF Next, Program, Running, Environment

(* Whatever fails, crashes or is edited outside the one call wide windows: *)
(* captureMutation and rollbackFileMutations replace an image only when    *)
(* the durable journal holds it.                                           *)
THEOREM JournalWrittenAhead == ClosedWindows => (Spec => WriteAhead)
  <1> SUFFICES ASSUME ClosedWindows PROVE Spec => WriteAhead
    OBVIOUS
  <1> DEFINE Justified(p) ==
        \/ edits' # edits
        \/ journal.prepared # None
             /\ journal.prepared = [path |-> p, before |-> vault[p], after |-> vault'[p]]
        \/ \E i \in DOMAIN journal.mutations :
             journal.mutations[i] = [path |-> p, before |-> vault'[p], after |-> vault[p]]
  <1>1. ASSUME TypeInv, OnDisk, [Next]_vars, NEW p \in Path, vault'[p] # vault[p]
        PROVE  Justified(p)
    <2>0. Next /\ vault' # vault /\ vault \in [Path -> Image]
      BY <1>1 DEF vars, durable, TypeInv, TypeOK, FilesTyped
    <2>1. CASE \E q \in Path : EditFile(q)
      BY <1>1, <2>1 DEF EditFile, TypeInv, TypeOK, CountersTyped
    <2>2. CASE Mutate /\ vault' = [vault EXCEPT ![change.path] = change.after]
      <3>1. change \in Mutation /\ change # None
        BY <1>1, <2>2 DEF Mutate, TypeInv, TypeOK, FilesTyped, Control, CapturePc
      <3>2. journal.prepared = change /\ vault[change.path] = change.before
        BY <1>1, <2>2 DEF Mutate, OnDisk
      <3>3. p = change.path /\ vault'[p] = change.after
        BY <1>1, <2>0, <2>2
      <3>4. change = [path |-> p, before |-> vault[p], after |-> vault'[p]]
        BY <3>1, <3>2, <3>3 DEF Mutation
      <3> QED BY <3>1, <3>2, <3>4
    <2>3. CASE RollWrite /\ vault' = [vault EXCEPT ![mem.mutations[cursor].path]
                                        = mem.mutations[cursor].before]
      <3> DEFINE m == mem.mutations[cursor]
      <3>1. cursor \in DOMAIN mem.mutations /\ m \in Mutation
        BY <1>1, <2>3 DEF RollWrite, TypeInv, TypeOK, JournalsTyped, CountersTyped, Control,
           Journal
      <3>2. vault[m.path] = m.after
        BY <1>1, <2>3 DEF RollWrite, OnDisk
      <3>3. PICK k \in DOMAIN journal.mutations : journal.mutations[k] = m
        BY <1>1, <2>3, <3>1 DEF RollWrite, OnDisk, Covers
      <3>4. p = m.path /\ vault'[p] = m.before
        BY <1>1, <2>0, <2>3
      <3>5. m = [path |-> p, before |-> vault'[p], after |-> vault[p]]
        BY <3>1, <3>2, <3>4 DEF Mutation
      <3> QED BY <3>3, <3>5
    <2> QED BY <1>1, <2>0, <2>1, <2>2, <2>3, FilesWritten
  <1>2. TypeInv /\ OnDisk /\ [Next]_vars =>
          [\A p \in Path : vault'[p] # vault[p] => Justified(p)]_vars
    BY <1>1
  <1> QED BY <1>2, TypeInvariant, OnDiskInvariant, PTL DEF WriteAhead, Spec
-----------------------------------------------------------------------------
(* Originals.  Clean files are those no external editor touched.           *)
Clean(p) == p \in Path \ dirty

First(ms, i) == \A k \in DOMAIN ms : k < i => ms[k].path # ms[i].path

(* Links(ms): every entry starts where the one before it on its path ended. *)
Links(ms) == \A i \in DOMAIN ms : Chained(SubSeq(ms, 1, i - 1), ms[i])

(* parseDeleteJournal, the part of it that is about the steps.             *)
Linked(j) == Links(j.mutations) /\ (j.prepared # None => Chained(j.mutations, j.prepared))

InStep == {"postWal", "mutate"} \cup ConfirmPc
Marked == {"readBack", "seal", "receipt", "cleanup"}

(* An undecided step of one re-ingested source is forgotten when the next  *)
(* source prepares over it (delete.ts, the prepare hook): no call fails,   *)
(* or there is no next source.                                             *)
Tolerant == MaxFaults = 0 \/ Remaining <= 1

(* The journal the run knows has the steps of its memory; where the run    *)
(* has just written or read it, it is the one on disk.                     *)
Held ==
  /\ pc # "idle" =>
       raw # None /\ raw.mutations = mem.mutations /\ raw.prepared = mem.prepared
  /\ pc \in InStep \cup {"activate", "verify", "publish"} \/ mode = "recover"
       => journal = raw
  /\ journal # None /\ journal.status = "prepared" =>
       journal.mutations = <<>> /\ journal.prepared = None
  /\ journal # None => Linked(journal)
  /\ pc \in {"idle"} \cup ForwardPc => mode = "run"
  /\ left <= Remaining

(* The metadata was changed before a journal said so.                      *)
Known ==
  /\ journal # None /\ journal.status = "published" => published
  /\ pc \in Marked => published

(* A source failed while it was re-ingested, and it was the last.          *)
Ended == pc = "stage" /\ stage = "rebuild" /\ left = 0 /\ failing

(* The step in hand, and the step the run left undecided: such a run does  *)
(* not trust its transaction, and prepares no other step unless somebody   *)
(* else wrote that file.                                                   *)
InHand ==
  /\ pc \in InStep => mem.prepared = change
  /\ pc \in {"prepare", "postWal", "mutate"} =>
       change.after # change.before
         /\ (Clean(change.path) => vault[change.path] = change.before)
  /\ pc \in ConfirmPc /\ Clean(change.path) =>
       /\ vault[change.path] \in {change.before, change.after}
       /\ MaxFaults = 0 => vault[change.path] # change.before
  /\ mode = "run" /\ pc \notin InStep /\ mem.prepared # None => ~trustworthy
  /\ pc \in ForwardPc \ InStep /\ mem.prepared # None =>
       mem.prepared.path \in dirty \/ Ended

(* The originals of clean files are where recovery looks for them.         *)
Originals == ~published =>
  /\ journal = None => \A p \in Path : Clean(p) => vault[p] = Initial[p]
  /\ journal # None =>
       /\ \A i \in DOMAIN journal.mutations :
            Clean(journal.mutations[i].path) /\ First(journal.mutations, i)
              => journal.mutations[i].before = Initial[journal.mutations[i].path]
       /\ \A p \in Path : Clean(p) /\ ~Touches(journal.mutations, p) =>
            IF journal.prepared # None /\ journal.prepared.path = p
              THEN journal.prepared.before = Initial[p]
              ELSE vault[p] = Initial[p]

(* What the rollback loop has undone, when it has met no conflict.         *)
Undoing == ~published =>
  /\ pc \in RollbackPc /\ ~rollbackError =>
       LET low == IF pc = "rollVerify" THEN cursor ELSE cursor + 1 IN
       \A i \in DOMAIN mem.mutations :
         /\ i >= low /\ Clean(mem.mutations[i].path)
         /\ \A k \in DOMAIN mem.mutations :
              k >= low /\ k < i => mem.mutations[k].path # mem.mutations[i].path
         => vault[mem.mutations[i].path] = mem.mutations[i].before
  /\ pc = "unjournal" /\ journal = raw =>
       \A p \in Path : Clean(p) => vault[p] = Initial[p]

Safe == Held /\ Known /\ InHand /\ Originals /\ Undoing
-----------------------------------------------------------------------------
(* Helpers: least numbers, first entries of a path, chains of a journal.   *)
LEMMA Least ==
  ASSUME NEW T, T \subseteq Nat, T # {}
  PROVE  \E n \in T : \A m \in T : n <= m
  <1> DEFINE R == StrictSubsetOrdering(Nat)
             I == {1 .. n : n \in T}
  <1>1. IsWellFoundedOn(R, FiniteSubsetsOf(Nat))
    BY FS_StrictSubsetOrderingWellFounded
  <1>2. I \subseteq FiniteSubsetsOf(Nat)
    <2>1. \A n \in T : 1 .. n \subseteq Nat /\ IsFiniteSet(1 .. n)
      BY FS_Interval
    <2> QED BY <2>1 DEF FiniteSubsetsOf
  <1>3. I # {}
    OBVIOUS
  <1> HIDE DEF R
  <1>4. PICK x \in I : \A y \in I : ~ (<<y, x>> \in R)
    BY <1>1, <1>2, <1>3, WFMin
  <1>5. PICK n \in T : x = 1 .. n
    BY <1>4
  <1>6. \A m \in T : m < n => <<1 .. m, 1 .. n>> \in R
    <2> SUFFICES ASSUME NEW m \in T, m < n PROVE <<1 .. m, 1 .. n>> \in R
      OBVIOUS
    <2>1. 1 .. m \subseteq 1 .. n /\ n \in 1 .. n /\ n \notin 1 .. m
      OBVIOUS
    <2>2. 1 .. m \subseteq Nat /\ 1 .. n \subseteq Nat
      OBVIOUS
    <2> QED BY <2>1, <2>2 DEF R, StrictSubsetOrdering
  <1>7. \A m \in T : ~(<<1 .. m, 1 .. n>> \in R)
    BY <1>4, <1>5
  <1>8. \A m \in T : ~(m < n)
    BY <1>6, <1>7
  <1> HIDE DEF I
  <1> QED BY <1>5, <1>8

(* A path of the manifest has a first entry.                               *)
LEMMA FirstExists ==
  ASSUME NEW ms \in Seq(Mutation), NEW p, Touches(ms, p)
  PROVE  \E i \in DOMAIN ms : ms[i].path = p /\ First(ms, i)
  <1> DEFINE T == {i \in DOMAIN ms : ms[i].path = p}
  <1>1. T \subseteq Nat /\ T # {}
    BY DEF Touches
  <1>2. PICK i \in T : \A k \in T : i <= k
    BY <1>1, Least
  <1>3. \A k \in DOMAIN ms : k < i => k \notin T
    BY <1>1, <1>2
  <1> QED BY <1>2, <1>3 DEF First

(* FirstOn finds the first entry of a path.                                *)
LEMMA FirstOnFirst ==
  ASSUME NEW ms \in Seq(Mutation), NEW p, Touches(ms, p)
  PROVE  LET i == FirstOn(ms, p) IN
         i \in DOMAIN ms /\ ms[i].path = p /\ First(ms, i)
  <1>1. PICK i \in DOMAIN ms : ms[i].path = p /\ First(ms, i)
    BY FirstExists
  <1>2. \A k \in DOMAIN ms : ms[k].path = p => i <= k
    BY <1>1 DEF First
  <1> DEFINE Is(n) == ms[n].path = p /\ \A k \in DOMAIN ms : ms[k].path = p => n <= k
  <1>3. \E n \in DOMAIN ms : Is(n)
    BY <1>1, <1>2
  <1>4. FirstOn(ms, p) \in DOMAIN ms /\ Is(FirstOn(ms, p))
    BY <1>3 DEF FirstOn
  <1>5. First(ms, FirstOn(ms, p))
    BY <1>4 DEF First
  <1> QED BY <1>4, <1>5

(* The length and the elements of a prefix.                                *)
LEMMA PrefixProperties ==
  ASSUME NEW S, NEW s \in Seq(S), NEW n \in 0 .. Len(s)
  PROVE  /\ SubSeq(s, 1, n) \in Seq(S) /\ Len(SubSeq(s, 1, n)) = n
         /\ \A i \in 1 .. n : SubSeq(s, 1, n)[i] = s[i]
  <1>1. n \in Int /\ n >= 0 /\ n <= Len(s) /\ Len(s) \in Nat
    OBVIOUS
  <1>2. \A i \in 1 .. n : s[i] \in S
    BY <1>1
  <1>3. /\ SubSeq(s, 1, n) \in Seq(S)
        /\ Len(SubSeq(s, 1, n)) = (IF 1 <= n THEN n - 1 + 1 ELSE 0)
        /\ \A i \in 1 .. n - 1 + 1 : SubSeq(s, 1, n)[i] = s[1 + i - 1]
    BY <1>1, <1>2, SubSeqProperties
  <1> QED BY <1>1, <1>3

(* Appending keeps the old prefixes.                                       *)
LEMMA SubSeqAppend ==
  ASSUME NEW S, NEW ms \in Seq(S), NEW m \in S, NEW n \in 0 .. Len(ms)
  PROVE  SubSeq(Append(ms, m), 1, n) = SubSeq(ms, 1, n)
  <1> DEFINE as == Append(ms, m)
  <1>1. /\ as \in Seq(S) /\ Len(as) = Len(ms) + 1
        /\ \A i \in 1 .. Len(ms) : as[i] = ms[i]
    OBVIOUS
  <1>2. n \in 0 .. Len(as) /\ 1 .. n \subseteq 1 .. Len(ms)
    BY <1>1
  <1> HIDE DEF as
  <1>3. /\ SubSeq(as, 1, n) \in Seq(S) /\ Len(SubSeq(as, 1, n)) = n
        /\ \A i \in 1 .. n : SubSeq(as, 1, n)[i] = as[i]
    BY <1>1, <1>2, PrefixProperties
  <1>4. /\ SubSeq(ms, 1, n) \in Seq(S) /\ Len(SubSeq(ms, 1, n)) = n
        /\ \A i \in 1 .. n : SubSeq(ms, 1, n)[i] = ms[i]
    BY PrefixProperties
  <1>5. \A i \in 1 .. n : SubSeq(as, 1, n)[i] = SubSeq(ms, 1, n)[i]
    BY <1>1, <1>2, <1>3, <1>4
  <1>6. SubSeq(as, 1, n) = SubSeq(ms, 1, n)
    BY <1>3, <1>4, <1>5, SeqEqual
  <1> QED BY <1>6 DEF as

(* A step that starts where its path ended keeps the chains.               *)
LEMMA ChainedAppend ==
  ASSUME NEW ms \in Seq(Mutation), NEW m \in Mutation, Chained(ms, m), Links(ms)
  PROVE  Links(Append(ms, m))
  <1> SUFFICES ASSUME NEW i \in DOMAIN Append(ms, m)
               PROVE  Chained(SubSeq(Append(ms, m), 1, i - 1), Append(ms, m)[i])
    BY DEF Links
  <1>1. i \in 1 .. Len(ms) + 1 /\ i - 1 \in 0 .. Len(ms)
    OBVIOUS
  <1>2. SubSeq(Append(ms, m), 1, i - 1) = SubSeq(ms, 1, i - 1)
    BY <1>1, SubSeqAppend
  <1>3. CASE i \in 1 .. Len(ms)
    <2>1. Append(ms, m)[i] = ms[i] /\ i \in DOMAIN ms
      BY <1>3
    <2>2. Chained(SubSeq(ms, 1, i - 1), ms[i])
      BY <2>1 DEF Links
    <2> QED BY <1>2, <2>1, <2>2
  <1>4. CASE i = Len(ms) + 1
    <2>1. Append(ms, m)[i] = m /\ i - 1 = Len(ms)
      BY <1>4
    <2>2. SubSeq(ms, 1, Len(ms)) = ms
      OBVIOUS
    <2> QED BY <1>2, <2>1, <2>2
  <1> QED BY <1>1, <1>3, <1>4
-----------------------------------------------------------------------------
(* OriginalsRecoverable: Safe is inductive.  SameSteps: the journal on     *)
(* disk is another one with the same steps.                                *)
SameSteps ==
  \/ journal' = journal
  \/ /\ journal # None /\ journal' # None /\ journal'.status # "prepared"
     /\ journal'.mutations = journal.mutations /\ journal'.prepared = journal.prepared
     /\ journal'.status = "published" => published'

(* The steps on disk and the files stay.                                   *)
LEMMA OriginalsSame ==
  ASSUME Originals, SameSteps, UNCHANGED <<vault, dirty>>,
         published' = published \/ published' = TRUE
  PROVE  Originals'
  BY DEF Originals, SameSteps, Clean

(* Another step is named, and the one named before was somebody else's.    *)
LEMMA OriginalsPrepare ==
  ASSUME Originals, UNCHANGED <<vault, dirty, published>>,
         journal # None, journal' # None, change \in Mutation, change # None,
         journal'.mutations = journal.mutations, journal'.prepared = change,
         journal.prepared # None => journal.prepared.path \in dirty,
         Clean(change.path) => vault[change.path] = change.before
  PROVE  Originals'
  <1> SUFFICES ASSUME ~published PROVE Originals'
    BY DEF Originals
  <1>1. \A p : Clean(p)' <=> Clean(p)
    BY DEF Clean
  <1>o. /\ \A i \in DOMAIN journal.mutations :
             Clean(journal.mutations[i].path) /\ First(journal.mutations, i)
               => journal.mutations[i].before = Initial[journal.mutations[i].path]
        /\ \A p \in Path : Clean(p) /\ ~Touches(journal.mutations, p) => vault[p] = Initial[p]
    BY DEF Originals, Clean
  <1>2. ASSUME NEW p \in Path, Clean(p), ~Touches(journal.mutations, p)
        PROVE  IF change.path = p THEN change.before = Initial[p] ELSE vault'[p] = Initial[p]
    BY <1>2, <1>o
  <1> QED BY <1>1, <1>2, <1>o DEF Originals

(* The step that was named joins the manifest.                             *)
LEMMA OriginalsAppend ==
  ASSUME Originals, UNCHANGED <<vault, dirty, published>>,
         journal \in Journal, journal # None, journal' # None,
         change \in Mutation, change # None, journal.prepared = change,
         journal'.mutations = Append(journal.mutations, change), journal'.prepared = None
  PROVE  Originals'
  <1> SUFFICES ASSUME ~published PROVE Originals'
    BY DEF Originals
  <1> DEFINE ms == journal.mutations
             ns == journal'.mutations
  <1>p. change.path \in Path
    BY DEF Mutation
  <1>1. /\ ms \in Seq(Mutation) /\ ns = Append(ms, change)
        /\ DOMAIN ns = 1 .. Len(ms) + 1 /\ DOMAIN ms = 1 .. Len(ms)
        /\ \A i \in 1 .. Len(ms) : ns[i] = ms[i]
        /\ ns[Len(ms) + 1] = change /\ Len(ms) \in Nat
    BY DEF Journal
  <1>2. \A p : Clean(p)' <=> Clean(p)
    BY DEF Clean
  <1>o. /\ \A i \in DOMAIN ms : Clean(ms[i].path) /\ First(ms, i)
              => ms[i].before = Initial[ms[i].path]
        /\ \A p \in Path : Clean(p) /\ ~Touches(ms, p) =>
             IF change.path = p THEN change.before = Initial[p] ELSE vault[p] = Initial[p]
    BY DEF Originals
  <1> HIDE DEF ms, ns
  <1>3. ASSUME NEW i \in DOMAIN ns, Clean(ns[i].path), First(ns, i)
        PROVE  ns[i].before = Initial[ns[i].path]
    <2>1. CASE i \in 1 .. Len(ms)
      <3>1. First(ms, i)
        BY <1>1, <1>3, <2>1 DEF First
      <3> QED BY <1>1, <1>3, <1>o, <2>1, <3>1
    <2>2. CASE i = Len(ms) + 1
      <3>1. \A k \in DOMAIN ms : k < i /\ k \in DOMAIN ns /\ ns[k] = ms[k]
        BY <1>1, <2>2
      <3>2. ~Touches(ms, change.path)
        BY <1>1, <1>3, <2>2, <3>1 DEF First, Touches
      <3> QED BY <1>p, <1>1, <1>3, <1>o, <2>2, <3>2
    <2> QED BY <1>1, <2>1, <2>2
  <1>4. ASSUME NEW p \in Path, Clean(p), ~Touches(ns, p) PROVE vault'[p] = Initial[p]
    <2>1. ~Touches(ms, p) /\ change.path # p
      BY <1>1, <1>4 DEF Touches
    <2> QED BY <1>4, <1>o, <2>1
  <1> QED BY <1>2, <1>3, <1>4 DEF Originals, ns

(* A step that had no effect is withdrawn.                                 *)
LEMMA OriginalsDrop ==
  ASSUME Originals, UNCHANGED <<vault, dirty, published>>,
         journal # None, journal' # None, change # None, journal.prepared = change,
         journal'.mutations = journal.mutations, journal'.prepared = None,
         vault[change.path] = change.before
  PROVE  Originals'
  BY DEF Originals, Clean

(* Only files the journal holds change.                                    *)
LEMMA OriginalsUndo ==
  ASSUME Originals, UNCHANGED <<journal, dirty, published>>, journal # None,
         \A p \in Path : vault'[p] # vault[p] => Touches(journal.mutations, p)
  PROVE  Originals'
  BY DEF Originals, Clean

(* The run ends.                                                           *)
LEMMA RestSafe ==
  ASSUME TypeInv, Safe, Rest, SameSteps, UNCHANGED <<vault, dirty>>,
         published' = published \/ published' = TRUE
  PROVE  Safe'
  <1> USE DEF Safe
  <1>1. Held'
    BY BoundsAssumption DEF Held, Linked, SameSteps, Rest, InStep, ConfirmPc
  <1>2. Known'
    BY DEF Known, SameSteps, Rest, Marked
  <1>3. InHand'
    BY DEF InHand, Rest, NoJournal, InStep, ConfirmPc, ForwardPc
  <1>4. Originals'
    BY OriginalsSame
  <1>5. Undoing'
    BY DEF Undoing, Rest, RollbackPc
  <1> QED BY <1>1, <1>2, <1>3, <1>4, <1>5

(* The memory keeps the steps it has.                                      *)
SameMemory ==
  /\ raw' # None /\ mem'.mutations = mem.mutations /\ mem'.prepared = mem.prepared
  /\ raw'.mutations = mem.mutations /\ raw'.prepared = mem.prepared

(* The run goes on outside captureMutation and the rollback.               *)
LEMMA PlainSafe ==
  ASSUME TypeInv, Safe, pc # "idle", pc \notin InStep, SameMemory, SameSteps,
         UNCHANGED <<vault, dirty, mode, trustworthy>>,
         published' = published \/ published' = TRUE,
         pc' \notin InStep \cup RollbackPc \cup {"idle", "prepare", "unjournal"},
         pc' \in {"activate", "verify", "publish"} \/ mode = "recover" => journal' = raw',
         pc' \in Marked => published',
         pc' \in ForwardPc => mode = "run",
         left' <= Remaining,
         pc' \in ForwardPc /\ mem.prepared # None =>
           mem.prepared.path \in dirty \/ Ended'
  PROVE  Safe'
  <1> USE DEF Safe, SameMemory
  <1>1. Held'
    BY DEF Held, Linked, SameSteps
  <1>2. Known'
    BY DEF Known, SameSteps
  <1>3. InHand'
    BY DEF InHand, InStep
  <1>4. Originals'
    BY OriginalsSame
  <1>5. Undoing'
    BY DEF Undoing
  <1> QED BY <1>1, <1>2, <1>3, <1>4, <1>5

(* captureMutation is left, whatever became of the step.                   *)
LEMMA OverSafe ==
  ASSUME TypeInv, Safe, pc \in CapturePc, captureUnchanged,
         pc' \in {"stage", "reindex", "fail"}, left' <= Remaining,
         raw' # None, raw'.mutations = mem'.mutations, raw'.prepared = mem'.prepared,
         \/ journal' = journal
         \/ /\ journal' # None /\ journal'.status \notin {"prepared", "published"}
            /\ Linked(journal'),
         mem'.prepared # None => ~trustworthy',
         pc' # "fail" /\ mem'.prepared # None =>
           mem'.prepared.path \in dirty \/ Ended',
         Originals'
  PROVE  Safe'
  <1>0. UNCHANGED <<mode, dirty, published>> /\ mode = "run"
    BY DEF captureUnchanged, env, Safe, Held, CapturePc, ForwardPc
  <1> USE DEF Safe
  <1>1. Held'
    BY <1>0 DEF Held, InStep, ConfirmPc
  <1>2. Known'
    BY <1>0 DEF Known, Marked
  <1>3. InHand'
    BY <1>0 DEF InHand, InStep, ConfirmPc, ForwardPc
  <1>4. Undoing'
    BY DEF Undoing, RollbackPc
  <1> QED BY <1>1, <1>2, <1>3, <1>4

(* The run turns back.                                                     *)
LEMMA TurnSafe ==
  ASSUME TypeInv, Safe, UNCHANGED <<vault, dirty, published, left>>, SameSteps,
         raw' # None, mem'.mutations = raw'.mutations, mem'.prepared = raw'.prepared,
         mem' \in Journal, pc' = "rollCheck", cursor' = Len(mem'.mutations),
         mode' = "recover" => journal' = raw',
         mode' = "run" /\ mem'.prepared # None => ~trustworthy'
  PROVE  Safe'
  <1> USE DEF Safe
  <1>1. Held'
    BY DEF Held, Linked, SameSteps, InStep, ForwardPc, ConfirmPc
  <1>2. Known'
    BY DEF Known, SameSteps, Marked
  <1>3. InHand'
    BY DEF InHand, InStep, ForwardPc, ConfirmPc
  <1>4. Originals'
    BY OriginalsSame
  <1>5. Undoing'
    <2>1. \A i \in DOMAIN mem'.mutations : ~(i >= cursor' + 1)
      <3>1. mem'.mutations \in Seq(Mutation)
        BY DEF Journal
      <3> QED BY <3>1
    <2> QED BY <2>1 DEF Undoing
  <1> QED BY <1>1, <1>2, <1>3, <1>4, <1>5

(* Safe holds at first.                                                    *)
LEMMA SafeInit == Init => Safe
  BY BoundsAssumption DEF Init, Safe, Held, Known, InHand, Originals, Undoing, NoJournal,
     ConfirmPc, InStep, ForwardPc, Marked, RollbackPc, Clean

(* Without faults no call fails.                                           *)
LEMMA NoFault == MaxFaults = 0 /\ TypeInv => ~Fault
  BY DEF Fault, TypeInv, TypeOK, CountersTyped

(* A journal write, done or thrown, and what it may leave on the disk.     *)
LEMMA WriteOutcome ==
  ASSUME NEW j, Written(j) \/ WriteThrows(j)
  PROVE  /\ Written(j) => journal = raw /\ journal' = j /\ raw' = j
         /\ WriteThrows(j) => raw' = raw
         /\ journal' = journal \/ (journal = raw /\ journal' = j)
  <1>1. Written(j) => journal = raw /\ journal' = j /\ raw' = j
    BY DEF Written
  <1>2. WriteThrows(j) => raw' = raw /\ (journal' = journal \/ (journal = raw /\ journal' = j))
    BY DEF WriteThrows
  <1> QED BY <1>1, <1>2

(* A journal that was written, or may have been, is a valid one.           *)
LEMMA WriteLinks ==
  ASSUME NEW j, Written(j) \/ WriteThrows(j), journal' # journal
  PROVE  Linked(j)
  <1>1. ValidJournal(j)
    BY DEF Written, WriteThrows
  <1> QED BY <1>1 DEF ValidJournal, Linked, Links

(* Going from file to file and from stage to stage.                        *)
LEMMA SafeForward == TypeInv /\ OnDisk /\ Safe /\ Forward => Safe'
  <1> SUFFICES ASSUME TypeInv, OnDisk, Safe, Forward PROVE Safe'
    OBVIOUS
  <1>0. pc \in {"activate", "stage", "reindex"}
    BY DEF Forward, Activate, RemovePage, Reindex, RebuildWrite, RebuildSource, Rewrite,
       RemoveSource, Stop, NextStage
  <1>j. /\ mem \in Journal /\ journal # None /\ raw # None
        /\ raw.mutations = mem.mutations /\ raw.prepared = mem.prepared
        /\ mode = "run" /\ pc # "idle" /\ pc \notin InStep /\ None \notin Journal
        /\ left <= Remaining /\ left \in Nat /\ Remaining \in Nat
    BY <1>0, TokensAssumption, BoundsAssumption DEF Safe, Held, OnDisk, ForwardPc, InStep,
       ConfirmPc, TypeInv, TypeOK, JournalsTyped, CountersTyped
  <1>1. CASE Activate
    <2> DEFINE j == [mem EXCEPT !.status = "active"]
    <2>0. journal = raw /\ pc = "activate" /\ UNCHANGED <<vault, dirty, published>>
      BY <1>1 DEF Activate, Safe, Held, env
    <2>1. j.mutations = mem.mutations /\ j.prepared = mem.prepared /\ j.status = "active"
      BY <1>j, StatusFields
    <2>2. j \in Journal
      BY <1>j, StatusTyped DEF Status
    <2>3. journal' \in {journal, j}
      BY <1>1 DEF Activate, Written
    <2>4. ~Rest => Written(j) /\ mem' = j /\ pc' = "stage"
                  
                   /\ UNCHANGED <<mode, left, trustworthy>>
      BY <1>1 DEF Activate, plan
    <2> HIDE DEF j
    <2>5. SameSteps
      BY <1>j, <2>0, <2>1, <2>2, <2>3 DEF SameSteps
    <2>6. CASE Rest
      BY <2>0, <2>5, <2>6, RestSafe
    <2>7. CASE ~Rest
      <3>1. SameMemory
        BY <1>j, <2>1, <2>2, <2>4, <2>7 DEF Written, SameMemory
      <3>2. mem.prepared # None => mem.prepared.path \in dirty
        BY <2>0 DEF Safe, InHand, Ended, ForwardPc, InStep, ConfirmPc
      <3> QED BY <1>j, <2>0, <2>4, <2>5, <2>7, <3>1, <3>2, PlainSafe
           DEF InStep, ConfirmPc, RollbackPc, Marked
    <2> QED BY <2>6, <2>7
  <1>2. CASE ~Activate
    <2>1. stageUnchanged /\ pc' \in {"stage", "reindex", "capture", "fail"}
          /\ pc \in {"stage", "reindex"}
      BY <1>2 DEF Forward, RemovePage, Reindex, RebuildWrite, RebuildSource, Rewrite,
         RemoveSource, Stop, NextStage, Attempt, AttemptPlanned
    <2>2. UNCHANGED <<vault, journal, mem, raw, mode, trustworthy, dirty, published>>
      BY <2>1 DEF stageUnchanged, durable, env
    <2>3. SameMemory /\ SameSteps
      BY <1>j, <2>2 DEF SameMemory, SameSteps
    <2>4. left' <= Remaining
      <3>1. left' \in {left, left - 1}
        BY <1>2 DEF Forward, RemovePage, Reindex, RebuildWrite, RebuildSource, Rewrite,
           RemoveSource, Stop, NextStage
      <3> QED BY <1>j, <3>1
    <2>5. Ended => pc' = "fail"
      BY <1>2 DEF Forward, RemovePage, Reindex, RebuildWrite, RebuildSource, Rewrite,
         RemoveSource, Stop, NextStage, Ended
    <2>6. mem.prepared # None => mem.prepared.path \in dirty \/ pc' = "fail"
      BY <2>1, <2>5 DEF Safe, InHand, ForwardPc, InStep, ConfirmPc
    <2>7. pc' \in ForwardPc => pc' # "fail"
      BY DEF ForwardPc, ConfirmPc
    <2> QED BY <1>j, <2>1, <2>2, <2>3, <2>4, <2>6, <2>7, PlainSafe
         DEF InStep, ConfirmPc, RollbackPc, Marked
  <1> QED BY <1>1, <1>2

(* captureMutation, confirmed or left undecided.                           *)
LEMMA SafeProtocol == Tolerant /\ TypeInv /\ OnDisk /\ Safe /\ Protocol => Safe'
  <1> SUFFICES ASSUME Tolerant, TypeInv, OnDisk, Safe, Protocol PROVE Safe'
    OBVIOUS
  <1>0. pc \in CapturePc
    BY DEF Protocol, Capture, Prepare, PostWal, Mutate, ConfirmDone, ConfirmNoEffect,
       ConfirmUntrusted, CapturePc
  <1>j. /\ mem \in Journal /\ journal \in Journal /\ journal # None /\ raw # None
        /\ raw.mutations = mem.mutations /\ raw.prepared = mem.prepared
        /\ mode = "run" /\ pc # "idle" /\ None \notin Journal
        /\ change \in Mutation /\ change # None /\ change.path \in Path
        /\ left <= Remaining /\ left \in Nat /\ Remaining \in Nat /\ failing \in BOOLEAN
    BY <1>0, TokensAssumption, BoundsAssumption DEF Safe, Held, OnDisk, ForwardPc, CapturePc,
       ConfirmPc, TypeInv, TypeOK, JournalsTyped, FilesTyped, PlaceTyped, CountersTyped,
       Journal, Control, Mutation
  <1>u. captureUnchanged => UNCHANGED <<mode, stage, dirty, published>>
    BY DEF captureUnchanged, env
  <1>s. pc \in InStep => /\ journal = raw /\ mem.prepared = change /\ journal.prepared = change
                         /\ journal.mutations = mem.mutations
    BY <1>j DEF Safe, Held, InHand
  <1>c. pc \notin InStep /\ mem.prepared # None => mem.prepared.path \in dirty /\ ~trustworthy
    <2>1. pc \in ForwardPc /\ pc # "stage"
      BY <1>0 DEF CapturePc, ForwardPc, ConfirmPc
    <2> QED BY <1>j, <2>1 DEF Safe, InHand, Ended
  <1>e. ASSUME Thrown, captureUnchanged
        PROVE  /\ pc' \in {"stage", "fail"} /\ left' <= Remaining
               /\ Remaining <= 1 => pc' = "fail" \/ Ended'
    <2>1. CASE stage = "rebuild"
      <3>1. pc' = "stage" /\ failing' = TRUE /\ left' = left - 1 /\ left > 0 /\ stage' = stage
        BY <1>0, <1>e, <1>u, <2>1 DEF Thrown, TypeInv, Control
      <3> QED BY <1>j, <2>1, <3>1 DEF Ended
    <2>2. CASE stage # "rebuild"
      BY <1>j, <1>e, <2>2 DEF Thrown
    <2> QED BY <2>1, <2>2
  (* Thrown, and the journal keeps its steps: the step in hand may have    *)
  (* taken effect only if a call failed or somebody else wrote the file.   *)
  <1>t. ASSUME Thrown, captureUnchanged, SameSteps, SameMemory, UNCHANGED vault,
               \/ journal' = journal
               \/ journal'.status \notin {"prepared", "published"} /\ Linked(journal'),
               pc \in InStep =>
                 ~trustworthy' /\ (change.path \in dirty \/ Remaining <= 1),
               pc \notin InStep => trustworthy' = trustworthy \/ ~trustworthy'
        PROVE  Safe'
    <2>1. Originals'
      BY <1>t, <1>u, OriginalsSame DEF Safe
    <2>2. mem.prepared # None =>
            ~trustworthy' /\ (mem.prepared.path \in dirty \/ Remaining <= 1)
      BY <1>t, <1>s, <1>c
    <2>3. journal' # None
      BY <1>j, <1>t DEF SameSteps
    <2>4. UNCHANGED dirty
      BY <1>t, <1>u
    <2>5. mem'.prepared # None =>
            ~trustworthy' /\ (mem'.prepared.path \in dirty \/ pc' = "fail" \/ Ended')
      BY <1>t, <1>e, <2>2, <2>4 DEF SameMemory
    <2> QED BY <1>0, <1>e, <1>t, <2>1, <2>3, <2>5, OverSafe DEF SameMemory
  <1>k. UNCHANGED <<mem, raw>> => SameMemory
    BY <1>j DEF SameMemory
  <1>1. CASE Capture
    <2>1. CASE Thrown
      BY <1>1, <1>k, <1>t, <2>1 DEF Capture, InStep, ConfirmPc, SameSteps
    <2>2. CASE ~Thrown
      <3>1. /\ pc = "capture" /\ pc' = "prepare" /\ vault[change.path] = change.before
            /\ change.after # change.before
            /\ UNCHANGED <<change, vault, journal, mem, raw, mode, dirty, published, left,
                           trustworthy>>
        BY <1>1, <1>u, <2>2 DEF Capture
      <3> USE DEF Safe
      <3>2. Held'
        BY <1>j, <3>1 DEF Held, ForwardPc, InStep, ConfirmPc
      <3>3. Known'
        BY <3>1 DEF Known, Marked
      <3>4. InHand'
        BY <1>c, <3>1 DEF InHand, InStep, ConfirmPc
      <3>5. Originals'
        BY <3>1, OriginalsSame DEF SameSteps
      <3>6. Undoing'
        BY <3>1 DEF Undoing, RollbackPc
      <3> QED BY <3>2, <3>3, <3>4, <3>5, <3>6
    <2> QED BY <2>1, <2>2
  <1>2. CASE Prepare
    <2> DEFINE j == [mem EXCEPT !.status = "active", !.complete = TRUE, !.prepared = change]
    <2>0. /\ pc = "prepare" /\ pc \notin InStep /\ captureUnchanged
          /\ UNCHANGED <<vault, mode, dirty, published, trustworthy>>
          /\ \/ Written(j) /\ mem' = j /\ pc' = "postWal" /\ UNCHANGED <<change, left>>
             \/ WriteThrows(j) /\ Thrown /\ UNCHANGED mem
      BY <1>2, <1>u DEF Prepare, InStep, ConfirmPc
    <2>1. j.mutations = mem.mutations /\ j.prepared = change /\ j.status = "active"
      BY <1>j, PreparedFields
    <2>2. j \in Journal
      BY <1>j, PreparedTyped DEF Status
    <2>3. Clean(change.path) => vault[change.path] = change.before
      BY <2>0 DEF Safe, InHand
    <2> HIDE DEF j
    <2>n. j # None
      BY <1>j, <2>2
    <2>4. journal' # journal => journal = raw /\ journal' = j
      BY <2>0, WriteOutcome
    <2>5. Originals'
      <3>1. CASE journal' = journal
        BY <2>0, <3>1, OriginalsSame DEF Safe, SameSteps
      <3>2. CASE journal' # journal
        <4>1. journal.mutations = mem.mutations /\ journal.prepared = mem.prepared
          BY <1>j, <2>4, <3>2
        <4>2. journal.prepared # None => journal.prepared.path \in dirty
          BY <1>c, <2>0, <4>1
        <4> QED BY <1>j, <2>0, <2>1, <2>2, <2>n, <2>3, <2>4, <3>2, <4>1, <4>2, OriginalsPrepare
             DEF Safe
      <3> QED BY <3>1, <3>2
    <2>6. CASE WriteThrows(j) /\ Thrown /\ UNCHANGED mem
      <3>1. /\ raw' = raw
            /\ \/ journal' = journal
               \/ journal' # None /\ journal'.status = "active" /\ Linked(journal')
        BY <2>0, <2>1, <2>2, <2>n, <2>4, <2>6, WriteOutcome, WriteLinks
      <3>2. mem.prepared # None => mem.prepared.path \in dirty /\ ~trustworthy
        BY <1>c, <2>0
      <3> QED BY <1>0, <1>e, <1>j, <2>0, <2>5, <2>6, <3>1, <3>2, OverSafe
    <2>7. CASE Written(j) /\ mem' = j /\ pc' = "postWal" /\ UNCHANGED <<change, left>>
      <3>1. journal' = j /\ raw' = j /\ mem' = j
        BY <2>7, WriteOutcome
      <3> USE DEF Safe
      <3>2. Held'
        <4>1. journal' # journal => Linked(j)
          BY <2>7, WriteLinks
        <4>2. journal' # None => Linked(journal')
          BY <1>j, <3>1, <4>1 DEF Held
        <4> QED BY <1>j, <2>0, <2>1, <2>2, <2>n, <2>7, <3>1, <4>2 DEF Held
      <3>3. Known'
        BY <2>1, <2>7, <3>1 DEF Known, Marked
      <3>4. InHand'
        BY <2>0, <2>1, <2>7, <3>1 DEF InHand, InStep, ConfirmPc, Clean
      <3>5. Undoing'
        BY <2>7 DEF Undoing, RollbackPc
      <3> QED BY <2>5, <3>2, <3>3, <3>4, <3>5
    <2> QED BY <2>0, <2>6, <2>7
  <1>3. CASE PostWal
    <2>0. pc = "postWal" /\ pc \in InStep /\ captureUnchanged
          /\ UNCHANGED <<vault, journal, mem, raw, mode, dirty, published>>
      BY <1>3, <1>u DEF PostWal, InStep
    <2>1. CASE vault[change.path] # change.before
      <3>1. Thrown /\ trustworthy' = FALSE
        BY <1>3, <2>1 DEF PostWal
      <3>2. change.path \in dirty
        BY <1>j, <2>0, <2>1 DEF Safe, InHand, Clean
      <3> QED BY <1>k, <1>t, <2>0, <3>1, <3>2 DEF SameSteps
    <2>2. CASE vault[change.path] = change.before
      <3>1. pc' = "mutate" /\ UNCHANGED <<change, left>>
        BY <1>3, <2>2 DEF PostWal
      <3> USE DEF Safe
      <3>2. Held'
        BY <1>j, <2>0, <3>1 DEF Held, InStep
      <3>3. Known'
        BY <2>0, <3>1 DEF Known, Marked
      <3>4. InHand'
        BY <2>0, <3>1 DEF InHand, InStep, ConfirmPc, Clean
      <3>5. Originals'
        BY <2>0, OriginalsSame DEF SameSteps
      <3>6. Undoing'
        BY <3>1 DEF Undoing, RollbackPc
      <3> QED BY <3>2, <3>3, <3>4, <3>5, <3>6
    <2> QED BY <2>1, <2>2
  <1>4. CASE Mutate
    <2>1. /\ pc = "mutate" /\ pc \in InStep /\ pc' \in ConfirmPc
          /\ UNCHANGED <<change, journal, mem, raw, mode, dirty, published, left>>
      BY <1>4, <1>u DEF Mutate, InStep, ConfirmPc
    <2>2. vault \in [Path -> Image]
      BY DEF TypeInv, TypeOK, FilesTyped
    <2>3. \/ vault' = [vault EXCEPT ![change.path] = change.after]
          \/ vault' = vault /\ MaxFaults # 0
      BY <1>4, NoFault DEF Mutate
    <2>4. change.after # change.before
          /\ (Clean(change.path) => vault[change.path] = change.before)
      BY <2>1 DEF Safe, InHand
    <2> USE DEF Safe
    <2>5. Held'
      BY <1>j, <2>1 DEF Held, ForwardPc, InStep
    <2>6. Known'
      BY <2>1 DEF Known, Marked, ConfirmPc
    <2>7. InHand'
      <3>1. Clean(change.path) =>
              /\ vault'[change.path] \in {change.before, change.after}
              /\ MaxFaults = 0 => vault'[change.path] # change.before
        BY <1>j, <2>2, <2>3, <2>4
      <3>2. mem'.prepared = change'
        BY <1>s, <2>1
      <3> QED BY <2>1, <3>1, <3>2 DEF InHand, InStep, ConfirmPc, Clean
    <2>8. Originals'
      <3>1. \A p \in Path : p # change.path => vault'[p] = vault[p]
        BY <2>2, <2>3
      <3> QED BY <1>j, <1>s, <2>1, <3>1 DEF Originals, Clean
    <2>9. Undoing'
      BY <2>1 DEF Undoing, RollbackPc, ConfirmPc
    <2> QED BY <2>5, <2>6, <2>7, <2>8, <2>9
  <1>5. CASE ConfirmDone
    <2> DEFINE j == [mem EXCEPT !.status = "active", !.complete = TRUE,
                                !.mutations = Append(@, change), !.prepared = None]
    <2>0. /\ pc \in ConfirmPc /\ pc \in InStep /\ captureUnchanged
          /\ UNCHANGED <<vault, mode, dirty, published>>
          /\ \/ Written(j) /\ mem' = j /\ (AfterCommit \/ Thrown)
             \/ WriteThrows(j) /\ Thrown /\ UNCHANGED mem /\ trustworthy' = FALSE
      BY <1>5, <1>u DEF ConfirmDone, InStep
    <2>1. /\ j.mutations = Append(mem.mutations, change)
          /\ j.prepared = None /\ j.status = "active"
      BY <1>j, AppendFields
    <2>2. j \in Journal
      BY <1>j, AppendTyped DEF Status
    <2> HIDE DEF j
    <2>n. j # None
      BY <1>j, <2>2
    <2>3. journal' = journal \/ journal' = j
      BY <2>0, WriteOutcome
    <2>4. Originals'
      <3>1. CASE journal' = journal
        BY <2>0, <3>1, OriginalsSame DEF Safe, SameSteps
      <3>2. CASE journal' = j
        BY <1>j, <1>s, <2>0, <2>1, <2>2, <2>n, <3>2, OriginalsAppend DEF Safe
      <3> QED BY <2>3, <3>1, <3>2
    <2>5. pc' \in {"stage", "reindex", "fail"} /\ left' <= Remaining
      BY <1>e, <1>j, <2>0 DEF AfterCommit
    <2>6. \/ journal' = journal
          \/ /\ journal' # None /\ journal'.status \notin {"prepared", "published"}
             /\ Linked(journal')
      BY <2>0, <2>1, <2>2, <2>n, <2>3, WriteLinks
    <2>7. CASE Written(j) /\ mem' = j
      <3>1. raw' = j
        BY <2>7, WriteOutcome
      <3> QED BY <1>0, <2>0, <2>1, <2>2, <2>n, <2>4, <2>5, <2>6, <2>7, <3>1, OverSafe
    <2>8. CASE WriteThrows(j) /\ Thrown /\ UNCHANGED mem /\ trustworthy' = FALSE
      <3>1. raw' = raw
        BY <2>8, WriteOutcome
      <3>2. change.path \notin dirty => Remaining <= 1
        <4>1. Linked(journal)
          BY <1>j DEF Safe, Held
        <4>2. Links(journal.mutations) /\ Chained(journal.mutations, change)
          BY <1>j, <1>s, <2>0, <4>1 DEF Linked
        <4>3. journal.mutations \in Seq(Mutation)
          BY <1>j DEF Journal
        <4>4. Links(j.mutations)
          BY <1>j, <1>s, <2>0, <2>1, <4>2, <4>3, ChainedAppend
        <4>5. ValidJournal(j)
          BY <2>1, <4>4 DEF ValidJournal, Links, CommittedStatus
        <4>6. faults < MaxFaults /\ faults \in Nat
          BY <1>s, <2>0, <2>8, <4>5 DEF WriteThrows, TypeInv, TypeOK, CountersTyped
        <4> QED BY <4>6, BoundsAssumption DEF Tolerant
      <3> QED BY <1>0, <1>e, <1>j, <1>s, <2>0, <2>4, <2>5, <2>6, <2>8, <3>1, <3>2, OverSafe
    <2> QED BY <2>0, <2>7, <2>8
  <1>6. CASE ConfirmNoEffect
    <2> DEFINE j == [mem EXCEPT !.status = "active", !.complete = TRUE, !.prepared = None]
    <2>0. /\ pc \in ConfirmPc /\ pc \in InStep /\ captureUnchanged /\ Thrown
          /\ vault[change.path] = change.before
          /\ UNCHANGED <<vault, mode, dirty, published>>
          /\ \/ Written(j) /\ mem' = j
             \/ WriteThrows(j) /\ UNCHANGED mem /\ trustworthy' = FALSE
      BY <1>6, <1>u DEF ConfirmNoEffect, InStep
    <2>1. j.mutations = mem.mutations /\ j.prepared = None /\ j.status = "active"
      BY <1>j, PreparedFields
    <2>2. j \in Journal
      BY <1>j, PreparedTyped DEF Status
    <2> HIDE DEF j
    <2>n. j # None
      BY <1>j, <2>2
    <2>3. journal' = journal \/ journal' = j
      BY <2>0, WriteOutcome
    <2>4. Originals'
      <3>1. CASE journal' = journal
        BY <2>0, <3>1, OriginalsSame DEF Safe, SameSteps
      <3>2. CASE journal' = j
        BY <1>j, <1>s, <2>0, <2>1, <2>2, <2>n, <3>2, OriginalsDrop DEF Safe
      <3> QED BY <2>3, <3>1, <3>2
    <2>5. pc' \in {"stage", "reindex", "fail"} /\ left' <= Remaining
      BY <1>e, <2>0
    <2>6. \/ journal' = journal
          \/ /\ journal' # None /\ journal'.status \notin {"prepared", "published"}
             /\ Linked(journal')
      BY <2>0, <2>1, <2>2, <2>n, <2>3, WriteLinks
    <2>7. CASE Written(j) /\ mem' = j
      <3>1. raw' = j
        BY <2>7, WriteOutcome
      <3> QED BY <1>0, <2>0, <2>1, <2>2, <2>n, <2>4, <2>5, <2>6, <2>7, <3>1, OverSafe
    <2>8. CASE WriteThrows(j) /\ UNCHANGED mem /\ trustworthy' = FALSE
      <3>1. raw' = raw
        BY <2>8, WriteOutcome
      <3>2. change.path \notin dirty => Remaining <= 1
        BY <1>j, <2>0 DEF Tolerant, Safe, InHand, Clean
      <3> QED BY <1>0, <1>e, <1>j, <1>s, <2>0, <2>4, <2>5, <2>6, <2>8, <3>1, <3>2, OverSafe
    <2> QED BY <2>0, <2>7, <2>8
  <1>7. CASE ConfirmUntrusted
    <2>0. /\ pc \in ConfirmPc /\ pc \in InStep /\ captureUnchanged /\ Thrown
          /\ trustworthy' = FALSE
          /\ UNCHANGED <<vault, journal, mem, raw, mode, dirty, published>>
          /\ vault[change.path] \notin {change.before, change.after} \/ Fault
      BY <1>7, <1>u DEF ConfirmUntrusted, InStep
    <2>1. CASE vault[change.path] \notin {change.before, change.after}
      <3>1. change.path \in dirty
        BY <1>j, <2>0, <2>1 DEF Safe, InHand, Clean
      <3> QED BY <1>k, <1>t, <2>0, <3>1 DEF SameSteps
    <2>2. CASE Fault
      <3>1. Remaining <= 1
        BY <2>2, NoFault DEF Tolerant
      <3> QED BY <1>k, <1>t, <2>0, <3>1 DEF SameSteps
    <2> QED BY <2>0, <2>1, <2>2
  <1> QED BY <1>1, <1>2, <1>3, <1>4, <1>5, <1>6, <1>7 DEF Protocol

(* The rollback: from the newest entry to the oldest.                      *)
LEMMA SafeUndo == TypeInv /\ OnDisk /\ Safe /\ Undo => Safe'
  <1> SUFFICES ASSUME TypeInv, OnDisk, Safe, Undo PROVE Safe'
    OBVIOUS
  <1>0. pc \in {"fail", "unjournal"} \cup RollbackPc
    BY DEF Undo, Fail, RollCheck, RollWrite, RollVerify, RollDone, Unjournal, RollbackPc
  <1>j. /\ mem \in Journal /\ journal \in Journal /\ journal # None /\ raw # None
        /\ raw.mutations = mem.mutations /\ raw.prepared = mem.prepared
        /\ pc # "idle" /\ pc \notin InStep /\ pc \notin ForwardPc /\ None \notin Journal
        /\ mem.mutations \in Seq(Mutation) /\ cursor \in 0 .. Len(mem.mutations)
        /\ vault \in [Path -> Image] /\ Len(mem.mutations) \in Nat
        /\ DOMAIN mem.mutations = 1 .. Len(mem.mutations)
        /\ mode \in {"run", "recover"} /\ (mode = "recover" => journal = raw)
        /\ (mode = "run" /\ mem.prepared # None => ~trustworthy)
    BY <1>0, TokensAssumption DEF Safe, Held, InHand, OnDisk, ForwardPc, RollbackPc, InStep,
       ConfirmPc, TypeInv, TypeOK, JournalsTyped, FilesTyped, CountersTyped, PlaceTyped, Journal
  <1>d. \A p : Touches(mem.mutations, p) => Touches(journal.mutations, p)
    BY <1>j DEF OnDisk, Covers, Touches
  <1>1. CASE Fail
    <2> DEFINE j == IF mem.status = "committed" THEN [mem EXCEPT !.status = "rollback"]
                    ELSE [mem EXCEPT !.status = "active", !.complete = FALSE]
    <2>0. UNCHANGED <<vault, dirty, published>>
      BY <1>1 DEF Fail, env
    <2>1. /\ j.mutations = mem.mutations /\ j.prepared = mem.prepared
          /\ j.status \in {"rollback", "active"}
      BY <1>j, StatusFields
    <2>2. j \in Journal
      BY <1>j, StatusTyped, IncompleteTyped DEF Status
    <2>3. CASE Rest
      <3>1. mode = "recover" /\ journal' \in {journal, j}
        BY <1>1, <1>j, <2>3 DEF Fail, Rest, StartRollback
      <3> HIDE DEF j
      <3>2. SameSteps
        BY <1>j, <2>1, <2>2, <3>1 DEF SameSteps
      <3> QED BY <2>0, <2>3, <3>2, RestSafe
    <2>4. CASE ~Rest
      <3>1. /\ \E je \in BOOLEAN : StartRollback(je)
            /\ UNCHANGED <<mode, left, trustworthy>>
            /\ \/ UNCHANGED <<journal, mem, raw>>
               \/ Written(j) /\ mem' = j
               \/ WriteThrows(j) /\ UNCHANGED mem /\ mode = "run"
        BY <1>1, <2>4 DEF Fail, plan
      <3>2. pc' = "rollCheck" /\ cursor' = Len(mem.mutations)
        BY <3>1 DEF StartRollback
      <3> HIDE DEF j
      <3>3. /\ journal' # journal => journal = raw /\ journal' = j
            /\ \/ raw' = raw /\ mem' = mem
               \/ raw' = j /\ mem' = j /\ journal' = j
        BY <3>1, WriteOutcome
      <3>4. SameSteps
        BY <1>j, <2>1, <2>2, <3>3 DEF SameSteps
      <3>5. /\ raw' # None /\ mem' \in Journal
            /\ mem'.mutations = raw'.mutations /\ mem'.prepared = raw'.prepared
            /\ mem'.mutations = mem.mutations /\ mem'.prepared = mem.prepared
        BY <1>j, <2>1, <2>2, <3>3
      <3>6. mode = "recover" => journal' = raw'
        BY <1>j, <3>1, WriteOutcome
      <3> QED BY <1>j, <2>0, <3>1, <3>2, <3>4, <3>5, <3>6, TurnSafe
    <2> QED BY <2>3, <2>4
  <1>2. CASE RollCheck \/ RollWrite \/ RollVerify
    <2>1. /\ rollUnchanged /\ UNCHANGED <<dirty, published>>
          /\ pc \in RollbackPc /\ pc' \in RollbackPc /\ cursor > 0
      BY <1>2 DEF RollCheck, RollWrite, RollVerify, rollUnchanged, RollbackPc, env,
         TypeInv, Control
    <2> DEFINE m == mem.mutations[cursor]
    <2>2. cursor \in DOMAIN mem.mutations /\ m \in Mutation /\ m.path \in Path
      <3>1. cursor \in 1 .. Len(mem.mutations)
        BY <1>j, <2>1
      <3>2. m \in Mutation
        BY <1>j, <3>1, ElementOfSeq
      <3> QED BY <1>j, <3>1, <3>2 DEF Mutation
    <2>3. UNCHANGED <<journal, raw, mem, mode, dirty, published, left, trustworthy>>
      BY <2>1 DEF rollUnchanged, plan
    <2>4. UNCHANGED vault \/ vault' = [vault EXCEPT ![m.path] = m.before]
      BY <1>2 DEF RollCheck, RollWrite, RollVerify
    <2>5. \A p \in Path : p # m.path => vault'[p] = vault[p]
      BY <1>j, <2>4
    <2>t. Touches(mem.mutations, m.path)
      BY <2>2 DEF Touches
    <2> USE DEF Safe
    <2>6. Held'
      BY <1>j, <2>1, <2>3 DEF Held, Linked, InStep, ForwardPc, RollbackPc, ConfirmPc
    <2>7. Known'
      BY <2>1, <2>3 DEF Known, Marked, RollbackPc
    <2>8. InHand'
      BY <1>j, <2>1, <2>3 DEF InHand, InStep, ForwardPc, RollbackPc, ConfirmPc
    <2>9. Originals'
      <3>1. \A p \in Path : vault'[p] # vault[p] => Touches(journal.mutations, p)
        BY <1>d, <2>5, <2>t
      <3> QED BY <1>j, <2>3, <3>1, OriginalsUndo
    <2>10. Undoing'
      <3> SUFFICES ASSUME ~published, ~rollbackError', NEW i \in DOMAIN mem.mutations,
                          Clean(mem.mutations[i].path)
                   PROVE  LET low == IF pc' = "rollVerify" THEN cursor' ELSE cursor' + 1 IN
                          /\ i >= low
                          /\ \A k \in DOMAIN mem.mutations :
                               k >= low /\ k < i => mem.mutations[k].path # mem.mutations[i].path
                          => vault'[mem.mutations[i].path] = mem.mutations[i].before
        BY <2>1, <2>3 DEF Undoing, Clean, RollbackPc
      <3>i. i \in Nat /\ cursor \in Nat /\ mem.mutations[i] \in Mutation
            /\ mem.mutations[i].path \in Path
        <4>1. i \in 1 .. Len(mem.mutations) /\ cursor \in Nat
          BY <1>j
        <4>2. mem.mutations[i] \in Mutation
          BY <1>j, <4>1, ElementOfSeq
        <4> QED BY <4>1, <4>2 DEF Mutation
      <3>o. ~rollbackError =>
              LET low == IF pc = "rollVerify" THEN cursor ELSE cursor + 1 IN
              /\ i >= low
              /\ \A k \in DOMAIN mem.mutations :
                   k >= low /\ k < i => mem.mutations[k].path # mem.mutations[i].path
              => vault[mem.mutations[i].path] = mem.mutations[i].before
        BY <2>1 DEF Undoing
      <3>1. CASE RollCheck
        <4>0. ~rollbackError /\ pc = "rollCheck" /\ UNCHANGED vault
          BY <3>1 DEF RollCheck, TypeInv, TypeOK, PlaceTyped
        <4>1. \/ vault[m.path] = m.before /\ cursor' = cursor - 1 /\ pc' = "rollCheck"
              \/ pc' = "rollWrite" /\ cursor' = cursor
          BY <3>1 DEF RollCheck
        <4>2. CASE cursor' = cursor /\ pc' = "rollWrite"
          BY <3>o, <4>0, <4>2
        <4>3. CASE vault[m.path] = m.before /\ cursor' = cursor - 1 /\ pc' = "rollCheck"
          <5>1. CASE i = cursor
            BY <4>0, <4>3, <5>1
          <5>2. CASE i # cursor
            BY <1>j, <2>2, <3>i, <3>o, <4>0, <4>3, <5>2
          <5> QED BY <5>1, <5>2
        <4> QED BY <4>1, <4>2, <4>3
      <3>2. CASE RollWrite
        <4>1. /\ ~rollbackError /\ pc = "rollWrite" /\ pc' = "rollVerify" /\ cursor' = cursor
              /\ vault' = [vault EXCEPT ![m.path] = m.before]
          BY <3>2 DEF RollWrite
        <4>2. vault'[m.path] = m.before
          BY <1>j, <2>2, <4>1
        <4>3. CASE i = cursor
          BY <4>2, <4>3
        <4>4. CASE i # cursor
          BY <1>j, <2>2, <2>5, <3>i, <3>o, <4>1, <4>4
        <4> QED BY <4>3, <4>4
      <3>3. CASE RollVerify
        <4>1. /\ ~rollbackError /\ pc = "rollVerify" /\ pc' = "rollCheck"
              /\ cursor' = cursor - 1 /\ UNCHANGED vault
          BY <3>3 DEF RollVerify
        <4> QED BY <3>i, <3>o, <4>1
      <3> QED BY <1>2, <3>1, <3>2, <3>3
    <2> QED BY <2>6, <2>7, <2>8, <2>9, <2>10
  <1>3. CASE RollDone
    <2>1. UNCHANGED <<vault, journal, dirty, published>>
      BY <1>3 DEF RollDone, env
    <2>2. CASE Retained
      BY <1>3, <2>1, <2>2, RestSafe DEF RollDone, SameSteps
    <2>3. CASE ~Retained
      <3>1. /\ pc = "rollCheck" /\ cursor = 0 /\ pc' = "unjournal" /\ ~rollbackError
            /\ UNCHANGED <<mode, mem, raw, left, trustworthy>>
        BY <1>3, <2>3 DEF RollDone, Retained, plan
      <3>2. mem.prepared = None
        BY <1>j, <2>3 DEF Retained
      <3> USE DEF Safe
      <3>3. Held'
        BY <1>j, <2>1, <3>1 DEF Held, InStep, ForwardPc, ConfirmPc
      <3>4. Known'
        BY <2>1, <3>1 DEF Known, Marked
      <3>5. InHand'
        BY <1>j, <2>1, <3>1, <3>2 DEF InHand, InStep, ForwardPc, ConfirmPc
      <3>6. Originals'
        BY <2>1, OriginalsSame DEF SameSteps
      <3>7. ASSUME ~published, journal = raw, NEW p \in Path, Clean(p)
            PROVE  vault[p] = Initial[p]
        <4>0. journal.mutations = mem.mutations /\ journal.prepared = None
          BY <1>j, <3>2, <3>7
        <4>1. CASE Touches(mem.mutations, p)
          <5>1. PICK i \in DOMAIN mem.mutations :
                  mem.mutations[i].path = p /\ First(mem.mutations, i)
            BY <1>j, <4>1, FirstExists
          <5>2. i >= 1 /\ i \in Nat
            BY <1>j
          <5>3. vault[p] = mem.mutations[i].before
            BY <3>1, <3>7, <5>1, <5>2 DEF Undoing, First, RollbackPc
          <5>4. mem.mutations[i].before = Initial[p]
            BY <1>j, <3>7, <4>0, <5>1 DEF Originals
          <5> QED BY <5>3, <5>4
        <4>2. CASE ~Touches(mem.mutations, p)
          BY <1>j, <3>7, <4>0, <4>2 DEF Originals
        <4> QED BY <4>1, <4>2
      <3>8. Undoing'
        BY <2>1, <3>1, <3>7 DEF Undoing, RollbackPc, Clean
      <3> QED BY <3>3, <3>4, <3>5, <3>6, <3>8
    <2> QED BY <2>2, <2>3
  <1>4. CASE Unjournal
    <2>1. /\ pc = "unjournal" /\ Rest /\ UNCHANGED <<vault, dirty, published>>
          /\ \/ journal' = journal
             \/ journal = raw /\ journal' = None
      BY <1>4 DEF Unjournal, env
    <2>2. CASE journal' = journal
      BY <2>1, <2>2, RestSafe DEF SameSteps
    <2>3. CASE journal = raw /\ journal' = None
      <3> USE DEF Safe
      <3>1. Held'
        BY <2>1, <2>3, BoundsAssumption DEF Held, Rest, InStep, ConfirmPc
      <3>2. Known'
        BY <2>1, <2>3 DEF Known, Rest, Marked
      <3>3. InHand'
        BY <2>1 DEF InHand, Rest, NoJournal, InStep, ConfirmPc, ForwardPc
      <3>4. Originals'
        BY <2>1, <2>3 DEF Originals, Undoing, Clean
      <3>5. Undoing'
        BY <2>1 DEF Undoing, Rest, RollbackPc
      <3> QED BY <3>1, <3>2, <3>3, <3>4, <3>5
    <2> QED BY <2>1, <2>2, <2>3
  <1> QED BY <1>1, <1>2, <1>3, <1>4 DEF Undo

(* The publication: the journals it writes have the steps of the manifest. *)
LEMMA SafePublication == TypeInv /\ OnDisk /\ Safe /\ Publication => Safe'
  <1> SUFFICES ASSUME TypeInv, OnDisk, Safe, Publication PROVE Safe'
    OBVIOUS
  <1>0. pc \in PublishPc \cup {"stage"}
    BY DEF Publication, Commit, Verify, Publish, Snapshot, Recheck, Compare, Save, ReadBack, Seal, Receipt,
       Cleanup, PublishPc
  <1>j. /\ mem \in Journal /\ journal \in Journal /\ journal # None /\ raw # None
        /\ raw.mutations = mem.mutations /\ raw.prepared = mem.prepared
        /\ pc # "idle" /\ pc \notin InStep /\ None \notin Journal /\ left <= Remaining
        /\ (mode = "recover" => journal = raw)
    BY <1>0, TokensAssumption DEF Safe, Held, OnDisk, PublishPc, InStep, ConfirmPc,
       TypeInv, TypeOK, JournalsTyped
  <1>p. (PublishPc \cup {"fail"}) \cap
          (InStep \cup RollbackPc \cup ForwardPc \cup {"idle", "prepare", "unjournal"}) = {}
    BY DEF PublishPc, InStep, ConfirmPc, RollbackPc, ForwardPc
  (* A journal with the steps of the memory is tried on the disk. *)
  <1>s. ASSUME NEW j \in Journal, j.mutations = mem.mutations, j.prepared = mem.prepared,
               j.status # "prepared", j.status = "published" => published',
               journal' # journal => journal = raw /\ journal' = j
        PROVE  SameSteps
    BY <1>j, <1>s DEF SameSteps
  (* The run goes on, with nothing written. *)
  <1>q. ASSUME UNCHANGED <<vault, dirty, mode, journal, raw, mem, left, trustworthy>>,
               published' = published \/ published' = TRUE,
               pc' \in PublishPc \cup {"fail"},
               pc' \in Marked => published',
               pc' \in {"verify", "publish"} => journal = raw
        PROVE  Safe'
    <2>1. SameMemory /\ SameSteps
      BY <1>j, <1>q DEF SameMemory, SameSteps
    <2>2. pc' \notin InStep \cup RollbackPc \cup ForwardPc \cup {"idle", "prepare", "unjournal"}
      BY <1>p, <1>q
    <2>3. pc' # "activate"
      BY <2>2 DEF ForwardPc
    <2> QED BY <1>j, <1>q, <2>1, <2>2, <2>3, PlainSafe
  <1>1. CASE Commit
    <2> DEFINE j == [mem EXCEPT !.status = "committed", !.complete = trustworthy]
    <2>1. j.mutations = mem.mutations /\ j.prepared = mem.prepared /\ j.status = "committed"
      BY <1>j, StatusFields
    <2>2. j \in Journal
      BY <1>j, IncompleteTyped DEF Status, TypeInv, TypeOK, PlaceTyped
    <2>3. /\ mem' = j /\ (Written(j) \/ WriteThrows(j)) /\ pc' \in {"verify", "fail"}
          /\ UNCHANGED <<vault, dirty, mode, published, left, trustworthy>>
          /\ pc = "stage" /\ (pc' = "verify" => Written(j))
      BY <1>1 DEF Commit, env, plan
    <2>4. mode = "run"
      BY <2>3 DEF Safe, Held, ForwardPc
    <2> HIDE DEF j
    <2>5. SameSteps
      BY <1>s, <2>1, <2>2, <2>3, WriteOutcome
    <2>6. SameMemory
      <3>1. raw' \in {raw, j}
        BY <2>3, WriteOutcome
      <3> QED BY <1>j, <2>1, <2>2, <2>3, <3>1 DEF SameMemory
    <2>7. pc' = "verify" => journal' = raw'
      BY <2>3, WriteOutcome
    <2>8. pc' \notin InStep \cup RollbackPc \cup ForwardPc \cup Marked
                        \cup {"idle", "prepare", "unjournal"}
      BY <2>3 DEF InStep, ConfirmPc, RollbackPc, ForwardPc, Marked
    <2> QED BY <1>j, <2>3, <2>4, <2>5, <2>6, <2>7, <2>8, PlainSafe
  <1>2. CASE Verify
    <2>1. /\ UNCHANGED <<vault, dirty, mode, journal, raw, mem, left, trustworthy, published>>
          /\ pc' \in {"publish", "fail"} /\ pc = "verify"
      BY <1>2 DEF Verify, durable, env, plan
    <2>2. journal = raw
      BY <2>1 DEF Safe, Held
    <2> QED BY <1>q, <2>1, <2>2 DEF PublishPc, Marked
  <1>3. CASE Publish
    <2> DEFINE j == [mem EXCEPT !.status = "publishing"]
    <2>0. UNCHANGED <<vault, dirty, published>> /\ journal = raw
      BY <1>3 DEF Publish, env, Safe, Held
    <2>1. j.mutations = mem.mutations /\ j.prepared = mem.prepared /\ j.status = "publishing"
      BY <1>j, StatusFields
    <2>2. j \in Journal
      BY <1>j, StatusTyped DEF Status
    <2>3. journal' \in {journal, j}
      BY <1>3 DEF Publish, Written
    <2>4. ~Rest => Written(j) /\ mem' = j /\ pc' = "snapshot"
                   /\ UNCHANGED <<mode, left, trustworthy>>
      BY <1>3 DEF Publish, quiet, plan
    <2> HIDE DEF j
    <2>5. SameSteps
      BY <1>s, <2>0, <2>1, <2>2, <2>3
    <2>6. CASE Rest
      BY <2>0, <2>5, <2>6, RestSafe
    <2>7. CASE ~Rest
      <3>1. raw' = j /\ journal' = j
        BY <2>4, <2>7, WriteOutcome
      <3>2. SameMemory
        BY <1>j, <2>1, <2>2, <2>4, <2>7, <3>1 DEF SameMemory
      <3>3. pc' \notin InStep \cup RollbackPc \cup ForwardPc \cup Marked
                        \cup {"idle", "prepare", "unjournal"}
        BY <2>4, <2>7 DEF InStep, ConfirmPc, RollbackPc, ForwardPc, Marked
      <3> QED BY <1>j, <2>0, <2>4, <2>5, <2>7, <3>1, <3>2, <3>3, PlainSafe
    <2> QED BY <2>6, <2>7
  <1>4. CASE Snapshot \/ Recheck
    <2>1. /\ UNCHANGED <<vault, journal, dirty, published>>
          /\ ~Rest => /\ UNCHANGED <<mode, raw, mem, left, trustworthy>>
                      /\ pc' \in {"recheck", "compare"}
      BY <1>4 DEF Snapshot, Recheck, durable, env, quiet, plan
    <2>2. CASE Rest
      BY <2>1, <2>2, RestSafe DEF SameSteps
    <2>3. CASE ~Rest
      BY <1>q, <2>1, <2>3 DEF PublishPc, Marked
    <2> QED BY <2>2, <2>3
  <1>5. CASE Compare \/ Save \/ ReadBack
    <2>0. published \in BOOLEAN /\ (pc = "readBack" => published)
      BY DEF TypeInv, TypeOK, PlaceTyped, Safe, Known, Marked
    <2>1. /\ UNCHANGED <<vault, journal, dirty>> /\ (published' = published \/ published' = TRUE)
          /\ ~Rest => /\ UNCHANGED <<mode, raw, mem, left, trustworthy>>
                      /\ pc' = "save" \/ (pc' \in {"readBack", "seal"} /\ published')
      BY <1>5, <2>0 DEF Compare, Save, ReadBack, durable, env, quiet, plan
    <2>2. CASE Rest
      BY <2>1, <2>2, RestSafe DEF SameSteps
    <2>3. CASE ~Rest
      BY <1>q, <2>1, <2>3 DEF PublishPc, Marked
    <2> QED BY <2>2, <2>3
  <1>6. CASE Seal
    <2> DEFINE j == [mem EXCEPT !.status = "published"]
    <2>0. UNCHANGED <<vault, dirty, published>> /\ published
      BY <1>6 DEF Seal, env, Safe, Known, Marked
    <2>1. j.mutations = mem.mutations /\ j.prepared = mem.prepared /\ j.status = "published"
      BY <1>j, StatusFields
    <2>2. j \in Journal
      BY <1>j, StatusTyped DEF Status
    <2>3. journal' # journal => journal = mem /\ journal' = j
      BY <1>6 DEF Seal, Precondition, Written
    <2>4. ~Rest => Written(j) /\ mem' = j /\ pc' = "receipt"
                   /\ UNCHANGED <<mode, left, trustworthy>>
      BY <1>6 DEF Seal, quiet, plan
    <2> HIDE DEF j
    <2>5. SameSteps
      BY <1>j, <2>0, <2>1, <2>2, <2>3 DEF SameSteps
    <2>6. CASE Rest
      BY <2>0, <2>5, <2>6, RestSafe
    <2>7. CASE ~Rest
      <3>1. raw' = j /\ journal' = j
        BY <2>4, <2>7, WriteOutcome
      <3>2. SameMemory
        BY <1>j, <2>1, <2>2, <2>4, <2>7, <3>1 DEF SameMemory
      <3>3. pc' \notin InStep \cup RollbackPc \cup ForwardPc \cup {"idle", "prepare", "unjournal"}
        BY <2>4, <2>7 DEF InStep, ConfirmPc, RollbackPc, ForwardPc
      <3> QED BY <1>j, <2>0, <2>4, <2>5, <2>7, <3>1, <3>2, <3>3, PlainSafe
    <2> QED BY <2>6, <2>7
  <1>7. CASE Receipt
    <2>1. /\ UNCHANGED <<vault, journal, dirty, published>> /\ published
          /\ ~Rest => UNCHANGED <<mode, raw, mem, left, trustworthy>> /\ pc' = "cleanup"
      BY <1>7 DEF Receipt, durable, env, quiet, plan, Safe, Known, Marked
    <2>2. CASE Rest
      BY <2>1, <2>2, RestSafe DEF SameSteps
    <2>3. CASE ~Rest
      BY <1>q, <2>1, <2>3 DEF PublishPc
    <2> QED BY <2>2, <2>3
  <1>8. CASE Cleanup
    <2>1. /\ Rest /\ journal' \in {journal, None} /\ UNCHANGED <<vault, dirty, published>>
          /\ published
      BY <1>8 DEF Cleanup, env, Safe, Known, Marked
    <2>2. CASE journal' = journal
      BY <2>1, <2>2, RestSafe DEF SameSteps
    <2>3. CASE journal' = None
      <3> USE DEF Safe
      <3>1. Held'
        BY <2>1, <2>3, BoundsAssumption DEF Held, Rest, InStep, ConfirmPc
      <3>2. Known'
        BY <2>1, <2>3 DEF Known, Rest, Marked
      <3>3. InHand'
        BY <2>1 DEF InHand, Rest, NoJournal, InStep, ConfirmPc, ForwardPc
      <3>4. Originals' /\ Undoing'
        BY <2>1 DEF Originals, Undoing
      <3> QED BY <3>1, <3>2, <3>3, <3>4
    <2> QED BY <2>1, <2>2, <2>3
  <1> QED BY <1>1, <1>2, <1>3, <1>4, <1>5, <1>6, <1>7, <1>8 DEF Publication

(* A run that begins, afresh or from a journal.                            *)
LEMMA SafeStart == TypeInv /\ Safe /\ (Begin \/ Recover) => Safe'
  <1> SUFFICES ASSUME TypeInv, Safe, Begin \/ Recover PROVE Safe'
    OBVIOUS
  <1>t. None \notin Journal /\ metadata \in Hash \cup {Gone} /\ Remaining \in Nat
    BY TokensAssumption, BoundsAssumption DEF TypeInv, TypeOK, FilesTyped
  <1>1. CASE Begin
    <2> DEFINE j == [NoJournal EXCEPT !.base = metadata]
    <2>1. /\ pc = "idle" /\ journal = None /\ UNCHANGED <<vault, dirty, published>>
          /\ journal' \in {None, j}
          /\ ~Rest => /\ pc' = "activate" /\ journal' = j /\ raw' = j /\ mem' = j
                      /\ left' = Remaining /\ mode' = mode
      BY <1>1 DEF Begin, env
    <2>2. j.mutations = <<>> /\ j.prepared = None /\ j.status = "prepared"
      BY DEF NoJournal
    <2>3. j \in Journal
      BY <1>t, NoJournalTyped DEF Journal
    <2> HIDE DEF j
    <2>4. Linked(j) /\ j # None
      BY <1>t, <2>2, <2>3 DEF Linked, Links
    <2>5. Originals'
      <3>1. ~published => \A p \in Path : Clean(p) => vault[p] = Initial[p]
        BY <2>1 DEF Safe, Originals
      <3>2. journal' # None => journal'.prepared = None /\ DOMAIN journal'.mutations = {}
        BY <2>1, <2>2
      <3> QED BY <2>1, <3>1, <3>2 DEF Originals, Clean
    <2> USE DEF Safe
    <2>6. CASE Rest
      <3>1. Held'
        BY <1>t, <2>1, <2>2, <2>4, <2>6 DEF Held, Rest, InStep, ConfirmPc
      <3>2. Known'
        BY <2>1, <2>2, <2>6 DEF Known, Rest, Marked
      <3>3. InHand'
        BY <2>6 DEF InHand, Rest, NoJournal, InStep, ConfirmPc, ForwardPc
      <3>4. Undoing'
        BY <2>6 DEF Undoing, Rest, RollbackPc
      <3> QED BY <2>5, <3>1, <3>2, <3>3, <3>4
    <2>7. CASE ~Rest
      <3>1. Held'
        BY <1>t, <2>1, <2>2, <2>4, <2>7 DEF Held
      <3>2. Known'
        BY <2>1, <2>2, <2>7 DEF Known, Marked
      <3>3. InHand'
        BY <2>1, <2>2, <2>7 DEF InHand, InStep, ConfirmPc
      <3>4. Undoing'
        BY <2>1, <2>7 DEF Undoing, RollbackPc
      <3> QED BY <2>5, <3>1, <3>2, <3>3, <3>4
    <2> QED BY <2>6, <2>7
  <1>2. CASE Recover
    <2>1. /\ pc = "idle" /\ journal # None /\ journal \in Journal
          /\ journal.status # "publishing"
          /\ mode' = "recover" /\ mem' = journal /\ raw' = journal
          /\ UNCHANGED <<vault, journal, dirty, published, left, trustworthy>>
          /\ (journal.status = "published" => published)
      BY <1>2 DEF Recover, durable, plan, env, TypeInv, TypeOK, JournalsTyped, Safe, Known
    <2>2. journal.status \in Status
      BY <2>1 DEF Journal
    <2>s. SameSteps
      BY <2>1 DEF SameSteps
    <2>3. CASE journal.status \in {"active", "rollback"}
      <3>1. pc' = "rollCheck" /\ cursor' = Len(journal.mutations)
        BY <1>2, <2>3 DEF Recover
      <3> QED BY <2>1, <2>s, <3>1, TurnSafe
    <2>4. CASE journal.status \in {"prepared", "committed", "published"}
      <3>1. /\ journal.status = "prepared" => pc' = "unjournal"
            /\ journal.status = "committed" => pc' = "verify"
            /\ journal.status = "published" => pc' = "cleanup"
        BY <1>2, <2>4 DEF Recover
      <3>0. pc' \in {"unjournal", "verify", "cleanup"}
        BY <2>4, <3>1
      <3> USE DEF Safe
      <3>2. Held'
        BY <2>1, <3>0 DEF Held, ForwardPc, ConfirmPc
      <3>3. Known'
        BY <2>1, <2>4, <3>1 DEF Known, Marked
      <3>4. InHand'
        BY <2>1, <3>0 DEF InHand, InStep, ForwardPc, ConfirmPc
      <3>5. Originals'
        BY <2>1, <2>s, OriginalsSame
      <3>6. pc' = "unjournal" /\ ~published =>
              \A p \in Path : Clean(p) => vault[p] = Initial[p]
        <4> SUFFICES ASSUME pc' = "unjournal", ~published, NEW p \in Path, Clean(p)
                     PROVE  vault[p] = Initial[p]
          OBVIOUS
        <4>1. journal.mutations = <<>> /\ journal.prepared = None
          BY <2>1, <2>4, <3>1 DEF Held
        <4>2. ~Touches(journal.mutations, p)
          BY <4>1 DEF Touches
        <4> QED BY <2>1, <4>1, <4>2 DEF Originals
      <3>7. Undoing'
        BY <2>1, <3>0, <3>6 DEF Undoing, RollbackPc, Clean
      <3> QED BY <3>2, <3>3, <3>4, <3>5, <3>7
    <2> QED BY <2>1, <2>2, <2>3, <2>4 DEF Status
  <1> QED BY <1>1, <1>2

(* Edits, the abort and a crash.                                           *)
LEMMA SafeEnvironment == TypeInv /\ Safe /\ Environment => Safe'
  <1> SUFFICES ASSUME TypeInv, Safe, Environment PROVE Safe'
    OBVIOUS
  <1>1. ASSUME NEW p \in Path, EditFile(p) PROVE Safe'
    <2>1. /\ UNCHANGED <<journal, mem, raw, pc, mode, stage, left, change, trustworthy,
                         failing, cursor, rollbackError, published>>
          /\ dirty' = dirty \cup {p}
      BY <1>1 DEF EditFile, memory, plan, rollback
    <2>2. \A q \in Path : q # p => vault'[q] = vault[q]
      BY <1>1 DEF EditFile, TypeInv, TypeOK, FilesTyped
    <2>3. \A q : Clean(q)' => Clean(q) /\ q \in Path /\ vault'[q] = vault[q]
      BY <2>1, <2>2 DEF Clean
    <2> USE DEF Safe
    <2>4. Held'
      BY <2>1 DEF Held
    <2>5. Known'
      BY <2>1 DEF Known
    <2>6. InHand'
      BY <2>1, <2>3 DEF InHand, Ended
    <2>7. Originals'
      BY <2>1, <2>3 DEF Originals
    <2>8. Undoing'
      <3> SUFFICES ASSUME ~published PROVE Undoing'
        BY <2>1 DEF Undoing
      <3>1. pc = "unjournal" /\ journal = raw => \A q \in Path : Clean(q)' => vault'[q] = Initial[q]
        BY <2>3 DEF Undoing
      <3>2. ASSUME pc \in RollbackPc, ~rollbackError, NEW i \in DOMAIN mem.mutations
            PROVE  LET low == IF pc = "rollVerify" THEN cursor ELSE cursor + 1 IN
                   /\ i >= low /\ Clean(mem.mutations[i].path)
                   /\ \A k \in DOMAIN mem.mutations :
                        k >= low /\ k < i => mem.mutations[k].path # mem.mutations[i].path
                   => vault[mem.mutations[i].path] = mem.mutations[i].before
        BY <3>2 DEF Undoing
      <3> QED BY <2>1, <2>3, <3>1, <3>2 DEF Undoing
    <2> QED BY <2>4, <2>5, <2>6, <2>7, <2>8
  <1>2. CASE EditMetadata \/ Abort
    <2>1. UNCHANGED <<vault, journal, mem, raw, pc, mode, stage, left, change, trustworthy,
                      failing, cursor, rollbackError, dirty, published>>
      BY <1>2 DEF EditMetadata, Abort, memory, plan, rollback, durable, env
    <2> QED BY <2>1 DEF Safe, Held, Known, InHand, Ended, Originals, Undoing, Clean
  <1>3. CASE Crash
    BY <1>3, RestSafe DEF Crash, durable, SameSteps
  <1> QED BY <1>1, <1>2, <1>3 DEF Environment

(* A stuttering step.                                                      *)
LEMMA SafeStutter == Safe /\ UNCHANGED vars => Safe'
  <1> SUFFICES ASSUME Safe, UNCHANGED vars PROVE Safe'
    OBVIOUS
  <1>1. UNCHANGED <<vault, journal, mem, raw, pc, mode, stage, left, change, trustworthy,
                    failing, cursor, rollbackError, dirty, published>>
    BY DEF vars, plan, rollback, durable, env
  <1> QED BY <1>1 DEF Safe, Held, Known, InHand, Ended, Originals, Undoing, Clean

(* Safe holds always.                                                      *)
LEMMA SafeInvariant == ASSUME Tolerant PROVE Spec => []Safe
  <1>1. TypeInv /\ OnDisk /\ Safe /\ [Next]_vars => Safe'
    BY SafeForward, SafeProtocol, SafeUndo, SafePublication, SafeStart, SafeEnvironment,
       SafeStutter DEF Next, Program, Running
  <1> QED BY <1>1, SafeInit, TypeInvariant, OnDiskInvariant, PTL DEF Spec

(* The image recovery finds at a clean path is the original one.           *)
LEMMA SafeRecoverable == TypeInv /\ Safe => OriginalsRecoverable
  <1> SUFFICES ASSUME TypeInv, Safe, ~published, NEW p \in Path \ dirty
               PROVE  Undone(p) = Initial[p]
    BY DEF OriginalsRecoverable
  <1>1. CASE journal = None
    BY <1>1 DEF Undone, Safe, Originals, Clean
  <1>2. CASE journal # None /\ Touches(journal.mutations, p)
    <2>1. journal.mutations \in Seq(Mutation)
      BY <1>2 DEF TypeInv, TypeOK, JournalsTyped, Journal
    <2> DEFINE i == FirstOn(journal.mutations, p)
    <2>2. i \in DOMAIN journal.mutations /\ journal.mutations[i].path = p
          /\ First(journal.mutations, i)
      BY <1>2, <2>1, FirstOnFirst
    <2>3. Undone(p) = journal.mutations[i].before
      BY <1>2 DEF Undone
    <2> HIDE DEF i
    <2> QED BY <1>2, <2>2, <2>3 DEF Safe, Originals, Clean
  <1>3. CASE journal # None /\ ~Touches(journal.mutations, p)
    BY <1>3 DEF Undone, Safe, Originals, Clean
  <1> QED BY <1>1, <1>2, <1>3

(* When no adapter call fails, or at most one remaining source is          *)
(* re-ingested, then for every set of files, every plan and any number of  *)
(* edits, crashes and failing calls, the original image of a file nobody   *)
(* else touched stays within reach of recovery (delete.ts, the journal and *)
(* its rollback) until the metadata forgets the source.  With two sources  *)
(* and one failing call it need not: the prepare hook of the second drops  *)
(* the undecided step of the first.                                        *)
THEOREM OriginalsKept == Tolerant => (Spec => []OriginalsRecoverable)
  <1>1. SUFFICES ASSUME Tolerant PROVE Spec => []OriginalsRecoverable
    OBVIOUS
  <1>2. Spec => []Safe
    BY <1>1, SafeInvariant
  <1> QED BY <1>2, TypeInvariant, SafeRecoverable, PTL
-----------------------------------------------------------------------------
(* The publication.  From the first check of the precondition on the       *)
(* journal on disk says "publishing", the snapshot is one the deletion     *)
(* applies to, and once the manifest was checked Source is gone.           *)
Publishing ==
  /\ pc \in {"snapshot", "recheck"} => mem.status = "publishing" /\ ValidJournal(mem)
  /\ pc \in {"recheck", "compare", "save", "readBack", "seal"} =>
       journal # None /\ journal.status = "publishing"
  /\ pc \in {"receipt", "cleanup"} => journal # None /\ journal.status = "published"
  /\ pc \in {"recheck", "compare", "save"} => snapshot \in {mem.base, Gone}
  /\ pc \in {"compare", "save"} => Source \in dirty \/ vault[Source] = Absent

(* After the metadata write a run can only seal what it did: every journal *)
(* a later run may find says so.                                           *)
Final == published =>
  /\ pc \in {"idle", "readBack", "seal", "receipt", "cleanup"}
  /\ journal = None \/ journal.status \in {"publishing", "published"}
  /\ Source \in dirty \/ vault[Source] = Absent

Settled == Publishing /\ Final
LatePc == {"snapshot", "recheck", "compare", "save", "readBack", "seal", "receipt",
           "cleanup"}

(* Nothing is published yet, and the step does not go on publishing.       *)
LEMMA NotYetSettled ==
  ASSUME ~published, published' = published, pc' \notin LatePc
  PROVE  Settled'
  BY DEF Settled, Publishing, Final, LatePc

(* A run that ends with the journal and the files as they are.             *)
LEMMA RestSettled ==
  ASSUME Settled, pc' = "idle", UNCHANGED <<vault, journal, dirty, published>>
  PROVE  Settled'
  BY DEF Settled, Publishing, Final

(* At first nothing is published.                                          *)
LEMMA SettledInit == Init => Settled
  BY DEF Init, Settled, Publishing, Final

(* What comes before the publication.                                      *)
LEMMA SettledEarly ==
  Settled /\ (Begin \/ Forward \/ Protocol \/ Undo \/ Commit \/ Verify) => Settled'
  <1> SUFFICES ASSUME Settled, Begin \/ Forward \/ Protocol \/ Undo \/ Commit \/ Verify
               PROVE  Settled'
    OBVIOUS
  <1>1. CASE Begin
    BY <1>1, NotYetSettled DEF Begin, Rest, env, LatePc
  <1>2. CASE Forward
    <2>1. pc \in {"activate", "stage", "reindex"} /\ published' = published
      BY <1>2 DEF Forward, Activate, RemovePage, Reindex, RebuildWrite, RebuildSource,
         Rewrite, RemoveSource, Stop, NextStage, stageUnchanged, env
    <2>2. pc' \in {"idle", "stage", "reindex", "capture", "fail"}
      BY <1>2 DEF Forward, Activate, RemovePage, Reindex, RebuildWrite, RebuildSource,
         Rewrite, RemoveSource, Stop, NextStage, Attempt, AttemptPlanned, Rest
    <2> QED BY <2>1, <2>2, NotYetSettled DEF Settled, Final, LatePc
  <1>3. CASE Protocol
    <2>1. pc \in {"capture", "prepare", "postWal", "mutate", "confirm", "confirmError"}
          /\ published' = published
      BY <1>3 DEF Protocol, Capture, Prepare, PostWal, Mutate, ConfirmDone, ConfirmNoEffect,
         ConfirmUntrusted, captureUnchanged, ConfirmPc, env
    <2>2. pc' \notin LatePc
      BY <1>3 DEF Protocol, Capture, Prepare, PostWal, Mutate, ConfirmDone, ConfirmNoEffect,
         ConfirmUntrusted, Thrown, AfterCommit, LatePc
    <2> QED BY <2>1, <2>2, NotYetSettled DEF Settled, Final
  <1>4. CASE Undo
    <2>1. pc \in {"fail", "rollCheck", "rollWrite", "rollVerify", "unjournal"}
          /\ published' = published
      BY <1>4 DEF Undo, Fail, RollCheck, RollWrite, RollVerify, RollDone, Unjournal,
         rollUnchanged, env
    <2>2. pc' \notin LatePc
      BY <1>4 DEF Undo, Fail, RollCheck, RollWrite, RollVerify, RollDone, Unjournal,
         StartRollback, Rest, LatePc
    <2> QED BY <2>1, <2>2, NotYetSettled DEF Settled, Final
  <1>5. CASE Commit \/ Verify
    <2>1. pc \in {"stage", "verify"} /\ published' = published
          /\ pc' \in {"verify", "fail", "publish"}
      BY <1>5 DEF Commit, Verify, env
    <2> QED BY <2>1, NotYetSettled DEF Settled, Final, LatePc
  <1> QED BY <1>1, <1>2, <1>3, <1>4, <1>5

(* A run that finds a journal.                                             *)
LEMMA SettledRecover == TypeInv /\ Settled /\ Recover => Settled'
  <1> SUFFICES ASSUME TypeInv, Settled, Recover PROVE Settled'
    OBVIOUS
  <1>1. /\ journal # None /\ journal \in Journal /\ journal.status # "publishing"
        /\ UNCHANGED <<vault, journal, dirty, published>>
    BY DEF Recover, durable, env, TypeInv, TypeOK, JournalsTyped
  <1>2. journal.status \in Status
    BY <1>1 DEF Journal
  <1>3. /\ journal.status = "published" => pc' = "cleanup"
        /\ journal.status # "published" => pc' \in {"unjournal", "rollCheck", "verify"}
    BY <1>1, <1>2 DEF Recover, Status
  <1>4. CASE journal.status = "published"
    BY <1>1, <1>3, <1>4 DEF Settled, Publishing, Final
  <1>5. CASE journal.status # "published"
    <2>1. ~published
      BY <1>1, <1>5 DEF Settled, Final
    <2> QED BY <1>1, <1>3, <1>5, <2>1, NotYetSettled DEF LatePc
  <1> QED BY <1>4, <1>5

(* A committed manifest that holds says that Source is gone.               *)
LEMMA ManifestDeletes ==
  ASSUME TypeInv, NEW j \in Journal, ValidJournal(j), j.status \in CommittedStatus,
         ManifestHolds(j)
  PROVE  vault[Source] = Absent
  <1>1. Source \in Path
    BY PathsAssumption
  <1>2. Touches(j.mutations, Source) /\ j.mutations[LastOn(j.mutations, Source)].after = Absent
    BY DEF ValidJournal
  <1> QED BY <1>1, <1>2 DEF ManifestHolds

(* The publication, step by step.                                          *)
LEMMA SettledLate ==
  TypeInv /\ Settled /\ (Publish \/ Snapshot \/ Recheck \/ Compare \/ Save \/ ReadBack
                            \/ Seal \/ Receipt \/ Cleanup)
    => Settled'
  <1> SUFFICES ASSUME TypeInv, Settled,
                      Publish \/ Snapshot \/ Recheck \/ Compare \/ Save \/ ReadBack
                        \/ Seal \/ Receipt \/ Cleanup
               PROVE  Settled'
    OBVIOUS
  <1>j. mem \in Journal /\ None \notin Journal /\ journal \in Journal \cup {None}
    BY TokensAssumption DEF TypeInv, TypeOK, JournalsTyped
  <1>1. CASE Publish
    <2>1. ~published /\ published' = published
      BY <1>1 DEF Publish, Settled, Final, env
    <2>2. CASE Rest
      BY <2>1, <2>2, NotYetSettled DEF Rest, LatePc
    <2>3. CASE ~Rest
      <3> DEFINE j == [mem EXCEPT !.status = "publishing"]
      <3>1. Written(j) /\ mem' = j /\ pc' = "snapshot"
        BY <1>1, <2>3 DEF Publish
      <3>2. j.status = "publishing" /\ ValidJournal(j)
        BY <1>j, <3>1, StatusFields DEF Written
      <3> HIDE DEF j
      <3> QED BY <2>1, <3>1, <3>2 DEF Settled, Publishing, Final
    <2> QED BY <2>2, <2>3
  <1>2. CASE Snapshot
    <2>1. UNCHANGED <<vault, journal, dirty, published>> /\ pc = "snapshot"
      BY <1>2 DEF Snapshot, durable, env
    <2>2. CASE Rest
      BY <2>1, <2>2, RestSettled DEF Rest
    <2>3. CASE ~Rest
      <3>1. /\ Precondition /\ metadata \in {mem.base, Gone}
            /\ pc' = "recheck" /\ snapshot' = metadata /\ mem' = mem
        BY <1>2, <2>3 DEF Snapshot, DeltasApply
      <3>2. journal # None /\ journal.status = "publishing"
        BY <1>j, <3>1 DEF Precondition
      <3> QED BY <2>1, <3>1, <3>2 DEF Settled, Publishing, Final
    <2> QED BY <2>2, <2>3
  <1>3. CASE Recheck
    <2>1. UNCHANGED <<vault, journal, dirty, published>> /\ pc = "recheck"
      BY <1>3 DEF Recheck, durable, env
    <2>2. CASE Rest
      BY <2>1, <2>2, RestSettled DEF Rest
    <2>3. CASE ~Rest
      <3>1. Precondition /\ pc' = "compare" /\ mem' = mem /\ snapshot' = snapshot
        BY <1>3, <2>3 DEF Recheck
      <3>2. vault[Source] = Absent
        BY <1>j, <2>1, <3>1, ManifestDeletes
           DEF Precondition, Settled, Publishing, CommittedStatus
      <3> QED BY <2>1, <3>1, <3>2 DEF Settled, Publishing, Final
    <2> QED BY <2>2, <2>3
  <1>4. CASE Save
    <2>1. /\ pc = "save" /\ UNCHANGED <<vault, journal, dirty>>
          /\ published' \in {published, TRUE} /\ pc' \in {"readBack", "idle"}
          /\ (pc' = "readBack" => published')
      BY <1>4 DEF Save, Rest
    <2> QED BY <2>1 DEF Settled, Publishing, Final
  <1>5. CASE Seal
    <2> DEFINE j == [mem EXCEPT !.status = "published"]
    <2>1. UNCHANGED <<vault, dirty, published>> /\ pc = "seal"
      BY <1>5 DEF Seal, env
    <2>2. j.status = "published" /\ j \in Journal
      BY <1>j, StatusFields, StatusTyped DEF Status
    <2>3. /\ journal' \in {journal, j} /\ pc' \in {"idle", "receipt"}
          /\ (pc' = "receipt" => journal' = j)
      BY <1>5 DEF Seal, Written, Rest
    <2> HIDE DEF j
    <2> QED BY <1>j, <2>1, <2>2, <2>3 DEF Settled, Publishing, Final
  <1>6. CASE Receipt
    <2>1. /\ UNCHANGED <<vault, journal, dirty, published>> /\ pc = "receipt"
          /\ pc' \in {"idle", "cleanup"}
      BY <1>6 DEF Receipt, durable, env, Rest
    <2> QED BY <2>1 DEF Settled, Publishing, Final
  <1>7. CASE Cleanup
    <2>1. /\ UNCHANGED <<vault, dirty, published>> /\ pc = "cleanup"
          /\ pc' = "idle" /\ journal' \in {journal, None}
      BY <1>7 DEF Cleanup, env, Rest
    <2> QED BY <2>1 DEF Settled, Publishing, Final
  <1>8. CASE Compare
    <2>1. /\ pc = "compare" /\ UNCHANGED <<vault, journal, dirty>>
          /\ pc' \in {"seal", "save", "idle"}
      BY <1>8 DEF Compare, durable, Rest
    <2>2. ~published
      BY <2>1 DEF Settled, Final
    <2>3. CASE Rest
      BY <1>8, <2>1, <2>3, RestSettled DEF Compare, durable, Rest
    <2>4. CASE ~Rest
      <3>1. /\ UNCHANGED <<snapshot, mem>>
            /\ pc' = IF snapshot = Gone THEN "seal" ELSE "save"
            /\ published' = (published \/ snapshot = Gone)
        BY <1>8, <2>4 DEF Compare
      <3> QED BY <2>1, <2>2, <3>1 DEF Settled, Publishing, Final
    <2> QED BY <2>3, <2>4
  <1>9. CASE ReadBack
    <2>1. /\ UNCHANGED <<vault, journal, dirty, published>> /\ pc = "readBack"
          /\ pc' \in {"idle", "seal"}
      BY <1>9 DEF ReadBack, durable, env, Rest
    <2> QED BY <2>1 DEF Settled, Publishing, Final
  <1> QED BY <1>1, <1>2, <1>3, <1>4, <1>5, <1>6, <1>7, <1>8, <1>9

(* Edits, the abort and a crash.                                           *)
LEMMA SettledEnvironment == TypeInv /\ Settled /\ Environment => Settled'
  <1> SUFFICES ASSUME TypeInv, Settled, Environment PROVE Settled'
    OBVIOUS
  <1>1. ASSUME NEW p \in Path, EditFile(p) PROVE Settled'
    <2>1. /\ UNCHANGED <<journal, mem, pc, snapshot, published>>
          /\ dirty' = dirty \cup {p}
      BY <1>1 DEF EditFile, memory
    <2>2. Source # p => vault'[Source] = vault[Source]
      BY <1>1, PathsAssumption DEF EditFile, TypeInv, TypeOK, FilesTyped
    <2> QED BY <2>1, <2>2 DEF Settled, Publishing, Final
  <1>2. CASE EditMetadata \/ Abort
    <2>1. UNCHANGED <<vault, journal, mem, pc, snapshot, dirty, published>>
      BY <1>2 DEF EditMetadata, Abort, memory, durable, env
    <2> QED BY <2>1 DEF Settled, Publishing, Final
  <1>3. CASE Crash
    BY <1>3, RestSettled DEF Crash, durable, Rest
  <1> QED BY <1>1, <1>2, <1>3 DEF Environment

(* A stuttering step.                                                      *)
LEMMA SettledStutter == Settled /\ UNCHANGED vars => Settled'
  <1> SUFFICES ASSUME Settled, UNCHANGED vars PROVE Settled'
    OBVIOUS
  <1>1. UNCHANGED <<vault, journal, mem, pc, snapshot, dirty, published>>
    BY DEF vars, durable, env
  <1> QED BY <1>1 DEF Settled, Publishing, Final

(* Settled always holds.                                                   *)
LEMMA SettledInvariant == Spec => []Settled
  <1>1. TypeInv /\ Settled /\ [Next]_vars => Settled'
    BY SettledEarly, SettledRecover, SettledLate, SettledEnvironment, SettledStutter
       DEF Next, Program, Running, Publication
  <1> QED BY SettledInit, <1>1, TypeInvariant, PTL DEF Spec

(* Only the commit event and other writers change the metadata.            *)
LEMMA MetadataWritten == Next /\ metadata' # metadata => Save \/ EditMetadata
  <1> SUFFICES ASSUME Next, metadata' # metadata PROVE Save \/ EditMetadata
    OBVIOUS
  <1>1. ~Forward
    BY DEF Forward, Activate, RemovePage, Reindex, RebuildWrite, RebuildSource, Rewrite,
       RemoveSource, Stop, NextStage, stageUnchanged, durable
  <1>2. ~Protocol
    BY DEF Protocol, Capture, Prepare, PostWal, Mutate, ConfirmDone, ConfirmNoEffect,
       ConfirmUntrusted, captureUnchanged
  <1>3. ~Undo
    BY DEF Undo, Fail, RollCheck, RollWrite, RollVerify, RollDone, Unjournal, rollUnchanged
  <1>4. Publication => Save
    BY DEF Publication, Commit, Verify, Publish, Snapshot, Recheck, Compare, ReadBack,
       Seal, Receipt, Cleanup, durable
  <1>5. ~Begin /\ ~Recover /\ ~Abort /\ ~Crash
    BY DEF Begin, Recover, Abort, Crash, durable
  <1>6. \A p \in Path : ~EditFile(p)
    BY DEF EditFile
  <1> QED BY <1>1, <1>2, <1>3, <1>4, <1>5, <1>6 DEF Next, Program, Running, Environment

(* With the window between the comparison and the write closed, the write  *)
(* finds the metadata that was compared.                                   *)
Compared == ClosedWindows /\ pc = "save" => metadata = snapshot

(* Only the comparison leads to the metadata write.                        *)
LEMMA ToTheWrite ==
  ASSUME TypeInv, Next, pc' = "save"
  PROVE  \/ Compare
         \/ pc = "save" /\ UNCHANGED <<snapshot, vault>> /\ EditMetadata
         \/ pc = "save" /\ UNCHANGED <<snapshot, metadata>>
  <1>1. ~Forward
    BY DEF Forward, Activate, RemovePage, Reindex, RebuildWrite, RebuildSource, Rewrite,
       RemoveSource, Stop, NextStage, Attempt, AttemptPlanned, Rest
  <1>2. ~Protocol
    BY DEF Protocol, Capture, Prepare, PostWal, Mutate, ConfirmDone, ConfirmNoEffect,
       ConfirmUntrusted, Thrown, AfterCommit
  <1>3. ~Undo
    BY DEF Undo, Fail, RollCheck, RollWrite, RollVerify, RollDone, Unjournal,
       StartRollback, Rest
  <1>4. Publication => Compare
    BY DEF Publication, Commit, Verify, Publish, Snapshot, Recheck, Save, ReadBack, Seal,
       Receipt, Cleanup, Rest
  <1>5. ~Begin /\ ~Crash
    BY DEF Begin, Crash, Rest
  <1>6. ~Recover
    <2>1. SUFFICES ASSUME Recover PROVE FALSE
      OBVIOUS
    <2>2. journal.status \in Status \ {"publishing"}
      BY <2>1 DEF Recover, TypeInv, TypeOK, JournalsTyped, Journal
    <2> QED BY <2>1, <2>2 DEF Recover, Status
  <1>7. EditMetadata => pc = "save" /\ UNCHANGED <<snapshot, vault>>
    BY DEF EditMetadata, memory
  <1>8. Abort \/ (\E p \in Path : EditFile(p)) => pc = "save" /\ UNCHANGED <<snapshot, metadata>>
    BY DEF Abort, EditFile, memory, durable
  <1> QED BY <1>1, <1>2, <1>3, <1>4, <1>5, <1>6, <1>7, <1>8
       DEF Next, Program, Running, Environment

(* Compared always holds.                                                  *)
LEMMA ComparedInvariant == Spec => []Compared
  <1>1. Init => Compared
    BY DEF Init, Compared
  <1>2. TypeInv /\ Compared /\ [Next]_vars => Compared'
    <2> SUFFICES ASSUME TypeInv, Compared, [Next]_vars, ClosedWindows, pc' = "save"
                 PROVE  metadata' = snapshot'
      BY DEF Compared
    <2>1. CASE Compare
      BY <2>1 DEF Compare, durable, Rest
    <2>2. CASE pc = "save" /\ EditMetadata
      BY <2>2 DEF EditMetadata
    <2>3. CASE pc = "save" /\ UNCHANGED <<snapshot, metadata>>
      BY <2>3 DEF Compared
    <2>4. CASE UNCHANGED vars
      BY <2>4 DEF Compared, vars, durable
    <2> QED BY <2>1, <2>2, <2>3, <2>4, ToTheWrite
  <1> QED BY <1>1, <1>2, TypeInvariant, PTL DEF Spec

(* What delete-state-dispatch.ts strikes the source off from is what the   *)
(* deletion was planned on, whoever else writes the metadata until its     *)
(* last comparison and whatever fails: the snapshot the write was compared *)
(* with is the planned state, or one without the source already.  Between  *)
(* the comparing read and the write of writeExactMetadata                  *)
(* (domain-store.ts:384, :389) nobody else may write: that window is open  *)
(* in the program, and an edit that lands in it is overwritten.            *)
THEOREM MetadataKept == ClosedWindows => (Spec => MetadataEditsKept)
  <1>0. SUFFICES ASSUME ClosedWindows PROVE Spec => MetadataEditsKept
    OBVIOUS
  <1>1. ASSUME Settled, Compared, [Next]_vars, metadata # Gone, metadata' = Gone
        PROVE  metadata = mem.base
    <2>1. Next /\ metadata' # metadata
      BY <1>1 DEF vars, durable
    <2>2. ~EditMetadata
      BY <1>1, TokensAssumption DEF EditMetadata
    <2>3. pc = "save" /\ metadata = snapshot
      BY <1>0, <1>1, <2>1, <2>2, MetadataWritten DEF Save, Compared
    <2> QED BY <1>1, <2>3 DEF Settled, Publishing
  <1>2. Settled /\ Compared /\ [Next]_vars =>
          [metadata # Gone /\ metadata' = Gone => metadata = mem.base]_vars
    BY <1>1
  <1> QED BY <1>2, SettledInvariant, ComparedInvariant, PTL DEF MetadataEditsKept, Spec

(* Publication is final: after the metadata write no run, and no recovery  *)
(* from any journal a failure or a crash leaves, changes a file of the     *)
(* wiki or the metadata.                                                   *)
THEOREM PublicationIsFinal == Spec => PublishedIsFinal
  <1>1. ASSUME TypeInv, Settled, [Next]_vars, published, edits' = edits
        PROVE  UNCHANGED <<vault, metadata>>
    <2>1. pc \in {"idle", "readBack", "seal", "receipt", "cleanup"} /\ edits \in Nat
      BY <1>1 DEF Settled, Final, TypeInv, TypeOK, CountersTyped
    <2>2. ~Mutate /\ ~RollWrite /\ ~Save
      BY <2>1 DEF Mutate, RollWrite, Save
    <2>e. edits' # edits + 1
      BY <1>1, <2>1
    <2>3. ~EditMetadata /\ \A p \in Path : ~EditFile(p)
      BY <2>e DEF EditMetadata, EditFile
    <2>4. Next => vault' = vault
      BY <1>1, <2>2, <2>3, FilesWritten
    <2>5. Next => metadata' = metadata
      BY <2>2, <2>3, MetadataWritten
    <2> QED BY <1>1, <2>4, <2>5 DEF vars, durable
  <1>2. TypeInv /\ Settled /\ [Next]_vars =>
          [published /\ edits' = edits => UNCHANGED <<vault, metadata>>]_vars
    BY <1>1
  <1> QED BY <1>2, TypeInvariant, SettledInvariant, PTL DEF PublishedIsFinal, Spec

(* The metadata forgets the source only when its file is gone, or somebody *)
(* else wrote it meanwhile: the commit event checks the manifest again     *)
(* before it writes.                                                       *)
THEOREM ForgottenIsGone == Spec => []ForgottenIsDeleted
  <1>1. Settled => ForgottenIsDeleted
    BY DEF Settled, Final, ForgottenIsDeleted
  <1> QED BY <1>1, SettledInvariant, PTL
-----------------------------------------------------------------------------
(* The refinement.  Shown(d, s): the files as AtomicDelete sees them, with *)
(* d the files somebody else touched and s the rest.                       *)
Shown(d, s) == [p \in Path |-> IF p \in d THEN None ELSE s[p]]

Abstract == [p \in Path |-> IF p \in dirty THEN None
                            ELSE IF published THEN vault[p] ELSE Undone(p)]

(* Before the metadata write the originals show, after it the files.       *)
LEMMA AbstractShown ==
  ASSUME OriginalsRecoverable
  PROVE  Abstract = Shown(dirty, IF published THEN vault ELSE Initial)
  BY DEF Abstract, Shown, OriginalsRecoverable

(* A file somebody else writes is no longer shown.                         *)
LEMMA ShownTouched ==
  ASSUME NEW d, NEW s, NEW t, NEW p \in Path, \A q \in Path : q # p => t[q] = s[q]
  PROVE  Shown(d \cup {p}, t) = [Shown(d, s) EXCEPT ![p] = None]
  BY DEF Shown

(* Only an edit touches a file, and only the commit event publishes.       *)
LEMMA HistoryWritten ==
  TypeInv /\ Next =>
          \/ \E p \in Path : EditFile(p)
          \/ (Compare \/ Save) /\ UNCHANGED <<vault, dirty>>
               /\ published' \in {published, TRUE}
          \/ UNCHANGED <<dirty, published>> /\ (published => edits' = edits \/ EditMetadata)
  <1> SUFFICES ASSUME TypeInv, Next
               PROVE  \/ \E p \in Path : EditFile(p)
                      \/ (Compare \/ Save) /\ UNCHANGED <<vault, dirty>>
                           /\ published' \in {published, TRUE}
                      \/ UNCHANGED <<dirty, published>>
                           /\ (published => edits' = edits \/ EditMetadata)
    OBVIOUS
  <1>1. Forward => UNCHANGED <<dirty, published, edits>>
    BY DEF Forward, Activate, RemovePage, Reindex, RebuildWrite, RebuildSource, Rewrite,
       RemoveSource, Stop, NextStage, stageUnchanged, env
  <1>2. Protocol => UNCHANGED <<dirty, published, edits>>
    BY DEF Protocol, Capture, Prepare, PostWal, Mutate, ConfirmDone, ConfirmNoEffect,
       ConfirmUntrusted, captureUnchanged, env
  <1>3. Undo => UNCHANGED <<dirty, published, edits>>
    BY DEF Undo, Fail, RollCheck, RollWrite, RollVerify, RollDone, Unjournal, rollUnchanged,
       env
  <1>4. Publication => Compare \/ Save \/ UNCHANGED <<dirty, published, edits>>
    BY DEF Publication, Commit, Verify, Publish, Snapshot, Recheck, ReadBack, Seal,
       Receipt, Cleanup, env
  <1>p. published \in BOOLEAN
    BY DEF TypeInv, TypeOK, PlaceTyped
  <1>5. Compare \/ Save => UNCHANGED <<vault, dirty>> /\ published' \in {published, TRUE}
    BY <1>p DEF Compare, Save, durable
  <1>6. Begin \/ Recover \/ Abort \/ Crash => UNCHANGED <<dirty, published, edits>>
    BY DEF Begin, Recover, Abort, Crash, env
  <1>7. EditMetadata => UNCHANGED <<dirty, published>>
    BY DEF EditMetadata
  <1> QED BY <1>1, <1>2, <1>3, <1>4, <1>5, <1>6, <1>7
       DEF Next, Program, Running, Environment

(* Every step of the deletion is one of AtomicDelete, or none.             *)
LEMMA StepRefines ==
  ASSUME TypeInv, Settled, Settled', OriginalsRecoverable, OriginalsRecoverable', [Next]_vars
  PROVE  \/ \E p \in Path :
              /\ dirty' = dirty \cup {p}
              /\ Abstract' = [Abstract EXCEPT ![p] = None]
              /\ published' = published
         \/ /\ ~published /\ published' = TRUE
            /\ Abstract' \in [Path -> Image \cup {None}]
            /\ \A p \in Path : Abstract'[p] = None <=> p \in dirty
            /\ Source \notin dirty => Abstract'[Source] = Absent
            /\ dirty' = dirty
         \/ UNCHANGED <<Abstract, dirty, published>>
  <1>1. Abstract = Shown(dirty, IF published THEN vault ELSE Initial)
    BY AbstractShown
  <1>2. Abstract' = Shown(dirty', IF published' THEN vault' ELSE Initial)
    BY DEF Abstract, Shown, OriginalsRecoverable
  <1>t. vault \in [Path -> Image] /\ published \in BOOLEAN /\ None \notin Image
    BY TokensAssumption DEF TypeInv, TypeOK, FilesTyped, PlaceTyped
  <1>3. CASE \E p \in Path : EditFile(p)
    <2>1. PICK p \in Path : EditFile(p)
      BY <1>3
    <2>2. dirty' = dirty \cup {p} /\ published' = published
          /\ \A q \in Path : q # p => vault'[q] = vault[q]
      BY <1>t, <2>1 DEF EditFile
    <2> DEFINE s == IF published THEN vault ELSE Initial
               t == IF published THEN vault' ELSE Initial
    <2>3. \A q \in Path : q # p => t[q] = s[q]
      BY <2>2
    <2>4. Abstract = Shown(dirty, s) /\ Abstract' = Shown(dirty \cup {p}, t)
      BY <1>1, <1>2, <2>2
    <2> HIDE DEF s, t
    <2>5. Abstract' = [Abstract EXCEPT ![p] = None]
      BY <2>3, <2>4, ShownTouched
    <2> QED BY <2>2, <2>5
  <1>4. CASE (Compare \/ Save) /\ UNCHANGED <<vault, dirty>>
             /\ published' \in {published, TRUE}
    <2>1. ~published
      BY <1>4 DEF Compare, Save, Settled, Final
    <2>2. CASE published' = published
      BY <1>1, <1>2, <1>4, <2>1, <2>2
    <2>3. CASE published' = TRUE
      <3>1. Abstract' = Shown(dirty, vault)
        BY <1>2, <1>4, <2>3
      <3>2. Source \notin dirty => vault[Source] = Absent
        BY <1>4, <2>3 DEF Settled, Final
      <3>3. Source \in Path
        BY PathsAssumption
      <3> QED BY <1>4, <1>t, <2>1, <2>3, <3>1, <3>2, <3>3 DEF Shown
    <2> QED BY <1>4, <2>2, <2>3
  <1>5. CASE /\ Next /\ UNCHANGED <<dirty, published>>
             /\ published => edits' = edits \/ EditMetadata
    <2>1. published => vault' = vault
      <3>1. edits \in Nat
        BY DEF TypeInv, TypeOK, CountersTyped
      <3>2. EditMetadata => vault' = vault
        BY DEF EditMetadata
      <3>3. edits' = edits => \A p \in Path : ~EditFile(p)
        BY <3>1 DEF EditFile
      <3>4. published => ~Mutate /\ ~RollWrite
        BY DEF Mutate, RollWrite, Settled, Final
      <3> QED BY <1>5, <3>2, <3>3, <3>4, FilesWritten
    <2> QED BY <1>1, <1>2, <1>5, <2>1
  <1>6. CASE UNCHANGED vars
    <2>1. UNCHANGED <<vault, dirty, published>>
      BY <1>6 DEF vars, durable, env
    <2> QED BY <1>1, <1>2, <2>1
  <1> QED BY <1>3, <1>4, <1>5, <1>6, HistoryWritten

(* Deleting a source is atomic: under the condition of OriginalsKept, what *)
(* recovery would find on the disk shows all of the deletion at the one    *)
(* metadata write and nothing of it before, through every interleaving of  *)
(* edits, crashes, failing calls and recoveries.                           *)
THEOREM DeleteIsAtomic == Tolerant => (Spec => ImplementsAtomicDelete)
  <1>1. SUFFICES ASSUME Tolerant PROVE Spec => ImplementsAtomicDelete
    OBVIOUS
  <1>2. Init => Atomic!Init
    BY ImagesAssumption DEF Init, Atomic!Init, Undone
  <1>3. TypeInv /\ Settled /\ Settled' /\ OriginalsRecoverable /\ OriginalsRecoverable'
          /\ [Next]_vars => [Atomic!Next]_(Atomic!vars)
    BY StepRefines DEF Abstract, Atomic!Next, Atomic!Touch, Atomic!Delete, Atomic!vars
  <1>4. Spec => []OriginalsRecoverable
    BY <1>1, OriginalsKept
  <1> QED BY <1>2, <1>3, <1>4, TypeInvariant, SettledInvariant, PTL
       DEF Spec, ImplementsAtomicDelete, Atomic!Spec
=============================================================================
