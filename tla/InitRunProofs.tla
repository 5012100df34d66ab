--------------------------- MODULE InitRunProofs ---------------------------
(***************************************************************************)
(* What holds of InitRun for all sources, modes and bounds.                *)
(***************************************************************************)
EXTENDS InitRun, TLAPS

WorkPc == {"attempt", "ingest", "verify", "failed", "embedding", "ask", "record", "done"}
ForcePc == {"prepare", "prepareBootstrap", "recheckAll", "wipe", "create", "index"}

(* Where the run is, or will be when the controller resumes it.            *)
Place == IF pc = "persist" THEN after ELSE pc

(* What the types rest on: a run that works on a source has a domain, and  *)
(* has read the source it is going to record.                              *)
Control ==
  /\ \A s \in Source : content[s] # 0
  /\ pc = "persist" => after \in {"index", "attempt", "record", "done"}
  /\ Place \in ForcePc => mode = "force"
  /\ pc # "idle" /\ mode \in {"incremental", "force"} => mem # NoDomain
  /\ pc = "persist" \/ pc \in WorkPc => mem # NoDomain
  /\ Place \in {"ingest", "verify", "record", "done"} => processed # 0
  /\ Place \in FilePc => file \in todo

TypeInv == TypeOK /\ Control

(* The wiki never holds a version that was not there, and what the run is  *)
(* going to record is what it ingested.                                    *)
Ingested ==
  /\ \A s \in Source : pages[s] <= content[s]
  /\ RecordedIsIngested
  /\ pc \notin {"idle", "create"} /\ mem # NoDomain
       => \A s \in Source : mem.analyzed[s] <= pages[s]
  /\ pc = "ingest" => pages[file] <= processed /\ processed <= content[file]
  /\ Place \in {"verify", "record"} => pages[file] = processed

(* The registration is missing only between the wipe and its creation.     *)
Registered ==
  known /\ ~lost /\ domain = NoDomain =>
    mode = "force" /\ (pc = "create" \/ (pc = "persist" /\ pending = "created"))

(* What is off the list of the run is recorded, in memory and on disk.     *)
Complete(s) ==
  /\ mem # NoDomain /\ mem.analyzed[s] >= began[s]
  /\ domain # NoDomain /\ domain.analyzed[s] >= began[s]

(* A domain in memory is registered, or about to be, and nothing is off    *)
(* the list when it is made.                                               *)
InStep ==
  /\ pc \notin {"idle", "create"} /\ mem # NoDomain =>
       domain # NoDomain \/ (pc = "persist" /\ pending = "created")
  /\ pc \in {"bootstrap", "recheck", "announce"} \cup ForcePc => todo = target
  /\ pc = "persist" /\ after \in {"index", "attempt"} => todo = target
  /\ pc = "persist" /\ after = "done" => pending \in {"both", "sources"}

(* The source in hand is read, recorded in memory and then on disk in a    *)
(* version no older than the one the run began with.                       *)
Fresh ==
  /\ pc # "idle" => \A s \in Source : began[s] <= content[s]
  /\ Place \in {"ingest", "verify", "record", "done"} => processed >= began[file]
  /\ Place = "done" => mem.analyzed[file] >= began[file]
  /\ pc = "done" => domain # NoDomain /\ domain.analyzed[file] >= began[file]

Progress ==
  /\ pc # "idle" /\ state.status # "error" => \A s \in target \ todo : Complete(s)
  /\ DoneMeansComplete

-----------------------------------------------------------------------------
State == [status : {"done", "error", "cancelled"}, provisional : BOOLEAN]
Result == {"none", "done", "error", "cancelled"}

(* reduceRunEvent yields a state.                                          *)
LEMMA ReduceTyped ==
  ASSUME NEW st \in State, NEW ev \in Event
  PROVE  Reduce(st, ev) \in State
  BY DEF Reduce, State, Event

(* finalizeRunStatus yields a status.                                      *)
LEMMA FinalizeTyped ==
  ASSUME NEW st \in State, NEW a, NEW t
  PROVE  Finalize(st, a, t) \in Result
  BY DEF Finalize, State, Result

(* The types hold at first.                                                *)
LEMMA InitTyped == Init => TypeInv
  <1> SUFFICES ASSUME Init PROVE TypeInv
    OBVIOUS
  <1>1. 0 \in Version /\ 1 \in Version /\ None \in Recorded /\ [s \in Source |-> 1] \in Recorded
    BY BoundsAssumption DEF Version, None, Recorded
  <1>2. /\ domain \in {NoDomain, [typed |-> FALSE, analyzed |-> None]} /\ mem = NoDomain
        /\ pages = None /\ prepared = None
        /\ content = [s \in Source |-> 1] /\ began = content
        /\ state = InitialStatus /\ known \in BOOLEAN
    BY Zenon DEF Init
  <1>3. /\ mode = "plain" /\ dry = FALSE /\ retried = FALSE /\ aborted = FALSE
        /\ timedOut = FALSE /\ derived = FALSE /\ lost = FALSE
        /\ pc = "idle" /\ after = "idle" /\ pending = "created" /\ result = "none"
        /\ target = {} /\ todo = {} /\ processed = 0
        /\ faults = 0 /\ crashes = 0 /\ runs = 0
    BY Zenon DEF Init
  <1>4. {pages, content, prepared, began} \subseteq Recorded
    BY <1>1, <1>2
  <1>5. domain \in Domain \cup {NoDomain} /\ mem \in Domain \cup {NoDomain}
    <2>1. [typed |-> FALSE, analyzed |-> None] \in Domain
      BY <1>1 DEF Domain
    <2> QED BY <1>2, <2>1, Zenon
  <1>6. state \in State
    BY <1>2 DEF InitialStatus, State
  <1>7. TypeOK
    <2>1. ValuesTyped
      BY <1>4, <1>5, Zenon DEF ValuesTyped
    <2>2. FlagsTyped
      BY <1>2, <1>3, Zenon DEF FlagsTyped
    <2>3. StatusTyped
      BY <1>3, <1>6 DEF StatusTyped, State
    <2>4. PlaceTyped
      BY <1>1, <1>3 DEF PlaceTyped, Mode, Pc
    <2>5. CountersTyped
      BY <1>3, BoundsAssumption DEF CountersTyped
    <2>6. WorkTyped
      BY <1>3 DEF WorkTyped, FilePc
    <2> QED BY <2>1, <2>2, <2>3, <2>4, <2>5, <2>6 DEF TypeOK
  <1>8. Control
    BY <1>2, <1>3 DEF Control, Place, FilePc, ForcePc, WorkPc
  <1> QED BY <1>7, <1>8 DEF TypeInv

(* The run up to the loop over the sources, the loop, and one source.      *)
Preparing == List \/ Prepare \/ PrepareBootstrap \/ RecheckAll \/ Wipe \/ Create \/ WriteIndex
Looping == NextFile \/ Read \/ Bootstrap \/ Recheck \/ Announce
Working == Attempt \/ Ingest \/ Verify \/ Failed \/ EmbeddingFailed \/ Answer \/ Record \/ FileDone

(* The steps of a run by the part of the program they are in.              *)
LEMMA Steps ==
  ASSUME Next
  PROVE  \/ Preparing \/ Looping \/ Working \/ Persist \/ Start \/ Cancel \/ Timeout \/ Crash
         \/ \E s \in Source : Edit(s)
  BY DEF Next, Run, Preparing, Looping, Working

(* The signals and the mode.                                               *)
LEMMA FlagsStep == TypeInv /\ Next => FlagsTyped'
  <1> SUFFICES ASSUME TypeInv, Next PROVE FlagsTyped'
    OBVIOUS
  <1> USE DEF TypeInv, TypeOK, FlagsTyped, Fault, NoFault, Kept, Throw,
              disk, arguments, ingest, event, signals, history, bounds
  <1>1. CASE Preparing
    BY <1>1 DEF Preparing, List, Prepare, PrepareBootstrap, RecheckAll, Wipe, Create, WriteIndex
  <1>2. CASE Looping
    BY <1>2 DEF Looping, NextFile, Read, Bootstrap, Recheck, Announce
  <1>3. CASE Working
    BY <1>3 DEF Working, Attempt, Ingest, Verify, Failed, EmbeddingFailed, Answer, Record, FileDone
  <1>4. CASE Persist
    BY <1>4 DEF Persist
  <1>5. CASE Start
    BY <1>5 DEF Start
  <1>6. CASE Cancel \/ Timeout \/ Crash \/ \E s \in Source : Edit(s)
    BY <1>6 DEF Cancel, Timeout, Crash, Edit
  <1> QED BY Steps, <1>1, <1>2, <1>3, <1>4, <1>5, <1>6

(* The reduced status and the shown result.                                *)
LEMMA StatusStep == TypeInv /\ Next => StatusTyped'
  <1> SUFFICES ASSUME TypeInv, Next PROVE StatusTyped'
    OBVIOUS
  <1> USE ReduceTyped, FinalizeTyped
      DEF TypeInv, TypeOK, StatusTyped, State, Result, Event, HardError,
          Goto, Return, Fail, End, Throw, Emit, Skip, GiveUp
  <1>1. CASE Preparing
    BY <1>1 DEF Preparing, List, Prepare, PrepareBootstrap, RecheckAll, Wipe, Create, WriteIndex
  <1>2. CASE Looping
    BY <1>2 DEF Looping, NextFile, Read, Bootstrap, Recheck, Announce
  <1>3. CASE Working
    BY <1>3 DEF Working, Attempt, Ingest, Verify, Failed, EmbeddingFailed, Answer, Record, FileDone
  <1>4. CASE Persist
    BY <1>4 DEF Persist
  <1>5. CASE Start
    <2>1. InitialStatus \in State
      BY DEF InitialStatus
    <2>2. Reduce(InitialStatus, "error") \in State
      BY <2>1
    <2> QED BY <1>5, <2>1, <2>2 DEF Start
  <1>6. CASE Cancel \/ Timeout \/ Crash \/ \E s \in Source : Edit(s)
    BY <1>6 DEF Cancel, Timeout, Crash, Edit
  <1> QED BY Steps, <1>1, <1>2, <1>3, <1>4, <1>5, <1>6

(* The bounds.                                                             *)
LEMMA CountersStep == TypeInv /\ Next => CountersTyped'
  <1> SUFFICES ASSUME TypeInv, Next PROVE CountersTyped'
    OBVIOUS
  <1> USE BoundsAssumption
      DEF TypeInv, TypeOK, CountersTyped, Fault, NoFault, Throw, bounds
  <1>1. CASE Preparing
    BY <1>1 DEF Preparing, List, Prepare, PrepareBootstrap, RecheckAll, Wipe, Create, WriteIndex
  <1>2. CASE Looping
    BY <1>2 DEF Looping, NextFile, Read, Bootstrap, Recheck, Announce
  <1>3. CASE Working
    BY <1>3 DEF Working, Attempt, Ingest, Verify, Failed, EmbeddingFailed, Answer, Record, FileDone
  <1>4. CASE Persist
    BY <1>4 DEF Persist
  <1>5. CASE Start
    BY <1>5 DEF Start
  <1>6. CASE Cancel \/ Timeout \/ Crash \/ \E s \in Source : Edit(s)
    BY <1>6 DEF Cancel, Timeout, Crash, Edit
  <1> QED BY Steps, <1>1, <1>2, <1>3, <1>4, <1>5, <1>6

(* The place and where the controller resumes.                             *)
LEMMA PlaceStep == TypeInv /\ Next => PlaceTyped'
  <1> SUFFICES ASSUME TypeInv, Next PROVE PlaceTyped'
    OBVIOUS
  <1> USE BoundsAssumption
      DEF TypeInv, TypeOK, ValuesTyped, PlaceTyped, Control, Place, Mode, Pc, FilePc, Recorded, Version,
          Goto, Return, Fail, End, Throw, Emit, Skip, GiveUp,
          disk, arguments, ingest, event
  <1>1. CASE Preparing
    <2>1. CASE List
      BY <2>1 DEF List, Changed, RecordedIn
    <2> QED BY <1>1, <2>1 DEF Preparing, Prepare, PrepareBootstrap, RecheckAll, Wipe, Create, WriteIndex
  <1>2. CASE Looping
    BY <1>2 DEF Looping, NextFile, Read, Bootstrap, Recheck, Announce
  <1>3. CASE Working
    BY <1>3 DEF Working, Attempt, Ingest, Verify, Failed, EmbeddingFailed, Answer, Record, FileDone
  <1>4. CASE Persist
    BY <1>4 DEF Persist
  <1>5. CASE Start
    BY <1>5 DEF Start
  <1>6. CASE Cancel \/ Timeout \/ Crash \/ \E s \in Source : Edit(s)
    BY <1>6 DEF Cancel, Timeout, Crash, Edit
  <1> QED BY Steps, <1>1, <1>2, <1>3, <1>4, <1>5, <1>6

(* What a run puts into memory is a domain.                                *)
LEMMA DomainMade ==
  /\ None \in Recorded
  /\ \A t \in BOOLEAN, a \in Recorded : [typed |-> t, analyzed |-> a] \in Domain
  /\ \A d \in Domain : [d EXCEPT !.typed = TRUE] \in Domain
  /\ \A d \in Domain, s \in Source, v \in Version : [d EXCEPT !.analyzed[s] = v] \in Domain
  <1>1. None \in Recorded
    BY BoundsAssumption DEF None, Recorded, Version
  <1>2. \A d \in Domain, s \in Source, v \in Version : [d EXCEPT !.analyzed[s] = v] \in Domain
    BY DEF Domain, Recorded
  <1> QED BY <1>1, <1>2 DEF Domain

(* What a step leaves in memory is a domain or nothing.                    *)
LEMMA MemStep ==
  TypeInv /\ Next =>
    /\ mem' = mem \/ mem' \in Domain \/ (Start /\ mem' = domain)
    /\ Announce \/ (Create /\ pc' = "persist") => mem' \in Domain
  <1> SUFFICES ASSUME TypeInv, Next
               PROVE  /\ mem' = mem \/ mem' \in Domain \/ (Start /\ mem' = domain)
                      /\ Announce \/ (Create /\ pc' = "persist") => mem' \in Domain
    OBVIOUS
  <1> USE DEF Throw, Goto, End, Emit
  <1>1. Announce => mem' \in Domain
    BY DomainMade DEF Announce
  <1>2. Create => mem' = mem \/ mem' \in Domain
    BY DomainMade DEF Create, Typed
  <1>3. Create /\ pc' = "persist" => mem' \in Domain
    BY DomainMade DEF Create, Typed
  <1>4. Verify => mem' = mem \/ mem' \in Domain
    BY DomainMade DEF Verify, TypeInv, TypeOK, ValuesTyped, WorkTyped
  <1>5. Record => mem' = mem \/ mem' \in Domain
    BY DomainMade DEF Record, TypeInv, TypeOK, ValuesTyped, PlaceTyped, WorkTyped, FilePc
  <1> QED
    BY <1>1, <1>2, <1>3, <1>4, <1>5
       DEF Next, Run, List, Prepare, PrepareBootstrap, RecheckAll, Wipe, WriteIndex, NextFile, Read,
           Bootstrap, Recheck, Attempt, Ingest, Failed, EmbeddingFailed, Answer, FileDone,
           Persist, Start, Cancel, Timeout, Crash, Edit

(* applyDomainEvent yields a domain.                                       *)
LEMMA ApplyTyped ==
  ASSUME TypeInv, mem # NoDomain
  PROVE  Apply(pending, domain) \in Domain \cup {NoDomain}
  BY DEF TypeInv, TypeOK, ValuesTyped, Apply, Domain

(* The disk and the memory.                                                *)
LEMMA ValuesStep == TypeInv /\ Next => ValuesTyped' /\ \A s \in Source : content'[s] # 0
  <1> SUFFICES ASSUME TypeInv, Next
               PROVE  ValuesTyped' /\ \A s \in Source : content'[s] # 0
    OBVIOUS
  <1>1. mem' \in Domain \cup {NoDomain}
    BY MemStep DEF TypeInv, TypeOK, ValuesTyped
  <1>2. domain' \in Domain \cup {NoDomain}
    BY ApplyTyped
       DEF TypeInv, TypeOK, ValuesTyped, Control, Throw, disk, Persist,
           Next, Run, List, Prepare, PrepareBootstrap, RecheckAll, Wipe, Create, WriteIndex, NextFile,
           Read, Bootstrap, Recheck, Announce, Attempt, Ingest, Verify, Failed, EmbeddingFailed,
           Answer, Record, FileDone, Start, Cancel, Timeout, Crash, Edit
  <1>3. content' \in Recorded /\ \A s \in Source : content'[s] # 0
    <2>1. ASSUME NEW t \in Source, Edit(t)
          PROVE  content' \in Recorded /\ \A s \in Source : content'[s] # 0
      BY <2>1, BoundsAssumption DEF Edit, TypeInv, TypeOK, ValuesTyped, Control, Recorded, Version
    <2> QED
      BY <2>1
         DEF TypeInv, TypeOK, ValuesTyped, Control, disk, Persist,
             Next, Run, List, Prepare, PrepareBootstrap, RecheckAll, Wipe, Create, WriteIndex, NextFile,
             Read, Bootstrap, Recheck, Announce, Attempt, Ingest, Verify, Failed, EmbeddingFailed,
             Answer, Record, FileDone, Start, Cancel, Timeout, Crash
  <1>4. pages' \in Recorded
    <2>1. CASE Ingest
      BY <2>1 DEF Ingest, TypeInv, TypeOK, ValuesTyped, PlaceTyped, Recorded
    <2> QED
      BY <2>1, DomainMade
         DEF TypeInv, TypeOK, ValuesTyped, disk, Persist,
             Next, Run, List, Prepare, PrepareBootstrap, RecheckAll, Wipe, Create, WriteIndex, NextFile,
             Read, Bootstrap, Recheck, Announce, Attempt, Verify, Failed, EmbeddingFailed,
             Answer, Record, FileDone, Start, Cancel, Timeout, Crash, Edit
  <1>5. prepared' \in Recorded /\ began' \in Recorded
    BY DomainMade
       DEF TypeInv, TypeOK, ValuesTyped, arguments, Persist,
           Next, Run, List, Prepare, PrepareBootstrap, RecheckAll, Wipe, Create, WriteIndex, NextFile,
           Read, Bootstrap, Recheck, Announce, Attempt, Ingest, Verify, Failed, EmbeddingFailed,
           Answer, Record, FileDone, Start, Cancel, Timeout, Crash, Edit
  <1> QED BY <1>1, <1>2, <1>3, <1>4, <1>5 DEF ValuesTyped

(* What the work rests on.                                                 *)
LEMMA ControlStep == TypeInv /\ Next => (WorkTyped /\ Control)'
  <1> SUFFICES ASSUME TypeInv, Next PROVE (WorkTyped /\ Control)'
    OBVIOUS
  <1>0. TypeInv /\ (mem' = mem \/ mem' \in Domain \/ (Start /\ mem' = domain))
        /\ (Announce \/ (Create /\ pc' = "persist") => mem' \in Domain)
    BY MemStep
  <1>1. /\ pc # "idle" /\ mem # NoDomain => mem' # NoDomain
        /\ Announce \/ (Create /\ pc' = "persist") => mem' # NoDomain
    BY <1>0, DomainAssumption DEF Start
  <1> USE DEF TypeInv, Control, Goto, Return, Fail, End, Throw, Emit, Skip, GiveUp, arguments
  <1>2. /\ Place' \in ForcePc => mode' = "force"
        /\ pc' # "idle" /\ mode' \in {"incremental", "force"} => mem' # NoDomain
    <2> USE DEF ForcePc, WorkPc, Place, event
    <2>1. CASE Preparing
      BY <1>1, <2>1 DEF Preparing, List, Prepare, PrepareBootstrap, RecheckAll, Wipe, Create, WriteIndex
    <2>2. CASE Looping
      BY <1>1, <2>2 DEF Looping, NextFile, Read, Bootstrap, Recheck, Announce
    <2>3. CASE Working
      BY <1>1, <2>3 DEF Working, Attempt, Ingest, Verify, Failed, EmbeddingFailed, Answer, Record, FileDone
    <2>4. CASE Persist
      BY <1>1, <2>4 DEF Persist
    <2>5. CASE Start
      BY <1>1, <2>5 DEF Start, Refused, Typed
    <2>6. CASE Cancel \/ Timeout \/ Crash \/ \E s \in Source : Edit(s)
      BY <1>1, <2>6 DEF Cancel, Timeout, Crash, Edit
    <2> QED BY Steps, <2>1, <2>2, <2>3, <2>4, <2>5, <2>6
  <1>3. /\ pc' = "persist" => after' \in {"index", "attempt", "record", "done"}
        /\ pc' = "persist" \/ pc' \in WorkPc => mem' # NoDomain
        /\ Place' \in {"ingest", "verify", "record", "done"} => processed' # 0
        /\ Place' \in FilePc => file' \in todo'
    <2> USE DEF TypeOK, PlaceTyped, FilePc, WorkPc, Place, ingest, event
    <2>1. CASE Preparing
      BY <1>1, <2>1 DEF Preparing, List, Prepare, PrepareBootstrap, RecheckAll, Wipe, Create, WriteIndex
    <2>2. CASE Looping
      BY <1>1, <2>2 DEF Looping, NextFile, Read, Bootstrap, Recheck, Announce
    <2>3. CASE Working
      BY <1>1, <2>3 DEF Working, Attempt, Ingest, Verify, Failed, EmbeddingFailed, Answer, Record, FileDone
    <2>4. CASE Persist
      BY <1>1, <2>4 DEF Persist
    <2>5. CASE Start
      BY <1>1, <2>5 DEF Start, Refused, Typed
    <2>6. CASE Cancel \/ Timeout \/ Crash \/ \E s \in Source : Edit(s)
      BY <1>1, <2>6 DEF Cancel, Timeout, Crash, Edit
    <2> QED BY Steps, <2>1, <2>2, <2>3, <2>4, <2>5, <2>6
  <1>4. \A s \in Source : content'[s] # 0
    BY ValuesStep
  <1>5. Control'
    BY <1>2, <1>3, <1>4
  <1>6. WorkTyped'
    BY <1>3 DEF WorkTyped, Place, FilePc, WorkPc
  <1> QED BY <1>5, <1>6

(* TypeInv always holds.                                                   *)
LEMMA TypeInvariant == Spec => []TypeInv
  <1>1. TypeInv /\ [Next]_vars => TypeInv'
    <2>1. TypeInv /\ Next => TypeInv'
      BY FlagsStep, StatusStep, CountersStep, PlaceStep, ValuesStep, ControlStep DEF TypeInv, TypeOK
    <2>2. TypeInv /\ UNCHANGED vars => TypeInv'
      BY DEF vars, disk, arguments, ingest, event, signals, history, bounds, TypeInv, TypeOK,
             ValuesTyped, FlagsTyped, StatusTyped, PlaceTyped, CountersTyped, WorkTyped, Control, Place
    <2> QED BY <2>1, <2>2
  <1> QED BY InitTyped, <1>1, PTL DEF Spec

(* The variables of a run are of their types, and a source that is being   *)
(* ingested or recorded was read.                                          *)
THEOREM TypeCorrect == Spec => []TypeOK
  <1>1. TypeInv => TypeOK
    BY DEF TypeInv
  <1> QED BY TypeInvariant, <1>1, PTL

-----------------------------------------------------------------------------
(* RecordedIsIngested                                                      *)
LEMMA IngestedInit == Init => Ingested
  <1> SUFFICES ASSUME Init PROVE Ingested
    OBVIOUS
  <1>1. /\ domain \in {NoDomain, [typed |-> FALSE, analyzed |-> None]} /\ pc = "idle"
        /\ pages = None /\ content = [s \in Source |-> 1]
    BY Zenon DEF Init
  <1>2. domain # NoDomain => domain.analyzed = None
    BY <1>1
  <1> QED BY <1>1, <1>2 DEF Ingested, RecordedIsIngested, Place, None

(* A version is a number.                                                  *)
LEMMA Versions ==
  ASSUME TypeInv, NEW s \in Source
  PROVE  /\ pages[s] \in Nat /\ content[s] \in Nat
         /\ domain # NoDomain => domain.analyzed[s] \in Nat
         /\ mem # NoDomain => mem.analyzed[s] \in Nat
  BY BoundsAssumption DEF TypeInv, TypeOK, ValuesTyped, Domain, Recorded, Version

(* Only an ingest and the wipe change what the wiki holds.                 *)
LEMMA PagesStep ==
  TypeInv /\ Next =>
    \/ pages' = pages
    \/ Ingest /\ pages' = [pages EXCEPT ![file] = processed]
    \/ Wipe /\ pages' = None /\ domain' = NoDomain /\ pc' \in {"idle", "create"}
  BY DEF Next, Run, List, Prepare, PrepareBootstrap, RecheckAll, Wipe, Create, WriteIndex, NextFile, Read,
         Bootstrap, Recheck, Announce, Attempt, Ingest, Verify, Failed, EmbeddingFailed,
         Answer, Record, FileDone, Persist, Start, Cancel, Timeout, Crash, Edit,
         Fail, End, Goto, disk

(* Only an edit changes a source, to a newer version.                      *)
LEMMA ContentStep ==
  TypeInv /\ Next => \A s \in Source : content'[s] >= content[s] /\ (~(\E t \in Source : Edit(t)) => content'[s] = content[s])
  <1>1. ASSUME TypeInv, NEW t \in Source, Edit(t) PROVE \A s \in Source : content'[s] >= content[s]
    BY <1>1, Versions DEF Edit, TypeInv, TypeOK, ValuesTyped, Recorded
  <1>2. ASSUME Next, ~(\E t \in Source : Edit(t)) PROVE content' = content
    BY <1>2
       DEF Next, Run, List, Prepare, PrepareBootstrap, RecheckAll, Wipe, Create, WriteIndex, NextFile, Read,
         Bootstrap, Recheck, Announce, Attempt, Ingest, Verify, Failed, EmbeddingFailed,
         Answer, Record, FileDone, Persist, Start, Cancel, Timeout, Crash, disk
  <1> QED BY <1>1, <1>2, Versions

(* What an update of a domain leaves alone.                                *)
LEMMA DomainFields ==
  /\ \A d \in Domain : [d EXCEPT !.typed = TRUE].analyzed = d.analyzed
  /\ \A d \in Domain, s \in Source, v \in Version :
       [d EXCEPT !.analyzed[s] = v].analyzed = [d.analyzed EXCEPT ![s] = v]
  BY DEF Domain

(* How the domain in memory and the one on disk come to be what they are.  *)
LEMMA MemRecords ==
  TypeInv /\ Next =>
    \/ mem' = mem
    \/ mem' # NoDomain /\ mem'.analyzed = None /\ (Create \/ Announce)
    \/ Start /\ mem' = domain
    \/ Verify /\ mem' # NoDomain /\ mem'.analyzed = mem.analyzed
    \/ Record /\ mem' # NoDomain /\ mem'.analyzed = [mem.analyzed EXCEPT ![file] = processed]
  <1> SUFFICES ASSUME TypeInv, Next
               PROVE  \/ mem' = mem
                      \/ mem' # NoDomain /\ mem'.analyzed = None /\ (Create \/ Announce)
                      \/ Start /\ mem' = domain
                      \/ Verify /\ mem' # NoDomain /\ mem'.analyzed = mem.analyzed
                      \/ Record /\ mem' # NoDomain
                           /\ mem'.analyzed = [mem.analyzed EXCEPT ![file] = processed]
    OBVIOUS
  <1>0. /\ mem' \in Domain => mem' # NoDomain
        /\ Announce \/ (Create /\ pc' = "persist") => mem' \in Domain
    BY MemStep, DomainAssumption
  <1>1. CASE Announce
    BY <1>0, <1>1 DEF Announce
  <1>2. CASE Create
    BY <1>0, <1>2 DEF Create, Emit, Goto, Throw, End
  <1>3. CASE Verify
    <2>1. pc = "verify" /\ (mem' = mem \/ mem' = [mem EXCEPT !.typed = TRUE])
      BY <1>3 DEF Verify
    <2>2. mem \in Domain
      BY <2>1 DEF TypeInv, TypeOK, ValuesTyped, WorkTyped
    <2> QED BY <1>0, <1>3, <2>1, <2>2, DomainMade, DomainFields
  <1>4. CASE Record
    <2>1. pc = "record" /\ (mem' = mem \/ mem' = [mem EXCEPT !.analyzed[file] = processed])
      BY <1>4 DEF Record
    <2>2. mem \in Domain /\ file \in Source /\ processed \in Version
      BY <2>1 DEF TypeInv, TypeOK, ValuesTyped, PlaceTyped, WorkTyped, FilePc
    <2> DEFINE next == [mem EXCEPT !.analyzed[file] = processed]
    <2>3. next \in Domain /\ next.analyzed = [mem.analyzed EXCEPT ![file] = processed]
      BY <2>2, DomainMade, DomainFields
    <2> HIDE DEF next
    <2>4. mem' = mem \/ mem' = next
      BY <2>1 DEF next
    <2> QED BY <1>0, <1>4, <2>3, <2>4
  <1> QED
    BY <1>1, <1>2, <1>3, <1>4
       DEF Next, Run, List, Prepare, PrepareBootstrap, RecheckAll, Wipe, WriteIndex, NextFile, Read,
           Bootstrap, Recheck, Attempt, Ingest, Failed, EmbeddingFailed, Answer, FileDone,
           Persist, Start, Cancel, Timeout, Crash, Edit

(* The ways in which the domain on disk changes.                           *)
LEMMA DiskRecords ==
  TypeInv /\ Next =>
    \/ domain' = domain
    \/ domain' = NoDomain /\ Wipe
    \/ Persist /\ domain' # NoDomain /\ domain' = Apply(pending, domain)
         /\ (domain'.analyzed = mem.analyzed \/ (domain # NoDomain /\ domain'.analyzed = domain.analyzed))
  <1>1. ASSUME TypeInv, Persist, domain' # domain
        PROVE  domain' # NoDomain /\ domain' = Apply(pending, domain)
                 /\ (domain'.analyzed = mem.analyzed
                       \/ (domain # NoDomain /\ domain'.analyzed = domain.analyzed))
    <2>1. domain' = Apply(pending, domain) /\ mem # NoDomain
      BY <1>1 DEF Persist, TypeInv, Control
    <2>2. domain' \in Domain
      BY <1>1, <2>1 DEF Apply, TypeInv, TypeOK, ValuesTyped, Domain
    <2> QED BY <1>1, <2>1, <2>2, DomainAssumption DEF Apply
  <1> QED
    BY <1>1
       DEF Next, Run, List, Prepare, PrepareBootstrap, RecheckAll, Wipe, Create, WriteIndex, NextFile, Read,
           Bootstrap, Recheck, Announce, Attempt, Ingest, Verify, Failed, EmbeddingFailed, Answer, Record,
           FileDone, Start, Cancel, Timeout, Crash, Edit, disk

(* Every step keeps what is recorded true.                                 *)
LEMMA IngestedStep == TypeInv /\ Ingested /\ Next => Ingested'
  <1> SUFFICES ASSUME TypeInv, Ingested, Next PROVE Ingested'
    OBVIOUS
  <1>1. \A s \in Source : /\ content[s] \in Nat /\ content'[s] \in Nat /\ pages[s] \in Nat
                          /\ content'[s] >= content[s] /\ content[s] >= pages[s]
    BY Versions, ContentStep, ValuesStep, BoundsAssumption
       DEF ValuesTyped, Recorded, Version, Ingested
  <1>2. ASSUME Ingest
        PROVE  /\ file \in Source /\ processed \in Nat
               /\ pages[file] <= processed /\ processed <= content[file]
    BY <1>2, BoundsAssumption
       DEF Ingest, TypeInv, TypeOK, PlaceTyped, WorkTyped, FilePc, Version, Ingested
  <1>3. pages \in Recorded
    BY DEF TypeInv, TypeOK, ValuesTyped
  (* What the wiki holds grows, except when it is wiped. *)
  <1>4. CASE pages' = pages \/ (Ingest /\ pages' = [pages EXCEPT ![file] = processed])
    <2>1. \A s \in Source : pages'[s] \in Nat /\ pages'[s] >= pages[s] /\ pages'[s] <= content'[s]
      BY <1>1, <1>2, <1>3, <1>4 DEF Recorded
    <2>3. \A s \in Source : /\ domain # NoDomain => domain.analyzed[s] <= pages'[s]
                            /\ pc \notin {"idle", "create"} /\ mem # NoDomain
                                 => mem.analyzed[s] <= pages'[s]
      BY <2>1, <1>1, Versions DEF Ingested, RecordedIsIngested
    <2>4. RecordedIsIngested'
      <3>1. Persist => pc \notin {"idle", "create"} /\ mem # NoDomain
        BY DEF Persist, TypeInv, Control
      <3> QED BY <2>3, <3>1, DiskRecords DEF RecordedIsIngested
    <2>5. pc' \notin {"idle", "create"} /\ mem' # NoDomain
            => \A s \in Source : mem'.analyzed[s] <= pages'[s]
      <3> SUFFICES ASSUME pc' \notin {"idle", "create"}, mem' # NoDomain
                   PROVE  \A s \in Source : mem'.analyzed[s] <= pages'[s]
        OBVIOUS
      <3>1. Start => mem' = domain
        BY DEF Start
      <3>2. Create => mem'.analyzed = None
        BY MemRecords DEF Create, Throw, End, Emit, Goto, Announce, Start, Verify, Record
      <3>3. pc \notin {"idle", "create"} \/ Start \/ Create
        BY DEF Next, Run, List, Prepare, PrepareBootstrap, RecheckAll, Wipe, Create, WriteIndex,
                NextFile, Read, Bootstrap, Recheck, Announce, Attempt, Ingest, Verify, Failed,
                EmbeddingFailed, Answer, Record, FileDone, Persist, Start, Cancel, Timeout, Crash, Edit,
                Throw, End, Emit, Goto
      <3>4. \A s \in Source : None[s] <= pages'[s]
        BY <2>1 DEF None
      <3>5. CASE Record /\ mem'.analyzed = [mem.analyzed EXCEPT ![file] = processed]
        <4>1. /\ pc = "record" /\ mem \in Domain /\ mem # NoDomain /\ file \in Source
              /\ pages[file] = processed
          BY <3>5
             DEF Record, TypeInv, TypeOK, ValuesTyped, PlaceTyped, WorkTyped, FilePc, Ingested, Place
        <4>2. mem.analyzed \in Recorded
          BY <4>1 DEF Domain
        <4> QED BY <2>1, <2>3, <3>5, <4>1, <4>2 DEF Recorded
      <3>6. CASE Verify /\ mem'.analyzed = mem.analyzed
        BY <2>3, <3>6 DEF Verify, TypeInv, TypeOK, WorkTyped
      <3> QED BY <2>3, <3>1, <3>2, <3>3, <3>4, <3>5, <3>6, MemRecords
    <2>6. pc' = "ingest" => pages'[file'] <= processed' /\ processed' <= content'[file']
      <3> SUFFICES ASSUME pc' = "ingest"
                   PROVE  pages'[file'] <= processed' /\ processed' <= content'[file']
        OBVIOUS
      <3>1. \/ pc = "ingest" /\ file' = file /\ processed' = processed /\ pages' = pages
            \/ Attempt /\ processed' = content[file] /\ file' = file /\ content' = content
        BY DEF Next, Run, List, Prepare, PrepareBootstrap, RecheckAll, Wipe, Create, WriteIndex,
               NextFile, Read, Bootstrap, Recheck, Announce, Attempt, Ingest, Verify, Failed,
               EmbeddingFailed, Answer, Record, FileDone, Persist, Start, Cancel, Timeout, Crash, Edit,
               TypeInv, Control, Return, Fail, Throw, End, Emit, Goto, Skip, GiveUp, disk, ingest
      <3>2. pc = "ingest" \/ Attempt => file \in Source
        BY DEF Attempt, TypeInv, TypeOK, PlaceTyped, WorkTyped, FilePc
      <3>3. pc = "ingest" =>
              processed \in Nat /\ pages[file] <= processed /\ processed <= content[file]
        BY BoundsAssumption DEF TypeInv, TypeOK, PlaceTyped, Version, Ingested
      <3>4. CASE pc = "ingest" /\ file' = file /\ processed' = processed /\ pages' = pages
        BY <1>1, <3>2, <3>3, <3>4
      <3>5. CASE Attempt /\ processed' = content[file] /\ file' = file /\ content' = content
        BY <1>1, <2>1, <3>2, <3>5
      <3> QED BY <3>1, <3>4, <3>5
    <2>7. Place' \in {"verify", "record"} => pages'[file'] = processed'
      <3> SUFFICES ASSUME Place' \in {"verify", "record"} PROVE pages'[file'] = processed'
        OBVIOUS
      <3>1. \/ Ingest /\ pages' = [pages EXCEPT ![file] = processed]
                 /\ file' = file /\ processed' = processed
            \/ /\ Place \in {"verify", "record"}
               /\ file' = file /\ processed' = processed /\ pages' = pages
        BY <1>4
           DEF Next, Run, List, Prepare, PrepareBootstrap, RecheckAll, Wipe, Create, WriteIndex,
               NextFile, Read, Bootstrap, Recheck, Announce, Attempt, Ingest, Verify, Failed,
               EmbeddingFailed, Answer, Record, FileDone, Persist, Start, Cancel, Timeout, Crash, Edit,
               Place, Return, Fail, Throw, End, Emit, Goto, Skip, GiveUp, disk, ingest, event
      <3> QED BY <1>2, <1>3, <3>1 DEF Ingested, Recorded
    <2> QED BY <2>1, <2>4, <2>5, <2>6, <2>7 DEF Ingested
  <1>5. CASE Wipe /\ pages' = None /\ domain' = NoDomain /\ pc' \in {"idle", "create"}
    BY <1>1, <1>5 DEF Ingested, RecordedIsIngested, Place, None
  <1> QED BY <1>4, <1>5, PagesStep

(* Ingested always holds.                                                  *)
LEMMA IngestedInvariant == Spec => []Ingested
  <1>1. TypeInv /\ Ingested /\ [Next]_vars => Ingested'
    <2>1. TypeInv /\ Ingested /\ UNCHANGED vars => Ingested'
      BY DEF vars, disk, arguments, ingest, event, signals, history, bounds,
             Ingested, RecordedIsIngested, Place
    <2> QED BY <2>1, IngestedStep
  <1> QED BY TypeInvariant, IngestedInit, <1>1, PTL DEF Spec

(* Nothing is recorded that was not ingested completely since the last     *)
(* wipe, however runs, edits, failures and crashes follow each other.      *)
THEOREM RecordsAreTrue == Spec => []RecordedIsIngested
  <1>1. Ingested => RecordedIsIngested
    BY DEF Ingested
  <1> QED BY IngestedInvariant, <1>1, PTL
-----------------------------------------------------------------------------
(* DomainSurvives                                                          *)
LEMMA RegisteredInit == Init => Registered
  <1> SUFFICES ASSUME Init PROVE Registered
    OBVIOUS
  <1>1. known = (domain # NoDomain)
    BY Zenon DEF Init
  <1> QED BY <1>1, Zenon DEF Registered

(* The history variables only ever become true.                            *)
LEMMA HistoryStep ==
  TypeInv /\ Next =>
    /\ lost => lost'
    /\ known' => known \/ domain' # NoDomain
  <1> SUFFICES ASSUME TypeInv, Next
               PROVE  (lost => lost') /\ (known' => known \/ domain' # NoDomain)
    OBVIOUS
  <1>1. Persist => known' = (known \/ domain' # NoDomain)
    BY Zenon DEF Persist
  <1>2. ~Persist => known' = known
    BY DEF Next, Run, List, Prepare, PrepareBootstrap, RecheckAll, Wipe, Create, WriteIndex, NextFile, Read,
           Bootstrap, Recheck, Announce, Attempt, Ingest, Verify, Failed, EmbeddingFailed, Answer,
           Record, FileDone, Start, Cancel, Timeout, Crash, Edit, history
  <1>3. lost' = lost \/ lost' = TRUE \/ lost' = (lost \/ Unregistered)
    BY DEF Next, Run, List, Prepare, PrepareBootstrap, RecheckAll, Wipe, Create, WriteIndex, NextFile, Read,
           Bootstrap, Recheck, Announce, Attempt, Ingest, Verify, Failed, EmbeddingFailed, Answer,
           Record, FileDone, Persist, Start, Cancel, Timeout, Crash, Edit, Throw, Kept, history
  <1>4. lost => lost'
    BY <1>3, Zenon
  <1>5. known' => known \/ domain' # NoDomain
    BY <1>1, <1>2, Zenon
  <1> QED BY <1>4, <1>5

(* Every step but the wipe keeps the registration.                         *)
LEMMA RegisteredStep == TypeInv /\ Registered /\ Next => Registered'
  <1> SUFFICES ASSUME TypeInv, Registered, Next, known', ~lost', domain' = NoDomain
               PROVE  mode' = "force" /\ (pc' = "create" \/ (pc' = "persist" /\ pending' = "created"))
    BY DEF Registered
  <1>1. known /\ ~lost
    BY HistoryStep, Zenon
  <1>2. CASE Wipe
    BY <1>1, <1>2 DEF Wipe, Registered, TypeInv, Control, Place, ForcePc, Fail, Goto, End, arguments
  <1>3. CASE ~Wipe
    <2>1. domain = NoDomain
      BY <1>3, DiskRecords
    <2>2. mode = "force" /\ (pc = "create" \/ (pc = "persist" /\ pending = "created"))
      BY <1>1, <2>1 DEF Registered
    <2>3. Unregistered
      BY <2>1, <2>2 DEF Unregistered
    <2>4. ~(Throw \/ Crash)
      BY <2>3, Zenon DEF Throw, Crash
    <2>5. mem # NoDomain \/ pc = "create"
      BY <2>2 DEF TypeInv, Control
    <2>6. ~Persist
      BY <2>1, <2>2, <2>4, <2>5 DEF Persist, Apply
    <2> QED
      BY <1>3, <2>2, <2>4, <2>6
         DEF Next, Run, List, Prepare, PrepareBootstrap, RecheckAll, Create, WriteIndex, NextFile, Read,
             Bootstrap, Recheck, Announce, Attempt, Ingest, Verify, Failed, EmbeddingFailed, Answer,
             Record, FileDone, Start, Cancel, Timeout, Edit, Emit, Goto, arguments, event
  <1> QED BY <1>2, <1>3

(* Registered always holds.                                                *)
LEMMA RegisteredInvariant == Spec => []Registered
  <1>1. TypeInv /\ Registered /\ [Next]_vars => Registered'
    <2>1. Registered /\ UNCHANGED vars => Registered'
      BY DEF vars, disk, arguments, event, history, Registered
    <2> QED BY <2>1, RegisteredStep
  <1> QED BY TypeInvariant, RegisteredInit, <1>1, PTL DEF Spec

(* A force run that nothing but the user or the clock interrupts leaves    *)
(* the domain registered.                                                  *)
THEOREM DomainStays == Spec => []DomainSurvives
  <1>1. Registered => DomainSurvives
    BY DEF Registered, DomainSurvives
  <1> QED BY RegisteredInvariant, <1>1, PTL

-----------------------------------------------------------------------------
(* DoneMeansComplete                                                       *)
LEMMA InStepInit == Init => InStep
  <1>1. Init => pc = "idle"
    BY Zenon DEF Init
  <1> QED BY <1>1 DEF InStep, ForcePc

(* The list and the domain in memory keep in step with the run.            *)
LEMMA InStepStep == TypeInv /\ InStep /\ Next => InStep'
  <1> SUFFICES ASSUME TypeInv, InStep, Next PROVE InStep'
    OBVIOUS
  <1> USE DEF InStep, ForcePc, Return, Fail, Throw, End, Emit, Goto, Skip, GiveUp,
              disk, arguments, ingest, event
  <1>1. CASE Preparing
    BY <1>1 DEF Preparing, List, Prepare, PrepareBootstrap, RecheckAll, Wipe, Create, WriteIndex
  <1>2. CASE Looping
    BY <1>2 DEF Looping, NextFile, Read, Bootstrap, Recheck, Announce, NeedsBootstrap
  <1>3. CASE Working
    BY <1>3 DEF Working, Attempt, Ingest, Verify, Failed, EmbeddingFailed, Answer, Record, FileDone,
                TypeInv, TypeOK, WorkTyped, FilePc
  <1>4. CASE Persist
    <2>1. pc = "persist" /\ mem # NoDomain /\ after \in {"index", "attempt", "record", "done"}
      BY <1>4 DEF Persist, TypeInv, Control
    <2>2. \/ pc' = "idle"
          \/ pc' = after /\ domain' = Apply(pending, domain)
      BY <1>4 DEF Persist
    <2>3. Apply(pending, domain) # NoDomain
      <3>1. domain # NoDomain => Apply(pending, domain) \in Domain \/ Apply(pending, domain) = domain
        BY <2>1 DEF Apply, TypeInv, TypeOK, ValuesTyped, Domain
      <3>2. domain = NoDomain => Apply(pending, domain) = mem
        BY <2>1 DEF Apply
      <3> QED BY <2>1, <3>1, <3>2, DomainAssumption
    <2> QED BY <1>4, <2>1, <2>2, <2>3 DEF Persist
  <1>5. CASE Start
    BY <1>5 DEF Start
  <1>6. CASE Cancel \/ Timeout \/ Crash \/ \E s \in Source : Edit(s)
    BY <1>6 DEF Cancel, Timeout, Crash, Edit
  <1> QED BY Steps, <1>1, <1>2, <1>3, <1>4, <1>5, <1>6

(* The versions a run began with and the one in hand are numbers.          *)
LEMMA Begun ==
  ASSUME TypeInv, NEW s \in Source
  PROVE  began[s] \in Nat /\ processed \in Nat
  BY BoundsAssumption DEF TypeInv, TypeOK, ValuesTyped, PlaceTyped, Recorded, Version

(* No run, nothing in hand.                                                *)
LEMMA FreshInit == Init => Fresh
  <1>1. Init => pc = "idle"
    BY Zenon DEF Init
  <1> QED BY <1>1 DEF Fresh, Place

(* Where a source is when it is ingested, recorded and done.               *)
LEMMA FileSteps ==
  TypeInv /\ Next =>
    /\ Start \/ began' = began
    /\ pc = "idle" => Start \/ pc' = "idle"
    /\ Place' \in {"ingest", "verify", "record", "done"} =>
         \/ /\ Place \in {"ingest", "verify", "record", "done"}
            /\ file' = file /\ processed' = processed /\ began' = began
         \/ /\ Attempt /\ processed' = content[file]
            /\ file' = file /\ began' = began
    /\ Place' = "done" =>
         \/ Place = "done" /\ file' = file /\ mem' = mem /\ began' = began
         \/ Record /\ file' = file /\ began' = began /\ pc' = "persist"
    /\ pc' = "done" =>
         \/ pc = "done" /\ file' = file /\ domain' = domain /\ began' = began
         \/ /\ pc = "persist" /\ after = "done" /\ domain' = Apply(pending, domain)
            /\ file' = file /\ began' = began
  <1> SUFFICES ASSUME TypeInv, Next
               PROVE  /\ Start \/ began' = began
                      /\ pc = "idle" => Start \/ pc' = "idle"
                      /\ Place' \in {"ingest", "verify", "record", "done"} =>
                           \/ /\ Place \in {"ingest", "verify", "record", "done"}
                              /\ file' = file /\ processed' = processed /\ began' = began
                           \/ /\ Attempt /\ processed' = content[file]
                              /\ file' = file /\ began' = began
                      /\ Place' = "done" =>
                           \/ Place = "done" /\ file' = file /\ mem' = mem /\ began' = began
                           \/ Record /\ file' = file /\ began' = began /\ pc' = "persist"
                      /\ pc' = "done" =>
                           \/ pc = "done" /\ file' = file /\ domain' = domain /\ began' = began
                           \/ /\ pc = "persist" /\ after = "done" /\ domain' = Apply(pending, domain)
                              /\ file' = file /\ began' = began
    OBVIOUS
  <1> USE DEF Place, Return, Fail, Throw, End, Emit, Goto, Skip, GiveUp, disk, arguments, ingest, event
  <1>1. CASE Preparing
    BY <1>1 DEF Preparing, List, Prepare, PrepareBootstrap, RecheckAll, Wipe, Create, WriteIndex
  <1>2. CASE Looping
    BY <1>2 DEF Looping, NextFile, Read, Bootstrap, Recheck, Announce
  <1>3. CASE Working
    BY <1>3 DEF Working, Attempt, Ingest, Verify, Failed, EmbeddingFailed, Answer, Record, FileDone
  <1>4. CASE Persist
    BY <1>4 DEF Persist
  <1>5. CASE Start
    BY <1>5 DEF Start
  <1>6. CASE Cancel \/ Timeout \/ Crash \/ \E s \in Source : Edit(s)
    BY <1>6 DEF Cancel, Timeout, Crash, Edit
  <1> QED BY Steps, <1>1, <1>2, <1>3, <1>4, <1>5, <1>6

(* What is read and recorded is no older than the run.                     *)
LEMMA FreshStep == TypeInv /\ InStep /\ Fresh /\ Next => Fresh'
  <1> SUFFICES ASSUME TypeInv, InStep, Fresh, Next PROVE Fresh'
    OBVIOUS
  <1>1. pc' # "idle" => \A s \in Source : began'[s] <= content'[s]
    <2>1. \A s \in Source : /\ began[s] \in Nat /\ content[s] \in Nat /\ content'[s] \in Nat
                            /\ content'[s] >= content[s]
      BY Begun, Versions, ContentStep, ValuesStep, BoundsAssumption DEF ValuesTyped, Recorded, Version
    <2>2. CASE Start
      BY <2>1, <2>2 DEF Start
    <2>3. CASE ~Start
      BY <2>1, <2>3, FileSteps DEF Fresh
    <2> QED BY <2>2, <2>3
  <1>2. Place' \in {"ingest", "verify", "record", "done"} => processed' >= began'[file']
    <2>1. Attempt => content[file] >= began[file]
      BY Begun, Versions DEF Attempt, Fresh, TypeInv, TypeOK, PlaceTyped, WorkTyped, FilePc
    <2> QED BY <2>1, FileSteps DEF Fresh
  <1>3. Place' = "done" => mem'.analyzed[file'] >= began'[file']
    <2>1. ASSUME Record, pc' = "persist" PROVE mem'.analyzed[file] >= began[file]
      <3>1. pc = "record" /\ mem \in Domain /\ mem # NoDomain /\ file \in Source /\ processed \in Nat
        BY <2>1, Begun DEF Record, TypeInv, TypeOK, ValuesTyped, PlaceTyped, WorkTyped, FilePc
      <3>2. processed >= began[file]
        BY <3>1 DEF Fresh, Place
      <3>3. mem' = [mem EXCEPT !.analyzed[file] = processed]
        BY <2>1 DEF Record, Return, End
      <3>4. mem'.analyzed = [mem.analyzed EXCEPT ![file] = processed] /\ mem.analyzed \in Recorded
        BY <3>1, <3>3, DomainFields DEF Domain, TypeInv, TypeOK, PlaceTyped
      <3> QED BY <3>1, <3>2, <3>4 DEF Recorded
    <2> QED BY <2>1, FileSteps DEF Fresh
  <1>4. pc' = "done" => domain' # NoDomain /\ domain'.analyzed[file'] >= began'[file']
    <2>1. ASSUME pc = "persist", after = "done", domain' = Apply(pending, domain)
          PROVE  domain' # NoDomain /\ domain'.analyzed = mem.analyzed
      <3>1. pending \in {"both", "sources"} /\ mem # NoDomain /\ domain # NoDomain
        BY <2>1 DEF InStep, TypeInv, Control
      <3>2. domain' = [typed |-> IF pending = "sources" THEN domain.typed ELSE mem.typed,
                       analyzed |-> mem.analyzed]
        BY <2>1, <3>1 DEF Apply
      <3>3. domain' \in Domain
        BY <3>1, <3>2 DEF TypeInv, TypeOK, ValuesTyped, Domain
      <3> QED BY <3>2, <3>3, DomainAssumption
    <2> QED BY <2>1, FileSteps DEF Fresh, Place
  <1> QED BY <1>1, <1>2, <1>3, <1>4 DEF Fresh

(* Only an end without an abort or an error is shown as done.              *)
LEMMA FinalizeDone ==
  ASSUME NEW st \in State, NEW a \in BOOLEAN, NEW t \in BOOLEAN, Finalize(st, a, t) = "done"
  PROVE  st.status = "done" /\ ~st.provisional /\ ~a
  BY DEF Finalize, State

(* How the events of a run change its status.                              *)
LEMMA ReduceFails ==
  ASSUME NEW st \in State
  PROVE  /\ Reduce(st, "error").status = "error" \/ Reduce(st, "error").provisional
         /\ Reduce(st, "skipped").status = "error"
         /\ Reduce(st, "exhausted").status = "error"
         /\ Reduce(st, "stopped").status \in {"error", "cancelled"}
         /\ Reduce(st, "recovered").status = st.status
         /\ Reduce(st, "error").status = st.status
         /\ HardError(st) \in State /\ HardError(st).status = "error"
  BY DEF Reduce, HardError, State

(* A run is shown as done only without an error and not aborted.           *)
LEMMA EndDone ==
  ASSUME TypeInv, NEW st \in State, End(st), result' = "done"
  PROVE  st.status = "done" /\ ~st.provisional /\ ~aborted
  BY FinalizeDone DEF End, TypeInv, TypeOK, FlagsTyped

(* A run that fails is not shown as done.                                  *)
LEMMA FailNotDone ==
  TypeInv /\ (Fail \/ Throw \/ End(Reduce(state, "stopped"))) => result' # "done"
  <1> SUFFICES ASSUME TypeInv, Fail \/ Throw \/ End(Reduce(state, "stopped")) PROVE result' # "done"
    OBVIOUS
  <1>1. state \in State
    BY DEF TypeInv, TypeOK, StatusTyped, State
  <1>2. /\ Reduce(state, "error") \in State /\ Reduce(state, "stopped") \in State
    BY <1>1, ReduceTyped DEF Event
  <1>3. CASE Fail
    BY <1>1, <1>2, <1>3, ReduceFails, EndDone DEF Fail
  <1>4. CASE Throw
    BY <1>1, <1>4, ReduceFails, EndDone DEF Throw
  <1>5. CASE End(Reduce(state, "stopped"))
    BY <1>1, <1>2, <1>5, ReduceFails, EndDone
  <1> QED BY <1>3, <1>4, <1>5

(* A run that returns is shown as done only without an error.              *)
LEMMA ReturnDone == TypeInv /\ Return /\ result' = "done" => state.status = "done" /\ ~aborted
  BY EndDone DEF Return, TypeInv, TypeOK, StatusTyped, State

(* A run is shown as done when it has nothing to do, when its list is      *)
(* empty, or when it is a dry run.                                         *)
LEMMA DoneEndings ==
  TypeInv /\ Next /\ pc # "idle" /\ pc' = "idle" /\ result' = "done" =>
    \/ List /\ target' = {}
    \/ NextFile /\ todo = {} /\ state.status = "done" /\ target' = target /\ began' = began /\ domain' = domain
    \/ dry' = TRUE
  <1> SUFFICES ASSUME TypeInv, Next, pc # "idle", pc' = "idle", result' = "done"
               PROVE  \/ List /\ target' = {}
                      \/ /\ NextFile /\ todo = {} /\ state.status = "done"
                         /\ target' = target /\ began' = began /\ domain' = domain
                      \/ dry' = TRUE
    OBVIOUS
  <1>0. /\ ~(Fail \/ Throw \/ End(Reduce(state, "stopped")))
        /\ Return => state.status = "done" /\ ~aborted
    BY FailNotDone, ReturnDone
  <1> USE <1>0 DEF Goto, Emit, Skip, GiveUp, disk, arguments
  <1>1. CASE Preparing
    BY <1>1 DEF Preparing, List, Prepare, PrepareBootstrap, RecheckAll, Wipe, Create, WriteIndex
  <1>2. CASE Looping
    BY <1>2 DEF Looping, NextFile, Read, Bootstrap, Recheck, Announce
  <1>3. CASE Working
    BY <1>3 DEF Working, Attempt, Ingest, Verify, Failed, EmbeddingFailed, Answer, Record, FileDone
  <1>4. CASE Persist
    BY <1>4 DEF Persist, TypeInv, Control
  <1>5. CASE Start
    BY <1>5 DEF Start
  <1>6. CASE Cancel \/ Timeout \/ Crash \/ \E s \in Source : Edit(s)
    BY <1>6 DEF Cancel, Timeout, Crash, Edit
  <1> QED BY Steps, <1>1, <1>2, <1>3, <1>4, <1>5, <1>6

(* How the list and the status of a run that goes on change.               *)
LEMMA ListSteps ==
  TypeInv /\ Next /\ pc' # "idle" =>
    \/ target' = todo'
    \/ /\ pc # "idle" /\ target' = target /\ began' = began
       /\ state'.status = state.status \/ state'.status = "error"
       /\ \/ todo' = todo
          \/ state'.status = "error"
          \/ FileDone /\ todo' = todo \ {file} /\ mem' = mem /\ domain' = domain
          \/ Read /\ mem = NoDomain /\ mode # "force" /\ ~NeedsBootstrap
  <1> DEFINE Goal ==
        \/ target' = todo'
        \/ /\ pc # "idle" /\ target' = target /\ began' = began
           /\ state'.status = state.status \/ state'.status = "error"
           /\ \/ todo' = todo
              \/ state'.status = "error"
              \/ FileDone /\ todo' = todo \ {file} /\ mem' = mem /\ domain' = domain
              \/ Read /\ mem = NoDomain /\ mode # "force" /\ ~NeedsBootstrap
  <1> SUFFICES ASSUME TypeInv, Next, pc' # "idle" PROVE Goal
    OBVIOUS
  <1>0. /\ Reduce(state, "skipped").status = "error"
        /\ Reduce(state, "exhausted").status = "error"
        /\ Reduce(state, "recovered").status = state.status
    BY ReduceFails DEF TypeInv, TypeOK, StatusTyped, State
  <1> USE <1>0 DEF Return, Fail, Throw, End, Goto, Emit, Skip, GiveUp, disk, arguments
  <1>1. CASE Preparing
    BY <1>1 DEF Preparing, List, Prepare, PrepareBootstrap, RecheckAll, Wipe, Create, WriteIndex
  <1>2. CASE Looping
    <2>1. CASE Read
      BY <2>1 DEF Read, TypeInv, Control
    <2> QED BY <1>2, <2>1 DEF Looping, NextFile, Bootstrap, Recheck, Announce
  <1>3. CASE Working
    <2>1. CASE FileDone
      BY <2>1 DEF FileDone
    <2> QED BY <1>3, <2>1
            DEF Working, Attempt, Ingest, Verify, Failed, EmbeddingFailed, Answer, Record
  <1>4. CASE Persist
    BY <1>4 DEF Persist
  <1>5. CASE Start
    BY <1>5 DEF Start
  <1>6. CASE Cancel \/ Timeout \/ Crash \/ \E s \in Source : Edit(s)
    BY <1>6 DEF Cancel, Timeout, Crash, Edit
  <1> QED BY Steps, <1>1, <1>2, <1>3, <1>4, <1>5, <1>6

(* No run, none is done.                                                   *)
LEMMA ProgressInit == Init => Progress
  <1>1. Init => pc = "idle" /\ target = {}
    BY Zenon DEF Init
  <1> QED BY <1>1 DEF Progress, DoneMeansComplete

(* What is complete stays complete while the run goes on.                  *)
LEMMA CompleteStep ==
  ASSUME TypeInv, InStep, Next, pc' # "idle", pc # "idle", began' = began,
         target # todo, target' # todo',
         NEW s \in Source, s \notin todo, Complete(s)
  PROVE  Complete(s)'
  <1>0. began[s] \in Nat /\ domain.analyzed[s] \in Nat /\ mem.analyzed[s] \in Nat
    BY Begun, Versions DEF Complete
  <1>1. mem' # NoDomain /\ mem'.analyzed[s] >= began'[s]
    <2>1. CASE Record /\ mem'.analyzed = [mem.analyzed EXCEPT ![file] = processed]
      <3>1. mem.analyzed \in Recorded
        BY DEF Complete, TypeInv, TypeOK, ValuesTyped, Domain
      <3>2. file # s
        BY <2>1 DEF Record, TypeInv, TypeOK, WorkTyped, FilePc
      <3>3. mem'.analyzed[s] = mem.analyzed[s]
        BY <2>1, <3>1, <3>2 DEF Recorded
      <3>4. mem' # NoDomain
        BY <2>1, MemRecords DEF Complete, Create, Announce, Start, Verify, Record
      <3> QED BY <3>3, <3>4 DEF Complete
    <2>2. ~(Create \/ Announce \/ Start)
      BY DEF Create, Announce, Start, InStep, ForcePc
    <2> QED BY <2>1, <2>2, MemRecords DEF Complete
  <1>2. domain' # NoDomain /\ domain'.analyzed[s] >= began'[s]
    <2>1. ~Wipe
      BY DEF Wipe, InStep, ForcePc
    <2> QED BY <2>1, DiskRecords DEF Complete
  <1> QED BY <1>1, <1>2 DEF Complete

(* A source leaves the list recorded, or the status is an error.           *)
LEMMA ProgressStep == TypeInv /\ InStep /\ Fresh /\ Progress /\ Next => Progress'
  <1> SUFFICES ASSUME TypeInv, InStep, Fresh, Progress, Next PROVE Progress'
    OBVIOUS
  <1>1. ASSUME pc' # "idle", state'.status # "error", NEW s \in target' \ todo' PROVE Complete(s)'
    <2>1. /\ pc # "idle" /\ target' = target /\ began' = began /\ state.status # "error"
          /\ \/ todo' = todo
             \/ FileDone /\ todo' = todo \ {file} /\ mem' = mem /\ domain' = domain
             \/ Read /\ mem = NoDomain /\ mode # "force" /\ ~NeedsBootstrap
      BY <1>1, ListSteps
    <2>2. \A t \in target \ todo : Complete(t)
      BY <2>1 DEF Progress
    <2>3. s \in Source /\ target # {}
      BY <1>1, <2>1 DEF TypeInv, TypeOK, PlaceTyped
    <2>4. CASE s \notin todo
      BY <1>1, <2>1, <2>2, <2>3, <2>4, CompleteStep
    <2>5. CASE s \in todo /\ FileDone /\ todo' = todo \ {file} /\ mem' = mem /\ domain' = domain
      BY <1>1, <2>1, <2>5 DEF FileDone, Complete, Fresh, Place, TypeInv, TypeOK, WorkTyped
    <2>6. CASE s \in todo /\ Read /\ mem = NoDomain /\ mode # "force" /\ ~NeedsBootstrap
      <3>1. target # todo
        BY <2>6 DEF NeedsBootstrap, Typed
      <3>2. PICK t \in target : t \notin todo
        BY <3>1 DEF TypeInv, TypeOK, PlaceTyped
      <3> QED BY <2>2, <2>6, <3>2 DEF Complete
    <2> QED BY <1>1, <2>1, <2>4, <2>5, <2>6
  <1>2. DoneMeansComplete'
    <2> SUFFICES ASSUME pc' = "idle", result' = "done", ~dry', NEW s \in target'
                 PROVE  domain' # NoDomain /\ domain'.analyzed[s] >= began'[s]
      BY DEF DoneMeansComplete
    <2>1. CASE pc = "idle"
      <3>1. /\ domain' = domain /\ target' = target /\ began' = began /\ dry' = dry
            /\ result' = result
        BY <2>1
           DEF Next, Run, List, Prepare, PrepareBootstrap, RecheckAll, Wipe, Create, WriteIndex,
               NextFile, Read, Bootstrap, Recheck, Announce, Attempt, Ingest, Verify, Failed,
               EmbeddingFailed, Answer, Record, FileDone, Persist, Start, Cancel, Timeout, Crash,
               Edit, arguments
      <3> QED BY <2>1, <3>1 DEF Progress, DoneMeansComplete
    <2>2. CASE pc # "idle"
      <3>1. /\ NextFile /\ todo = {} /\ state.status = "done"
            /\ target' = target /\ began' = began /\ domain' = domain
        BY <2>2, DoneEndings
      <3>2. Complete(s)
        BY <2>2, <3>1 DEF Progress
      <3> QED BY <3>1, <3>2 DEF Complete
    <2> QED BY <2>1, <2>2
  <1> QED BY <1>1, <1>2 DEF Progress

(* What is off the list is complete in every run.                          *)
LEMMA ProgressInvariant == Spec => [](InStep /\ Fresh /\ Progress)
  <1>1. TypeInv /\ InStep /\ Fresh /\ Progress /\ [Next]_vars => (InStep /\ Fresh /\ Progress)'
    <2>1. InStep /\ Fresh /\ Progress /\ UNCHANGED vars => (InStep /\ Fresh /\ Progress)'
      BY DEF vars, disk, arguments, ingest, event, signals, history, bounds,
             InStep, Fresh, Progress, Complete, DoneMeansComplete, Place
    <2> QED BY <2>1, InStepStep, FreshStep, ProgressStep
  <1> QED BY TypeInvariant, InStepInit, FreshInit, ProgressInit, <1>1, PTL DEF Spec

(* A run shown as done recorded everything it set out to, whatever was     *)
(* retried, edited or repeated on the way.                                 *)
THEOREM DoneIsComplete == Spec => []DoneMeansComplete
  <1>1. Progress => DoneMeansComplete
    BY DEF Progress
  <1> QED BY ProgressInvariant, <1>1, PTL
=============================================================================
