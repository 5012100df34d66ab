-------------------------- MODULE DeleteTransaction --------------------------
(***************************************************************************)
(* Deleting one source from a wiki domain: the write-ahead journal kept    *)
(* by runDelete (src/phases/delete.ts), the per-file protocol of           *)
(* TransactionVaultTools and the rollback of src/file-transaction.ts, and  *)
(* the publication of the result through the controller                    *)
(* (persistDeleteStateCommitEvent, src/delete-state-dispatch.ts).          *)
(*                                                                         *)
(* The vault, the journal file and the domain metadata are durable; the    *)
(* rest is the memory of one run and is lost when Obsidian is closed       *)
(* (Crash).  A person or a sync client may change governed files and the   *)
(* metadata at any point where the run awaits (EditFile, EditMetadata).    *)
(* An adapter call may fail before or after it took effect (faults).       *)
(*                                                                         *)
(* A step that reads several files is one action: reads of distinct files  *)
(* commute with edits of the others.                                       *)
(***************************************************************************)
EXTENDS Naturals, Sequences

CONSTANTS
  Path,         \* every file the deletion governs
  Source,       \* the source being deleted
  Index,        \* the domain's index file
  Log,          \* the domain's operation log
  ToRebuild,    \* pages of the plan that other sources also feed
  ToDelete,     \* pages of the plan that only Source feeds
  Backlinks,    \* the remaining sources, whose backlinks are cleaned
  Writable,     \* what re-ingesting a remaining source may write
  Rejected,     \* planned pages whose path validateArticlePath refuses
  Content,      \* contents the program writes
  Foreign,      \* contents only an external editor writes
  Absent,       \* the image of a file that does not exist
  Initial,      \* the vault before the deletion
  Hash,         \* analyzed_sources hashes of Source
  Gone,         \* the metadata without Source
  None,
  Remaining,    \* how many remaining sources are re-ingested
  ClosedWindows, \* TRUE: no edit lands between a check and the call it guards
  MaxMutations, MaxEdits, MaxCrashes, MaxFaults   \* bounds of an instance

Image == Content \cup Foreign \cup {Absent}
Mutation == [path : Path, before : Image, after : Image]
Status == {"prepared", "active", "committed", "publishing", "published", "rollback"}
Journal == [status : Status, complete : BOOLEAN, mutations : Seq(Mutation),
            prepared : Mutation \cup {None}, base : Hash \cup {Gone}]

ASSUME PathsAssumption ==
  /\ {Source, Index, Log} \subseteq Path
  /\ ToRebuild \cup ToDelete \cup Backlinks \cup Writable \cup Rejected
       \subseteq Path \ {Source}
ASSUME ImagesAssumption ==
  /\ Absent \notin Content \cup Foreign
  /\ Initial \in [Path -> Image]
  /\ Initial[Source] # Absent
ASSUME TokensAssumption ==
  None \notin Mutation \cup Journal \cup Image /\ Gone \notin Hash
ASSUME BoundsAssumption ==
  /\ {Remaining, MaxMutations, MaxEdits, MaxCrashes, MaxFaults} \subseteq Nat
  /\ ClosedWindows \in BOOLEAN

VARIABLES
  vault,        \* durable: the governed files
  journal,      \* durable: delete-journal.json, None when there is none
  metadata,     \* durable: what the domain metadata says of Source
  pc, mode,     \* where the run is; "run" or "recover"
  stage, todo, left,   \* part of the plan, its files and sources to come
  planned,      \* the images read when the plan was made
  mem, raw,     \* the journal object, and journalRaw, its last known text
  change,       \* the mutation captureMutation works on, None outside
  trustworthy,  \* TransactionVaultTools.trustworthy
  failing,      \* controlledFailure
  cursor, rollbackError, journalError,   \* the rollback loop
  snapshot,     \* the metadata a recovery, or readExactMetadata, has read
  aborted,      \* the run's AbortSignal
  dirty,        \* history: files an external editor has touched
  published,    \* history: the metadata write of the deletion took effect
  edits, crashes, faults

durable == <<vault, journal, metadata>>
plan == <<stage, todo, left, planned>>
rollback == <<cursor, rollbackError, journalError>>
env == <<dirty, published, edits, crashes>>
vars == <<durable, pc, mode, plan, mem, raw, change, trustworthy, failing,
          rollback, snapshot, aborted, env, faults>>

NoJournal == [status |-> "prepared", complete |-> TRUE, mutations |-> <<>>,
              prepared |-> None, base |-> Gone]
CommittedStatus == {"committed", "publishing", "published"}
Stage == {"wipe", "rebuild", "purge", "backlink", "source", "log", "commit"}
ConfirmPc == {"confirm", "confirmError"}
ForwardPc == {"activate", "stage", "reindex", "capture", "prepare", "postWal",
              "mutate"} \cup ConfirmPc
RollbackPc == {"rollCheck", "rollWrite", "rollVerify"}
PublishPc == {"verify", "publish", "snapshot", "recheck", "compare", "save",
              "readBack", "seal", "receipt", "cleanup"}
Pc == ForwardPc \cup RollbackPc \cup PublishPc \cup {"idle", "fail", "unjournal"}

-----------------------------------------------------------------------------
(* parseDeleteJournal: what a journal text must satisfy to be accepted.    *)

Touches(ms, p) == \E i \in DOMAIN ms : ms[i].path = p

LastOn(ms, p) == CHOOSE i \in DOMAIN ms :
  ms[i].path = p /\ \A k \in DOMAIN ms : ms[k].path = p => k <= i

FirstOn(ms, p) == CHOOSE i \in DOMAIN ms :
  ms[i].path = p /\ \A k \in DOMAIN ms : ms[k].path = p => i <= k

Chained(ms, m) == Touches(ms, m.path) => ms[LastOn(ms, m.path)].after = m.before

ValidJournal(j) ==
  /\ j.status = "prepared" => j.complete /\ j.mutations = <<>> /\ j.prepared = None
  /\ j.status \in CommittedStatus =>
       /\ j.complete /\ j.prepared = None
       /\ Touches(j.mutations, Source)
       /\ j.mutations[FirstOn(j.mutations, Source)].before # Absent
       /\ j.mutations[LastOn(j.mutations, Source)].after = Absent
  /\ \A i \in DOMAIN j.mutations : Chained(SubSeq(j.mutations, 1, i - 1), j.mutations[i])
  /\ j.prepared # None => Chained(j.mutations, j.prepared)

(* A mutated form: only that the file is known to the manifest.            *)
ManifestNames(j) == \A p \in Path : Touches(j.mutations, p) => vault[p] \in Image

(* verifyCommittedManifest                                                 *)
ManifestHolds(j) == \A p \in Path :
  Touches(j.mutations, p) => vault[p] = j.mutations[LastOn(j.mutations, p)].after

(* writeJournalCasExact either verifies what it wrote or throws: on an     *)
(* invalid journal, on a CAS conflict, or when the adapter fails, in which *)
(* case the text may or may not have reached the disk.                     *)
Written(j) ==
  /\ ValidJournal(j) /\ journal = raw
  /\ journal' = j /\ raw' = j
  /\ UNCHANGED faults

WriteThrows(j) ==
  /\ UNCHANGED raw
  /\ \/ (~ValidJournal(j) \/ journal # raw) /\ UNCHANGED <<journal, faults>>
     \/ /\ ValidJournal(j) /\ journal = raw
        /\ faults < MaxFaults /\ faults' = faults + 1
        /\ journal' \in {journal, j}

Fault == faults < MaxFaults /\ faults' = faults + 1

(* The memory of a run when none is active.                                *)
Rest ==
  /\ pc' = "idle" /\ mode' = "run"
  /\ stage' = "wipe" /\ todo' = {} /\ left' = 0 /\ planned' = Initial
  /\ mem' = NoJournal /\ raw' = None /\ change' = None
  /\ trustworthy' = TRUE /\ failing' = FALSE
  /\ cursor' = 0 /\ rollbackError' = FALSE /\ journalError' = FALSE
  /\ snapshot' = Gone /\ aborted' = FALSE

Init ==
  /\ vault = Initial /\ journal = None /\ metadata \in Hash
  /\ pc = "idle" /\ mode = "run"
  /\ stage = "wipe" /\ todo = {} /\ left = 0 /\ planned = Initial
  /\ mem = NoJournal /\ raw = None /\ change = None
  /\ trustworthy = TRUE /\ failing = FALSE
  /\ cursor = 0 /\ rollbackError = FALSE /\ journalError = FALSE
  /\ snapshot = Gone /\ aborted = FALSE
  /\ dirty = {} /\ published = FALSE
  /\ edits = 0 /\ crashes = 0 /\ faults = 0

-----------------------------------------------------------------------------
(* A run without a pending journal: read every page and source, then write *)
(* the prepared and the active journal.  A target that is no longer in the *)
(* inventory is refused before anything is written.                        *)
Begin ==
  /\ pc = "idle" /\ journal = None /\ ~published
  /\ vault[Source] # Absent
  /\ LET j == [NoJournal EXCEPT !.base = metadata] IN
       \/ /\ journal' = j /\ raw' = j /\ mem' = j
          /\ planned' = vault
          /\ stage' = "wipe" /\ todo' = {p \in ToRebuild : vault[p] # Absent}
          /\ left' = Remaining
          /\ pc' = "activate"
          /\ UNCHANGED <<mode, change, trustworthy, failing, rollback, snapshot,
                         aborted, faults>>
       \/ Fault /\ journal' \in {None, j} /\ Rest
  /\ UNCHANGED <<vault, metadata, env>>

Activate ==
  /\ pc = "activate"
  /\ LET j == [mem EXCEPT !.status = "active"] IN
       \/ /\ Written(j) /\ mem' = j /\ pc' = "stage"
          /\ UNCHANGED <<vault, metadata, mode, plan, change, trustworthy,
                         failing, rollback, snapshot, aborted, env>>
       \/ /\ \/ journal # raw /\ UNCHANGED <<journal, faults>>
             \/ Fault /\ journal' \in {journal, j}
          /\ Rest /\ UNCHANGED <<vault, metadata, env>>

(* captureMutation is called with the image its caller expects to find.    *)
Attempt(p, image) ==
  /\ change' = [path |-> p, before |-> vault[p], after |-> image]
  /\ pc' = "capture"

AttemptPlanned(p) ==
  /\ change' = [path |-> p, before |-> planned[p], after |-> Absent]
  /\ pc' = "capture"

stageUnchanged == UNCHANGED <<durable, mode, planned, mem, raw, trustworthy,
                              rollback, snapshot, aborted, env, faults>>

(* safeRemovePage: a planned page is removed if it still is what was       *)
(* planned, then its records are dropped from the index (Reindex).         *)
RemovePage ==
  /\ pc = "stage" /\ stage \in {"wipe", "purge"}
  /\ \E p \in todo :
       /\ ~aborted
       /\ todo' = todo \ {p}
       /\ IF p \in Rejected
            THEN pc' = "fail" /\ failing' = TRUE /\ UNCHANGED change
            ELSE AttemptPlanned(p) /\ UNCHANGED failing
  /\ stageUnchanged /\ UNCHANGED <<stage, left>>

Reindex ==
  /\ pc = "reindex"
  /\ \/ /\ Len(mem.mutations) < MaxMutations
        /\ \E c \in Content \ {vault[Index]} : Attempt(Index, c)
     \/ pc' = "stage" /\ UNCHANGED change
  /\ stageUnchanged /\ UNCHANGED <<stage, todo, left, failing>>

(* A remaining source is re-ingested inside the transaction: any writes    *)
(* and removals, then success or failure.  A failed source does not stop   *)
(* the others, it makes the run fail after them.                           *)
RebuildWrite ==
  /\ pc = "stage" /\ stage = "rebuild" /\ left > 0
  /\ Len(mem.mutations) < MaxMutations
  /\ \E p \in Writable, c \in (Content \cup {Absent}) :
       c # vault[p] /\ Attempt(p, c)
  /\ stageUnchanged /\ UNCHANGED <<stage, todo, left, failing>>

RebuildSource ==
  /\ pc = "stage" /\ stage = "rebuild" /\ left > 0
  /\ left' = left - 1
  /\ \E ok \in BOOLEAN : failing' = (failing \/ ~ok)
  /\ stageUnchanged /\ UNCHANGED <<pc, stage, todo, change>>

(* Backlink cleanup and the deferred operation log rewrite a file they     *)
(* have just read, unless it needs no change.                              *)
Rewrite ==
  /\ pc = "stage" /\ stage \in {"backlink", "log"}
  /\ \E p \in todo :
       /\ todo' = todo \ {p}
       /\ \/ /\ Len(mem.mutations) < MaxMutations
             /\ \E c \in Content \ {vault[p]} : Attempt(p, c)
          \/ UNCHANGED <<pc, change>>
  /\ stageUnchanged /\ UNCHANGED <<stage, left, failing>>

RemoveSource ==
  /\ pc = "stage" /\ stage = "source" /\ Source \in todo
  /\ todo' = {}
  /\ AttemptPlanned(Source)
  /\ stageUnchanged /\ UNCHANGED <<stage, left, failing>>

(* The stages in their order; an abort is noticed before each page of      *)
(* "wipe" and "purge" and before and after each source of "rebuild".       *)
Stop ==
  /\ pc = "stage"
  /\ \/ aborted /\ stage \in {"wipe", "purge"} /\ todo # {}
     \/ aborted /\ stage = "rebuild"
     \/ failing /\ stage = "rebuild" /\ left = 0
  /\ failing' = TRUE /\ pc' = "fail"
  /\ stageUnchanged /\ UNCHANGED <<stage, todo, left, change>>

Follows == [wipe |-> "rebuild", rebuild |-> "purge", purge |-> "backlink",
            backlink |-> "source", source |-> "log", log |-> "commit"]

FilesOf(s) ==
  CASE s = "purge" -> {p \in ToDelete : planned[p] # Absent}
    [] s = "backlink" -> Backlinks
    [] s = "source" -> {Source}
    [] s = "log" -> {Log}
    [] OTHER -> {}

NextStage ==
  /\ pc = "stage" /\ stage # "commit" /\ todo = {}
  /\ stage = "rebuild" => left = 0 /\ ~failing /\ ~aborted
  /\ stage' = Follows[stage]
  /\ todo' = FilesOf(Follows[stage])
  /\ stageUnchanged /\ UNCHANGED <<pc, left, change, failing>>

-----------------------------------------------------------------------------
(* captureMutation.  An error inside a re-ingest is caught there and makes *)
(* that source fail; anywhere else it ends the forward part of the run.    *)
Thrown ==
  /\ change' = None
  /\ IF stage = "rebuild"
       THEN pc' = "stage" /\ failing' = TRUE /\ left' = left - 1
       ELSE pc' = "fail" /\ UNCHANGED <<failing, left>>

captureUnchanged == UNCHANGED <<metadata, mode, stage, todo, planned, rollback,
                                snapshot, aborted, env>>

Capture ==
  /\ pc = "capture"
  /\ LET p == change.path
         thirdState == /\ Touches(mem.mutations, p)
                       /\ vault[p] # mem.mutations[LastOn(mem.mutations, p)].after
     IN IF vault[p] # change.before
          THEN Thrown /\ UNCHANGED trustworthy
          ELSE IF thirdState
          THEN Thrown /\ trustworthy' = FALSE
          ELSE IF vault[p] = change.after
          THEN Thrown /\ UNCHANGED trustworthy
          ELSE pc' = "prepare" /\ UNCHANGED <<change, failing, left, trustworthy>>
  /\ captureUnchanged /\ UNCHANGED <<vault, journal, mem, raw, faults>>

(* The journal's prepare hook makes the authority durable first.  It says  *)
(* the manifest is complete and replaces whatever was prepared before.     *)
Prepare ==
  /\ pc = "prepare"
  /\ LET j == [mem EXCEPT !.status = "active", !.complete = TRUE,
                          !.prepared = change]
     IN \/ Written(j) /\ mem' = j /\ pc' = "postWal"
             /\ UNCHANGED <<change, failing, left>>
        \/ WriteThrows(j) /\ Thrown /\ UNCHANGED mem
  /\ captureUnchanged /\ UNCHANGED <<vault, trustworthy>>

(* A mutated form: the second read is left out.                            *)
PostWalUnchecked ==
  /\ pc = "postWal" /\ pc' = "mutate"
  /\ captureUnchanged
  /\ UNCHANGED <<vault, journal, mem, raw, faults, change, failing, left, trustworthy>>

(* The file is read again: an edit made while the journal was written is   *)
(* not overwritten.                                                        *)
PostWal ==
  /\ pc = "postWal"
  /\ IF vault[change.path] = change.before
       THEN pc' = "mutate" /\ UNCHANGED <<change, failing, left, trustworthy>>
       ELSE Thrown /\ trustworthy' = FALSE
  /\ captureUnchanged /\ UNCHANGED <<vault, journal, mem, raw, faults>>

(* The adapter call: done; silently without effect; or it throws, done or  *)
(* not.                                                                    *)
Mutate ==
  /\ pc = "mutate"
  /\ LET done == [vault EXCEPT ![change.path] = change.after] IN
       \/ vault' = done /\ pc' = "confirm" /\ UNCHANGED faults
       \/ vault' = vault /\ pc' = "confirm" /\ Fault
       \/ vault' \in {vault, done} /\ pc' = "confirmError" /\ Fault
  /\ captureUnchanged
  /\ UNCHANGED <<journal, mem, raw, change, failing, left, trustworthy>>

(* After a removal of a page its index records are dropped next.           *)
AfterCommit ==
  /\ change' = None
  /\ pc' = IF stage \in {"wipe", "purge"} /\ change.path # Index
             THEN "reindex" ELSE "stage"
  /\ UNCHANGED <<failing, left>>

(* The commit hook: the prepared mutation joins the manifest.  The error   *)
(* of a call that threw although it took effect is rethrown after that.    *)
ConfirmDone ==
  /\ pc \in ConfirmPc /\ vault[change.path] = change.after
  /\ LET j == [mem EXCEPT !.status = "active", !.complete = TRUE,
                          !.mutations = Append(@, change), !.prepared = None]
     IN \/ /\ Written(j) /\ mem' = j
           /\ IF pc = "confirm" THEN AfterCommit ELSE Thrown
           /\ UNCHANGED trustworthy
        \/ WriteThrows(j) /\ Thrown /\ UNCHANGED mem /\ trustworthy' = FALSE
  /\ captureUnchanged /\ UNCHANGED vault

(* The abort hook: the call had no effect, the authority is withdrawn.     *)
ConfirmNoEffect ==
  /\ pc \in ConfirmPc /\ vault[change.path] = change.before
  /\ LET j == [mem EXCEPT !.status = "active", !.complete = TRUE,
                          !.prepared = None]
     IN \/ Written(j) /\ mem' = j /\ UNCHANGED trustworthy
        \/ WriteThrows(j) /\ UNCHANGED mem /\ trustworthy' = FALSE
  /\ Thrown
  /\ captureUnchanged /\ UNCHANGED vault

(* Neither image, or the file cannot be read: the step is not trusted.     *)
ConfirmUntrusted ==
  /\ pc \in ConfirmPc
  /\ \/ vault[change.path] \notin {change.before, change.after} /\ UNCHANGED faults
     \/ Fault
  /\ Thrown /\ trustworthy' = FALSE
  /\ captureUnchanged /\ UNCHANGED <<vault, journal, mem, raw>>

-----------------------------------------------------------------------------
(* The committed journal and its manifest check end the forward part.      *)
Commit ==
  /\ pc = "stage" /\ stage = "commit"
  /\ LET j == [mem EXCEPT !.status = "committed", !.complete = trustworthy] IN
       /\ mem' = j
       /\ \/ Written(j) /\ pc' = "verify"
          \/ WriteThrows(j) /\ pc' = "fail"
  /\ UNCHANGED <<vault, metadata, mode, plan, change, trustworthy, failing,
                 rollback, snapshot, aborted, env>>

Verify ==
  /\ pc = "verify"
  /\ pc' = IF ManifestHolds(mem) THEN "publish" ELSE "fail"
  /\ UNCHANGED <<durable, mode, plan, mem, raw, change, trustworthy, failing,
                 rollback, snapshot, aborted, env, faults>>

(* Mutated forms: off by one at either side.                               *)
StartRollbackPast(je) ==
  /\ pc' = "rollCheck" /\ cursor' = Len(mem.mutations) + 1
  /\ rollbackError' = FALSE /\ journalError' = je

StartRollbackShort(je) ==
  /\ pc' = "rollCheck"
  /\ cursor' = IF mem.mutations = <<>> THEN 0 ELSE Len(mem.mutations) - 1
  /\ rollbackError' = FALSE /\ journalError' = je

StartRollback(je) ==
  /\ pc' = "rollCheck" /\ cursor' = Len(mem.mutations)
  /\ rollbackError' = FALSE /\ journalError' = je

(* The failure path first records in the journal why it rolls back.        *)
Fail ==
  /\ pc = "fail"
  /\ LET j == IF mem.status = "committed" THEN [mem EXCEPT !.status = "rollback"]
              ELSE [mem EXCEPT !.status = "active", !.complete = FALSE]
     IN IF mem.status # "committed" /\ trustworthy
          THEN StartRollback(FALSE) /\ UNCHANGED <<journal, mem, raw, faults, mode,
                 plan, change, trustworthy, failing, snapshot, aborted>>
          ELSE \/ /\ Written(j) /\ mem' = j /\ StartRollback(FALSE)
                  /\ UNCHANGED <<mode, plan, change, trustworthy, failing,
                                 snapshot, aborted>>
               \/ /\ mode = "run"
                  /\ WriteThrows(j) /\ StartRollback(TRUE)
                  /\ UNCHANGED <<mem, mode, plan, change, trustworthy, failing,
                                 snapshot, aborted>>
               \/ /\ mode = "recover"
                  /\ \/ Fault /\ journal' \in {journal, j}
                     \/ (~ValidJournal(j) \/ journal # raw) /\ UNCHANGED <<journal, faults>>
                  /\ Rest
  /\ UNCHANGED <<vault, metadata, env>>

(* rollbackFileMutations: newest first; an entry whose file is neither its *)
(* before- nor its after-image is a conflict, remembered while the others  *)
(* are still undone.                                                       *)
rollUnchanged == UNCHANGED <<journal, metadata, mode, plan, mem, raw, change,
  trustworthy, failing, journalError, snapshot, aborted, env>>

RollCheck ==
  /\ pc = "rollCheck" /\ cursor > 0
  /\ LET m == mem.mutations[cursor]
         now == vault[m.path]
     IN \/ /\ now = m.before
           /\ cursor' = cursor - 1 /\ UNCHANGED <<pc, rollbackError, faults>>
        \/ /\ now = m.after /\ now # m.before
           /\ pc' = "rollWrite" /\ UNCHANGED <<cursor, rollbackError, faults>>
        \/ /\ \/ now \notin {m.before, m.after} /\ UNCHANGED faults
              \/ Fault
           /\ rollbackError' = TRUE
           /\ cursor' = cursor - 1 /\ UNCHANGED pc
  /\ rollUnchanged /\ UNCHANGED vault

RollWrite ==
  /\ pc = "rollWrite"
  /\ LET m == mem.mutations[cursor]
     IN \/ /\ vault' = [vault EXCEPT ![m.path] = m.before]
           /\ pc' = "rollVerify" /\ UNCHANGED <<cursor, rollbackError, faults>>
        \/ /\ Fault
           /\ vault' \in {vault, [vault EXCEPT ![m.path] = m.before]}
           /\ rollbackError' = TRUE
           /\ cursor' = cursor - 1 /\ pc' = "rollCheck"
  /\ rollUnchanged

RollVerify ==
  /\ pc = "rollVerify"
  /\ LET m == mem.mutations[cursor]
     IN rollbackError' = (rollbackError \/ vault[m.path] # m.before)
  /\ cursor' = cursor - 1 /\ pc' = "rollCheck"
  /\ rollUnchanged /\ UNCHANGED <<vault, faults>>

(* A mutated form: an undecided prepared mutation is not looked at.        *)
RetainedUnlessUndone ==
  \/ rollbackError \/ journalError
  \/ mem.status \in {"committed", "rollback"}
  \/ IF mode = "run" THEN ~trustworthy ELSE ~mem.complete

(* The journal goes only if everything was undone and nothing is in doubt. *)
Retained ==
  \/ rollbackError \/ journalError
  \/ mem.status \in {"committed", "rollback"}
  \/ IF mode = "run" THEN ~trustworthy ELSE ~mem.complete \/ mem.prepared # None

RollDone ==
  /\ pc = "rollCheck" /\ cursor = 0
  /\ UNCHANGED <<vault, journal, metadata, env, faults>>
  /\ IF Retained
       THEN Rest
       ELSE /\ pc' = "unjournal"
            /\ UNCHANGED <<mode, plan, mem, raw, change, trustworthy, failing,
                           rollback, snapshot, aborted>>

(* removeJournalCasExact.  A recovery that ends here goes on as a new run: *)
(* the model lets it rest first.                                           *)
Unjournal ==
  /\ pc = "unjournal"
  /\ \/ journal = raw /\ journal' = None /\ UNCHANGED faults
     \/ journal # raw /\ UNCHANGED <<journal, faults>>
     \/ Fault /\ UNCHANGED journal
  /\ Rest /\ UNCHANGED <<vault, metadata, env>>

-----------------------------------------------------------------------------
(* A mutated form: a published journal is rolled back as any other.        *)
RecoverByRollback ==
  /\ pc = "idle" /\ journal # None
  /\ journal.status # "publishing"
  /\ mode' = "recover" /\ mem' = journal /\ raw' = journal
  /\ snapshot' = metadata
  /\ pc' = "rollCheck" /\ cursor' = Len(journal.mutations)
  /\ rollbackError' = FALSE /\ journalError' = FALSE
  /\ UNCHANGED <<durable, plan, change, trustworthy, failing, aborted, env, faults>>

(* A run that finds a journal settles it before anything else.  A journal  *)
(* left in "publishing" is refused: no action of the program changes it.   *)
Recover ==
  /\ pc = "idle" /\ journal # None
  /\ journal.status # "publishing"
  /\ mode' = "recover" /\ mem' = journal /\ raw' = journal
  /\ snapshot' = metadata
  /\ CASE journal.status = "prepared" -> pc' = "unjournal" /\ UNCHANGED rollback
       [] journal.status \in {"active", "rollback"} ->
            /\ pc' = "rollCheck" /\ cursor' = Len(journal.mutations)
            /\ rollbackError' = FALSE /\ journalError' = FALSE
       [] journal.status = "committed" -> pc' = "verify" /\ UNCHANGED rollback
       [] journal.status = "published" -> pc' = "cleanup" /\ UNCHANGED rollback
  /\ UNCHANGED <<durable, plan, change, trustworthy, failing, aborted, env, faults>>

(* A mutated form: any metadata will do.                                   *)
DeltasAlwaysApply(state) == state \in Hash \cup {Gone}

(* applyJournalDomainDeltas accepts the metadata it was planned on, or one *)
(* that has already lost the source.                                       *)
DeltasApply(state) == state \in {mem.base, Gone}

quiet == UNCHANGED <<mode, plan, change, trustworthy, failing, rollback, aborted>>

Publish ==
  /\ pc = "publish"
  /\ LET j == [mem EXCEPT !.status = "publishing"] IN
       \/ /\ mode = "recover" => DeltasApply(snapshot)
          /\ Written(j) /\ mem' = j /\ pc' = "snapshot"
          /\ quiet /\ UNCHANGED snapshot
       \/ /\ mode = "recover" => DeltasApply(snapshot)
          /\ Fault /\ journal' \in {journal, j}
          /\ Rest
       \/ /\ \/ mode = "recover" /\ ~DeltasApply(snapshot)
             \/ ~ValidJournal(j) \/ journal # raw
          /\ UNCHANGED <<journal, faults>> /\ Rest
  /\ UNCHANGED <<vault, metadata, env>>

(* persistDeleteStateCommitEvent, run by the controller while the          *)
(* generator is suspended at its yield.  Whatever it throws leaves the     *)
(* event without a receipt, and the run ends on the missing receipt.       *)
Precondition == journal = mem /\ journal.status = "publishing" /\ ManifestHolds(mem)

Snapshot ==
  /\ pc = "snapshot"
  /\ IF Precondition /\ DeltasApply(metadata)
       THEN /\ pc' = "recheck" /\ snapshot' = metadata
            /\ quiet /\ UNCHANGED <<mem, raw>>
       ELSE Rest
  /\ UNCHANGED <<durable, env, faults>>

Recheck ==
  /\ pc = "recheck"
  /\ IF Precondition
       THEN pc' = "compare" /\ quiet /\ UNCHANGED <<mem, raw, snapshot>>
       ELSE Rest
  /\ UNCHANGED <<durable, env, faults>>

(* writeExactMetadata reads the metadata once more and compares it with    *)
(* the snapshot; metadata that needs no change is not written.             *)
Compare ==
  /\ pc = "compare"
  /\ IF metadata = snapshot
       THEN /\ pc' = IF snapshot = Gone THEN "seal" ELSE "save"
            /\ published' = (published \/ snapshot = Gone)
            /\ quiet /\ UNCHANGED <<mem, raw, snapshot>>
       ELSE Rest /\ UNCHANGED published
  /\ UNCHANGED <<durable, dirty, edits, crashes, faults>>

(* It writes, whatever the metadata says by then.                          *)
Save ==
  /\ pc = "save"
  /\ \/ /\ metadata' = Gone /\ published' = TRUE
        /\ pc' = "readBack"
        /\ quiet /\ UNCHANGED <<mem, raw, snapshot, faults>>
     \/ /\ Fault
        /\ \/ metadata' = Gone /\ published' = TRUE
           \/ UNCHANGED <<metadata, published>>
        /\ Rest
  /\ UNCHANGED <<vault, journal, dirty, edits, crashes>>

(* It reads back what it wrote, and throws when somebody wrote since.      *)
ReadBack ==
  /\ pc = "readBack"
  /\ IF metadata = Gone
       THEN pc' = "seal" /\ quiet /\ UNCHANGED <<mem, raw, snapshot>>
       ELSE Rest
  /\ UNCHANGED <<durable, env, faults>>

Seal ==
  /\ pc = "seal"
  /\ LET j == [mem EXCEPT !.status = "published"] IN
       \/ /\ Precondition /\ Written(j) /\ mem' = j /\ pc' = "receipt"
          /\ quiet /\ UNCHANGED snapshot
       \/ Precondition /\ Fault /\ journal' \in {journal, j} /\ Rest
       \/ ~(Precondition /\ journal = raw) /\ UNCHANGED <<journal, faults>> /\ Rest
  /\ UNCHANGED <<vault, metadata, env>>

Receipt ==
  /\ pc = "receipt"
  /\ IF journal = mem /\ ManifestHolds(mem)
       THEN pc' = "cleanup" /\ quiet /\ UNCHANGED <<mem, raw, snapshot>>
       ELSE Rest
  /\ UNCHANGED <<durable, env, faults>>

Cleanup ==
  /\ pc = "cleanup"
  /\ \/ journal = raw /\ ManifestHolds(mem) /\ journal' = None /\ UNCHANGED faults
     \/ ~(journal = raw /\ ManifestHolds(mem)) /\ UNCHANGED <<journal, faults>>
     \/ Fault /\ UNCHANGED journal
  /\ Rest /\ UNCHANGED <<vault, metadata, env>>

-----------------------------------------------------------------------------
(* The environment.                                                        *)
memory == <<pc, mode, plan, mem, raw, change, trustworthy, failing, rollback,
            snapshot>>

EditFile(p) ==
  /\ edits < MaxEdits /\ edits' = edits + 1
  /\ ClosedWindows => pc \notin {"mutate", "rollWrite"}
  /\ \E image \in Image \ {vault[p]} : vault' = [vault EXCEPT ![p] = image]
  /\ dirty' = dirty \cup {p}
  /\ UNCHANGED <<journal, metadata, memory, aborted, published, crashes, faults>>

EditMetadata ==
  /\ edits < MaxEdits /\ edits' = edits + 1
  /\ ClosedWindows => pc # "save"
  /\ \E h \in Hash \ {metadata} : metadata' = h
  /\ UNCHANGED <<vault, journal, memory, aborted, dirty, published, crashes, faults>>

Abort ==
  /\ pc # "idle" /\ ~aborted
  /\ aborted' = TRUE
  /\ UNCHANGED <<durable, memory, env, faults>>

Crash ==
  /\ pc # "idle"
  /\ crashes < MaxCrashes /\ crashes' = crashes + 1
  /\ Rest /\ UNCHANGED <<durable, dirty, published, edits, faults>>

Forward == Activate \/ RemovePage \/ Reindex \/ RebuildWrite \/ RebuildSource
  \/ Rewrite \/ RemoveSource \/ Stop \/ NextStage
Protocol == Capture \/ Prepare \/ PostWal \/ Mutate \/ ConfirmDone
  \/ ConfirmNoEffect \/ ConfirmUntrusted
Undo == Fail \/ RollCheck \/ RollWrite \/ RollVerify \/ RollDone \/ Unjournal
Publication == Commit \/ Verify \/ Publish \/ Snapshot \/ Recheck \/ Compare \/ Save
  \/ ReadBack \/ Seal \/ Receipt \/ Cleanup

Running == Forward \/ Protocol \/ Undo \/ Publication
Program == Begin \/ Recover \/ Running
Environment == (\E p \in Path : EditFile(p)) \/ EditMetadata \/ Abort \/ Crash

Next == Program \/ Environment

Spec == Init /\ [][Next]_vars
FairSpec == Spec /\ WF_vars(Running)
-----------------------------------------------------------------------------
FilesTyped ==
  /\ vault \in [Path -> Image] /\ planned \in [Path -> Image]
  /\ metadata \in Hash \cup {Gone} /\ snapshot \in Hash \cup {Gone}
  /\ todo \subseteq Path /\ dirty \subseteq Path
  /\ change \in Mutation \cup {None}
JournalsTyped ==
  /\ journal \in Journal \cup {None} /\ raw \in Journal \cup {None}
  /\ mem \in Journal
PlaceTyped ==
  /\ pc \in Pc /\ mode \in {"run", "recover"} /\ stage \in Stage
  /\ {trustworthy, failing, rollbackError, journalError, aborted, published}
       \subseteq BOOLEAN
CountersTyped ==
  /\ {left, edits, crashes, faults} \subseteq Nat
  /\ cursor \in 0 .. Len(mem.mutations)

(* Type invariant of the disk, the journals and the memory of the run; the *)
(* rollback loop never points outside the manifest it undoes.              *)
TypeOK == FilesTyped /\ JournalsTyped /\ PlaceTyped /\ CountersTyped

(* What undoing the durable journal would leave at p: the before-image of  *)
(* its first mutation of p.                                                *)
Undone(p) ==
  IF journal = None THEN vault[p]
  ELSE IF Touches(journal.mutations, p)
  THEN journal.mutations[FirstOn(journal.mutations, p)].before
  ELSE IF journal.prepared # None /\ journal.prepared.path = p
  THEN journal.prepared.before
  ELSE vault[p]

(* Until the metadata says the source is gone, every original image of a   *)
(* file no one else touched can be had from the disk alone: it is in the   *)
(* vault, or it is the first before-image of the journal.  With no journal *)
(* left the vault is as it was: a delete that fails, is cancelled or is    *)
(* cut short never leaves a half-rebuilt wiki it has forgotten about.      *)
OriginalsRecoverable ==
  ~published => \A p \in Path \ dirty : Undone(p) = Initial[p]

(* The metadata forgets a source only when its file is gone: the commit    *)
(* event is applied after the manifest was verified, never before.         *)
ForgottenIsDeleted ==
  published => Source \in dirty \/ vault[Source] = Absent

(* Write-ahead: whatever image the program replaces is in the durable      *)
(* journal at that moment, as the before-image of the step being taken or  *)
(* as the after-image of the step being undone.  Edits that landed while   *)
(* the journal was being written are therefore never overwritten.          *)
WriteAhead == [][
  \A p \in Path : vault'[p] # vault[p] =>
    \/ edits' # edits
    \/ journal.prepared # None
         /\ journal.prepared = [path |-> p, before |-> vault[p], after |-> vault'[p]]
    \/ \E i \in DOMAIN journal.mutations :
         journal.mutations[i] = [path |-> p, before |-> vault'[p], after |-> vault[p]]
  ]_vars

(* The source is struck off only from the metadata the deletion was        *)
(* planned on: a change of its analysis that lands before the last         *)
(* comparison is never overwritten.  One that lands between it and the     *)
(* write would be: closed windows leave it out.                            *)
MetadataEditsKept == [][
  metadata # Gone /\ metadata' = Gone => metadata = mem.base]_vars

(* Publication is final and happens once: the program changes neither the  *)
(* governed files nor the metadata afterwards, whatever a later run finds. *)
PublishedIsFinal == [][published /\ edits' = edits
                         => UNCHANGED <<vault, metadata>>]_vars

(* The store as recovery would leave it is the abstract one: all of the    *)
(* deletion shows at the metadata write, none of it before.                *)
Atomic == INSTANCE AtomicDelete WITH
  store <- [p \in Path |-> IF p \in dirty THEN None
                           ELSE IF published THEN vault[p] ELSE Undone(p)],
  touched <- dirty, done <- published, Unknown <- None

ImplementsAtomicDelete == Atomic!Spec

(* What the repository says of recovery, and the code does not keep: see   *)
(* the findings in the README.                                             *)

(* A restart restores the bytes (tests/delete-index-integrity.test.ts):    *)
(* with no journal left and nothing published, the originals are back.     *)
RestartRestores ==
  journal = None /\ ~published => \A p \in Path \ dirty : vault[p] = Initial[p]

(* Every run ends, with or without edits, crashes and failing calls.       *)
Pending == pc # "idle"
=============================================================================
