------------------------------ MODULE InitRun ------------------------------
(***************************************************************************)
(* One run of init at a time (src/phases/init.ts) together with the part   *)
(* of the controller that consumes its events: domain events are written   *)
(* to the domain's metadata before the generator is resumed, the others    *)
(* only decide the status the run is given in the end.                     *)
(*                                                                         *)
(* A source is a number, its content a version that the user's edits make  *)
(* larger; the sources of a run are taken in their order.  The wipe is one *)
(* step (WipeTransaction has the details).  The wiki is reduced to the     *)
(* version of each source whose ingest was completed last, the domain to   *)
(* whether it has entity types and the versions recorded in                *)
(* analyzed_sources.  The user and his edits, the model's answers, the     *)
(* clock, crashes and failing adapter calls are nondeterministic.          *)
(***************************************************************************)
EXTENDS Naturals, FiniteSets

CONSTANTS
  Source, NoDomain,
  MaxVersion, MaxRuns, MaxFaults, MaxCrashes   \* bounds

Version == 0..MaxVersion      \* 0: never
Recorded == [Source -> Version]
Domain == [typed : BOOLEAN, analyzed : Recorded]

ASSUME SourceAssumption == Source \subseteq Nat \ {0} /\ Source # {} /\ IsFiniteSet(Source)
ASSUME DomainAssumption == NoDomain \notin Domain
ASSUME BoundsAssumption == MaxVersion \in Nat \ {0} /\ {MaxRuns, MaxFaults, MaxCrashes} \subseteq Nat

VARIABLES
  domain, pages, content,   \* metadata.jsonl, the wiki and the sources on disk
  mode, dry,                \* the arguments of the run
  pc, todo, file,
  mem,                      \* currentDomain
  processed,                \* the version the bootstrap or the attempt read
  prepared,                 \* of a force run: the contents read before the wipe
  retried,
  pending, after,           \* the domain event handed to the controller, where to go on
  state,                    \* statusState
  aborted, timedOut, result,
  target, began,            \* history: the sources to analyze, all contents at the start
  derived,                  \* history: this run asked for the entity types and got an answer
  known, lost,              \* history: the domain was registered once; a crash or a failed
                            \* call came between its wipe and its registration
  faults, crashes, runs

disk == <<domain, pages, content>>
arguments == <<mode, dry, target, began>>
ingest == <<file, processed, retried>>
event == <<pending, after>>
signals == <<aborted, timedOut>>
history == <<derived, known, lost>>
bounds == <<faults, crashes, runs>>
vars == <<disk, arguments, pc, todo, ingest, mem, prepared, event, state, signals,
          result, history, bounds>>

Mode == {"plain", "sources", "force", "incremental"}
Pc == {"idle", "list", "prepare", "prepareBootstrap", "recheckAll", "wipe", "create",
       "index", "next", "read", "bootstrap", "recheck", "announce", "attempt", "ingest",
       "verify", "failed", "embedding", "ask", "record", "persist", "done"}
Event == {"error", "recovered", "skipped", "exhausted", "stopped"}

None == [s \in Source |-> 0]
Typed(d) == d # NoDomain /\ d.typed
RecordedIn(d) == IF d = NoDomain THEN {} ELSE {s \in Source : d.analyzed[s] # 0}

(* reduceRunStatus and finalizeRunStatus of src/run-status.ts              *)
InitialStatus == [status |-> "done", provisional |-> FALSE]
(* A mutated form: a skipped source does not decide the status.            *)
ReduceLenient(st, ev) ==
  IF st.status = "error" THEN st
  ELSE CASE ev = "error" -> [st EXCEPT !.provisional = TRUE]
         [] ev = "recovered" -> [st EXCEPT !.provisional = FALSE]
         [] ev \in {"skipped", "exhausted"} -> st
         [] ev = "stopped" -> [st EXCEPT !.status = "cancelled"]
Reduce(st, ev) ==
  IF st.status = "error" THEN st
  ELSE CASE ev = "error" -> [st EXCEPT !.provisional = TRUE]
         [] ev = "recovered" -> [st EXCEPT !.provisional = FALSE]
         [] ev \in {"skipped", "exhausted"} -> [st EXCEPT !.status = "error"]
         [] ev = "stopped" -> [st EXCEPT !.status = "cancelled"]
HardError(st) == [st EXCEPT !.status = "error"]
Finalize(st, wasAborted, wasTimedOut) ==
  IF st.status = "error" \/ wasTimedOut \/ st.provisional THEN "error"
  ELSE IF wasAborted THEN "cancelled" ELSE st.status

(* applyDomainEvent of src/domain.ts, the event's contents being in mem.   *)
Apply(kind, d) ==
  IF kind = "created" THEN IF d = NoDomain THEN mem ELSE d
  ELSE IF d = NoDomain THEN d
  ELSE [typed |-> IF kind = "sources" THEN d.typed ELSE mem.typed,
        analyzed |-> IF kind = "types" THEN d.analyzed ELSE mem.analyzed]

Init ==
  /\ domain \in {NoDomain, [typed |-> FALSE, analyzed |-> None]}
  /\ pages = None /\ content = [s \in Source |-> 1]
  /\ mode = "plain" /\ dry = FALSE
  /\ pc = "idle" /\ todo = {} /\ file = 0
  /\ mem = NoDomain /\ processed = 0 /\ prepared = None /\ retried = FALSE
  /\ pending = "created" /\ after = "idle"
  /\ state = InitialStatus /\ aborted = FALSE /\ timedOut = FALSE /\ result = "none"
  /\ target = {} /\ began = content
  /\ derived = FALSE /\ known = (domain # NoDomain) /\ lost = FALSE
  /\ faults = 0 /\ crashes = 0 /\ runs = 0

Fault == faults < MaxFaults /\ faults' = faults + 1 /\ UNCHANGED <<crashes, runs>>
NoFault == UNCHANGED bounds
(* The wipe took the domain's metadata and nothing has put it back yet.    *)
Unregistered == mode = "force" /\ domain = NoDomain

End(st) == pc' = "idle" /\ state' = st /\ result' = Finalize(st, aborted, timedOut)
Goto(label) == pc' = label /\ UNCHANGED <<state, result>>
Return == End(state)
Fail == End(Reduce(state, "error"))

(* An exception that the run does not catch, and the controller does.      *)
Throw == Fault /\ End(HardError(state)) /\ lost' = (lost \/ Unregistered)
Kept == UNCHANGED lost
Emit(kind, next) == pending' = kind /\ after' = next /\ Goto("persist")

-----------------------------------------------------------------------------
(* The domains are loaded when the run is built, and the arguments checked. *)
Refused(m) ==
  \/ m = "plain" /\ (domain = NoDomain \/ Typed(domain))
  \/ m = "force" /\ domain = NoDomain
  \/ m = "incremental" /\ ~Typed(domain)

Changed == {s \in Source : domain.analyzed[s] # content[s]}

Start ==
  /\ pc = "idle" /\ runs < MaxRuns /\ runs' = runs + 1
  /\ mode' \in Mode
  /\ dry' \in {FALSE, mode' = "plain"}
  /\ mem' = domain /\ began' = content /\ prepared' = None
  /\ file' = 0 /\ processed' = 0 /\ retried' = FALSE
  /\ aborted' = FALSE /\ timedOut' = FALSE /\ derived' = FALSE /\ todo' = {} /\ target' = {}
  /\ IF Refused(mode')
       THEN pc' = "idle" /\ state' = Reduce(InitialStatus, "error") /\ result' = "error"
       ELSE /\ pc' = IF mode' = "force" THEN "prepare" ELSE "list"
            /\ state' = InitialStatus /\ result' = "none"
  /\ UNCHANGED <<disk, event, known, lost, faults, crashes>>

(* A domain with entity types is resumed: recorded sources are left out.   *)
(* The caller may name some of the sources only.                           *)
List ==
  /\ pc = "list"
  /\ \/ /\ NoFault /\ Kept
        /\ \E named \in IF mode = "sources" THEN (SUBSET Source) \ {{}} ELSE {Source} :
             target' = IF mode = "incremental" THEN Changed
                       ELSE IF Typed(mem) THEN named \ RecordedIn(mem) ELSE named
        /\ todo' = target'
        /\ IF todo' = {} THEN Return ELSE Goto("next")
     \/ Throw /\ UNCHANGED <<todo, target>>
  /\ UNCHANGED <<disk, mode, dry, began, ingest, mem, prepared, event, signals, derived, known>>

-----------------------------------------------------------------------------
(* Force: all sources are read, the bootstrap is made from the first one,  *)
(* and the sources are read again, before the wipe.                        *)
Prepare ==
  /\ pc = "prepare" /\ Kept
  /\ \/ NoFault /\ prepared' = content /\ Goto("prepareBootstrap")
     \/ Fault /\ Fail /\ UNCHANGED prepared
  /\ UNCHANGED <<disk, arguments, todo, ingest, mem, event, signals, derived, known>>

PrepareBootstrap ==
  /\ pc = "prepareBootstrap" /\ Kept /\ NoFault
  /\ \/ ~aborted /\ Goto("recheckAll") /\ derived' = TRUE
     \/ Fail /\ UNCHANGED derived
     \/ aborted /\ Return /\ UNCHANGED derived
  /\ UNCHANGED <<disk, arguments, todo, ingest, mem, prepared, event, signals, known>>

RecheckAll ==
  /\ pc = "recheckAll" /\ Kept
  /\ \/ NoFault /\ IF aborted THEN Return
                   ELSE IF content # prepared THEN Fail ELSE Goto("wipe")
     \/ Fault /\ Fail
  /\ UNCHANGED <<disk, arguments, todo, ingest, mem, prepared, event, signals, derived, known>>

(* The wipe takes the metadata with the pages.  One that fails restores    *)
(* both, unless its rollback fails too.                                    *)
Wipe ==
  /\ pc = "wipe"
  /\ \/ /\ NoFault /\ Kept /\ ~aborted
        /\ domain' = NoDomain /\ pages' = None /\ Goto("create")
     \/ NoFault /\ Kept /\ Fail /\ UNCHANGED <<domain, pages>>
     \/ Fault /\ Fail /\ domain' = NoDomain /\ pages' = None /\ lost' = TRUE
  /\ UNCHANGED <<content, arguments, todo, ingest, mem, prepared, event, signals, derived, known>>

(* A mutated form: a run cancelled during the wipe stops here.             *)
CreateUnlessAborted ==
  /\ pc = "create" /\ NoFault /\ Kept
  /\ \E typed \in {TRUE, Typed(mem)} : mem' = [typed |-> typed, analyzed |-> None]
        /\ todo' = Source /\ target' = Source
  /\ IF aborted THEN Return /\ UNCHANGED event ELSE Emit("created", "index")
  /\ UNCHANGED <<disk, mode, dry, began, ingest, prepared, signals, derived, known>>

(* A cancelled run still registers the domain again, from the bootstrap:   *)
(* the types it had and those the model named, which may be none.          *)
Create ==
  /\ pc = "create"
  /\ \/ /\ NoFault /\ Kept
        /\ \E typed \in {TRUE, Typed(mem)} : mem' = [typed |-> typed, analyzed |-> None]
        /\ todo' = Source /\ target' = Source
        /\ Emit("created", "index")
     \/ Throw /\ UNCHANGED <<mem, todo, target, event>>
  /\ UNCHANGED <<disk, mode, dry, began, ingest, prepared, signals, derived, known>>

WriteIndex ==
  /\ pc = "index"
  /\ (NoFault /\ Kept /\ Goto("next")) \/ Throw
  /\ UNCHANGED <<disk, arguments, todo, ingest, mem, prepared, event, signals, derived, known>>

-----------------------------------------------------------------------------
(* The loop over the sources.                                              *)
NextFile ==
  /\ pc = "next" /\ NoFault /\ Kept /\ retried' = FALSE
  /\ IF aborted \/ (todo = {} /\ mem # NoDomain) THEN Return /\ UNCHANGED <<file, processed>>
     ELSE IF todo = {} THEN Fail /\ UNCHANGED <<file, processed>>
     ELSE /\ file' \in todo /\ (\A s \in todo : file' <= s) /\ processed' = 0
          /\ Goto(IF mode = "incremental" THEN "attempt" ELSE "read")
  /\ UNCHANGED <<disk, arguments, todo, mem, prepared, event, signals, derived, known>>

Skip(st) == pc' = "next" /\ state' = st /\ todo' = todo \ {file} /\ UNCHANGED result

(* i === 0 && !isResuming && !bootstrapApplied                             *)
NeedsBootstrap == todo = target /\ mode # "force" /\ ~Typed(mem)

(* The contents a force run prepared are not read again here.              *)
Read ==
  /\ pc = "read" /\ Kept
  /\ \/ mode # "force" /\ Fault /\ Skip(Reduce(state, "skipped")) /\ UNCHANGED processed
     \/ /\ NoFault
        /\ IF NeedsBootstrap
             THEN processed' = content[file] /\ Goto("bootstrap") /\ UNCHANGED todo
           ELSE IF mem = NoDomain
             THEN Skip(state) /\ UNCHANGED processed
           ELSE Goto("attempt") /\ UNCHANGED <<processed, todo>>
  /\ UNCHANGED <<disk, arguments, file, retried, mem, prepared, event, signals, derived, known>>

Bootstrap ==
  /\ pc = "bootstrap" /\ Kept /\ NoFault
  /\ \/ ~aborted /\ Goto("recheck") /\ derived' = TRUE
     \/ Fail /\ UNCHANGED derived
     \/ aborted /\ Return /\ UNCHANGED derived
  /\ UNCHANGED <<disk, arguments, todo, ingest, mem, prepared, event, signals, known>>

(* The bootstrap may have taken minutes: its source must not have changed. *)
Recheck ==
  /\ pc = "recheck" /\ Kept
  /\ \/ NoFault /\ IF content[file] # processed THEN Fail
                   ELSE IF dry THEN Return ELSE Goto("announce")
     \/ Fault /\ Fail
  /\ UNCHANGED <<disk, arguments, todo, ingest, mem, prepared, event, signals, derived, known>>

Announce ==
  /\ pc = "announce" /\ Kept
  /\ \E typed \in BOOLEAN : mem' = [typed |-> typed, analyzed |-> None]
  /\ \/ /\ NoFault
        /\ IF content[file] # processed THEN Fail /\ UNCHANGED event
           ELSE Emit(IF mem = NoDomain THEN "created" ELSE "both", "attempt")
     \/ Fault /\ Fail /\ UNCHANGED event
  /\ UNCHANGED <<disk, arguments, todo, ingest, prepared, signals, derived, known>>

(* runIngest reads the source itself.                                      *)
Attempt ==
  /\ pc = "attempt" /\ Kept
  /\ \/ NoFault /\ aborted /\ Return /\ UNCHANGED processed
     \/ NoFault /\ ~aborted /\ processed' = content[file] /\ Goto("ingest")
     \/ Fault /\ Goto("failed") /\ UNCHANGED processed
  /\ UNCHANGED <<disk, arguments, todo, file, retried, mem, prepared, event, signals, derived, known>>

(* All pages written, or a failure anywhere before that.                   *)
Ingest ==
  /\ pc = "ingest" /\ NoFault /\ Kept
  /\ \/ Goto("failed") /\ UNCHANGED pages
     \/ Goto("embedding") /\ UNCHANGED pages
     \/ ~aborted /\ pages' = [pages EXCEPT ![file] = processed] /\ Goto("verify")
  /\ UNCHANGED <<domain, content, arguments, todo, ingest, mem, prepared, event, signals, derived, known>>

(* The source is read once more, its backlinks are written, and the ingest *)
(* may report entity types it found.                                       *)
Verify ==
  /\ pc = "verify" /\ Kept
  /\ \/ NoFault /\ content[file] # processed /\ Goto("failed") /\ UNCHANGED <<mem, event>>
     \/ NoFault /\ content[file] = processed /\ Goto("record") /\ UNCHANGED <<mem, event>>
     \/ /\ NoFault /\ content[file] = processed
        /\ mem' = [mem EXCEPT !.typed = TRUE] /\ Emit("types", "record")
     \/ Fault /\ Goto("failed") /\ UNCHANGED <<mem, event>>
  /\ UNCHANGED <<disk, arguments, todo, ingest, prepared, signals, derived, known>>

(* onFileError is given whenever the caller names the sources.             *)
Asks == mode # "plain"
GiveUp == Skip(Reduce(state, IF retried THEN "exhausted" ELSE "skipped"))

(* Without a dialog every failure is a skip.  An abort that comes after    *)
(* this check finds the dialog open.                                       *)
Failed ==
  /\ pc = "failed" /\ NoFault /\ Kept
  /\ IF aborted THEN Return /\ UNCHANGED todo
     ELSE IF Asks THEN Goto("ask") /\ UNCHANGED todo
     ELSE GiveUp
  /\ UNCHANGED <<disk, arguments, ingest, mem, prepared, event, signals, derived, known>>

(* Without embeddings no other source would fare better.                   *)
EmbeddingFailed ==
  /\ pc = "embedding" /\ NoFault /\ Kept
  /\ IF aborted THEN Return ELSE Fail
  /\ UNCHANGED <<disk, arguments, todo, ingest, mem, prepared, event, signals, derived, known>>

(* A mutated form: the retry does not read the source again.               *)
AnswerUnread ==
  /\ pc = "ask" /\ NoFault /\ Kept
  /\ ~aborted /\ ~retried /\ retried' = TRUE /\ Goto("ingest")
  /\ UNCHANGED <<disk, arguments, todo, file, processed, mem, prepared, event, signals, derived, known>>

(* The user's choice; retrying is offered once, and only for a failure     *)
(* that is retryable.                                                      *)
Answer ==
  /\ pc = "ask" /\ NoFault /\ Kept
  /\ \/ aborted /\ Return /\ UNCHANGED <<todo, retried>>
     \/ ~aborted /\ End(Reduce(state, "stopped")) /\ UNCHANGED <<todo, retried>>
     \/ ~aborted /\ ~retried /\ retried' = TRUE /\ Goto("attempt") /\ UNCHANGED todo
     \/ ~aborted /\ GiveUp /\ UNCHANGED retried
  /\ UNCHANGED <<disk, arguments, file, processed, mem, prepared, event, signals, derived, known>>

(* A mutated form: what is recorded is the source as it is now.            *)
RecordFresh ==
  /\ pc = "record" /\ NoFault /\ Kept
  /\ mem' = [mem EXCEPT !.analyzed[file] = content[file]]
  /\ pending' = "both" /\ after' = "done" /\ pc' = "persist" /\ UNCHANGED <<result, state>>
  /\ UNCHANGED <<disk, arguments, todo, ingest, prepared, signals, derived, known>>

Record ==
  /\ pc = "record" /\ NoFault /\ Kept
  /\ IF aborted
       THEN Return /\ UNCHANGED <<mem, event>>
       ELSE /\ mem' = [mem EXCEPT !.analyzed[file] = processed]
            /\ pending' = IF mode = "incremental" THEN "sources" ELSE "both"
            /\ after' = "done" /\ pc' = "persist" /\ UNCHANGED result
            /\ state' = IF retried THEN Reduce(state, "recovered") ELSE state
  /\ UNCHANGED <<disk, arguments, todo, ingest, prepared, signals, derived, known>>

FileDone ==
  /\ pc = "done" /\ NoFault /\ Kept /\ Skip(state)
  /\ UNCHANGED <<disk, arguments, ingest, mem, prepared, event, signals, derived, known>>

-----------------------------------------------------------------------------
(* The controller: load, applyDomainEvent, save.  If that fails the run is *)
(* aborted and its generator closed; the file may have been written.       *)
Persist ==
  /\ pc = "persist"
  /\ \/ NoFault /\ Kept /\ domain' = Apply(pending, domain) /\ Goto(after)
     \/ Throw /\ domain' \in {domain, Apply(pending, domain)}
  /\ known' = (known \/ domain' # NoDomain)
  /\ UNCHANGED <<pages, content, arguments, todo, ingest, mem, prepared, event, signals, derived>>

Cancel ==
  /\ pc # "idle" /\ ~aborted /\ aborted' = TRUE
  /\ UNCHANGED <<disk, arguments, pc, todo, ingest, mem, prepared, event, state, timedOut,
                 result, history, bounds>>

Timeout ==
  /\ pc # "idle" /\ ~timedOut /\ timedOut' = TRUE /\ aborted' = TRUE
  /\ UNCHANGED <<disk, arguments, pc, todo, ingest, mem, prepared, event, state, result,
                 history, bounds>>

(* The application is closed.                                              *)
Crash ==
  /\ pc # "idle" /\ crashes < MaxCrashes /\ crashes' = crashes + 1
  /\ pc' = "idle" /\ result' = "none" /\ lost' = (lost \/ Unregistered)
  /\ UNCHANGED <<disk, arguments, todo, ingest, mem, prepared, event, state, signals,
                 derived, known, faults, runs>>

Edit(s) ==
  /\ content[s] < MaxVersion /\ content' = [content EXCEPT ![s] = @ + 1]
  /\ UNCHANGED <<domain, pages, arguments, pc, todo, ingest, mem, prepared, event, state,
                 signals, result, history, bounds>>

Run == \/ List \/ Prepare \/ PrepareBootstrap \/ RecheckAll \/ Wipe \/ Create \/ WriteIndex
       \/ NextFile \/ Read \/ Bootstrap \/ Recheck \/ Announce \/ Attempt \/ Ingest
       \/ Verify \/ Failed \/ EmbeddingFailed \/ Record \/ FileDone \/ Persist

Next == Run \/ Start \/ Answer \/ Cancel \/ Timeout \/ Crash \/ \E s \in Source : Edit(s)

Spec == Init /\ [][Next]_vars

(* Every await of the run is resumed; nobody has to answer the dialog.     *)
FairSpec == Spec /\ WF_vars(Run)
-----------------------------------------------------------------------------
FilePc == {"read", "bootstrap", "recheck", "announce", "attempt", "ingest", "verify",
           "failed", "embedding", "ask", "record", "done"}

ValuesTyped ==
  /\ domain \in Domain \cup {NoDomain} /\ mem \in Domain \cup {NoDomain}
  /\ pages \in Recorded /\ content \in Recorded
  /\ prepared \in Recorded /\ began \in Recorded
FlagsTyped ==
  /\ dry \in BOOLEAN /\ retried \in BOOLEAN /\ aborted \in BOOLEAN /\ timedOut \in BOOLEAN
  /\ derived \in BOOLEAN /\ known \in BOOLEAN /\ lost \in BOOLEAN
StatusTyped ==
  /\ state \in [status : {"done", "error", "cancelled"}, provisional : BOOLEAN]
  /\ result \in {"none", "done", "error", "cancelled"}
PlaceTyped ==
  /\ mode \in Mode /\ pc \in Pc /\ after \in Pc \ {"persist"}
  /\ pending \in {"created", "both", "types", "sources"}
  /\ target \subseteq Source /\ todo \subseteq target /\ processed \in Version
CountersTyped ==
  faults \in 0..MaxFaults /\ crashes \in 0..MaxCrashes /\ runs \in 0..MaxRuns
WorkTyped ==
  /\ pc \in FilePc => file \in todo
  /\ pc \in {"ingest", "verify", "record", "done"} => mem # NoDomain /\ processed # 0

(* Every variable has its range; a source is being worked on while the     *)
(* loop is in it, with the version that was read.                          *)
TypeOK == /\ ValuesTyped /\ FlagsTyped /\ StatusTyped /\ PlaceTyped
          /\ CountersTyped /\ WorkTyped

(* What analyzed_sources says of a source is never ahead of the wiki: the  *)
(* recorded version, or a later one, was ingested completely since the     *)
(* last wipe, whatever was edited, cancelled, repeated or lost meanwhile.  *)
(* A resumed and an incremental run leave sources out on its word.         *)
RecordedIsIngested ==
  domain # NoDomain => \A s \in Source : domain.analyzed[s] <= pages[s]

(* A run shown as done has recorded on disk every source it set out to     *)
(* analyze, in a version no older than the one there was when it began.    *)
DoneMeansComplete ==
  pc = "idle" /\ result = "done" /\ ~dry =>
    \A s \in target : domain # NoDomain /\ domain.analyzed[s] >= began[s]

(* The wipe of a force run deletes the domain's registration with its      *)
(* pages; however the run ends, unless a call failed or the application    *)
(* was closed in between, the domain is registered again.                  *)
DomainSurvives ==
  pc = "idle" /\ known /\ ~lost => domain # NoDomain

(* Every run comes to an end or to a dialog that waits for the user.       *)
Pending == pc \notin {"idle", "ask"}
=============================================================================
