---------------------------- MODULE ModelContext ----------------------------
(***************************************************************************)
(* What is known of a model's context window (src/model-context.ts), kept  *)
(* by one store for the whole session, and the budgets derived from it     *)
(* (src/budget-resolver.ts).  Every operation resolves its model first;    *)
(* while it runs, the provider's usage reports and refusals change the     *)
(* record.  Calls of the store overlap wherever it awaits: the first read, *)
(* a probe of the server, a write.                                         *)
(***************************************************************************)
EXTENDS Integers, FiniteSets

CONSTANTS
  Runs,       \* operations that use the store
  Keys,       \* (server, model) pairs
  Windows,    \* the plausible windows a user, a server or a refusal names
  Default,    \* BACKEND_DEFAULT_CONTEXT
  MaxSamples, \* CALIBRATION_WINDOW
  Caps        \* bound: the overrides of a budget, 0 for none

WindowsAssumption ==
  /\ Windows \subseteq Nat \ (0..1023) /\ Default \in Nat \ (0..1023)
  /\ MaxSamples \in Nat /\ Caps \subseteq Nat /\ 0 \in Caps /\ "none" \notin Runs

VARIABLES
  read,       \* whether the store has read its map: cache # null
  stored,     \* whether the settings file has a map; a new one is made otherwise
  cache,      \* Keys -> record, source "none" when there is none
  task,       \* inFlight: Keys -> the probe, with the record it saw and then the one it made
  setting,    \* the window the user typed for a model, 0 for none
  pc, key, configured, got,   \* each operation: where it is, what it asked for
  aborted

vars == <<read, stored, cache, task, setting, pc, key, configured, got, aborted>>
runVars == <<pc, key, configured, got, aborted>>

NoRecord == [window |-> 0, source |-> "none", samples |-> 0, expired |-> FALSE]
NoTask == [owner |-> "none", at |-> "none", seen |-> NoRecord]

Record(window, source, samples) ==
  [window |-> window, source |-> source, samples |-> samples, expired |-> FALSE]

Records == [window : Windows \cup {Default}, source : {"default", "discovered", "learned", "configured"},
            samples : 0..MaxSamples, expired : BOOLEAN] \cup {NoRecord}

Init ==
  /\ read = FALSE /\ stored \in BOOLEAN
  /\ cache = [k \in Keys |-> NoRecord] /\ task = [k \in Keys |-> NoTask]
  /\ setting = [k \in Keys |-> 0]
  /\ pc = [r \in Runs |-> "idle"] /\ key \in [Runs -> Keys]
  /\ configured = [r \in Runs |-> 0] /\ got = [r \in Runs |-> NoRecord]
  /\ aborted = [r \in Runs |-> FALSE]

-----------------------------------------------------------------------------
(* resolveBudget and outputCeiling; share is the divisor of OUTPUT_MAX_SHARE. *)
Least(a, b) == IF a < b THEN a ELSE b
Most(a, b) == IF a > b THEN a ELSE b

OutputBudget(window, base, cap, share) ==
  Most(1, Least(IF cap > 0 THEN cap ELSE base, window \div share))

InputBudget(window, output, cap) ==
  LET room == Most(1, ((window - output) * 9) \div 10)
  IN Least(IF cap > 0 THEN cap ELSE room, room)

OutputCeiling(window, estimated) == Most(1, window - Most(0, estimated))

-----------------------------------------------------------------------------
Usable(record) == record.source \notin {"none", "configured"} /\ ~record.expired

Give(r, record) == pc' = [pc EXCEPT ![r] = "running"] /\ got' = [got EXCEPT ![r] = record]

UnderWay(k) == task[k].owner # "none"

(* resolve after the map is there, up to its next await.                   *)
Decide(r, k, typed, map) ==
  IF typed # 0
  THEN LET record == Record(typed, "configured", map[k].samples)
           same == map[k].source = "configured" /\ map[k].window = typed
       IN /\ cache' = IF same THEN map ELSE [map EXCEPT ![k] = record]
          /\ pc' = [pc EXCEPT ![r] = IF same THEN "running" ELSE "writing"]
          /\ got' = [got EXCEPT ![r] = record] /\ UNCHANGED task
  ELSE /\ cache' = map
       /\ \/ Usable(map[k]) /\ Give(r, map[k]) /\ UNCHANGED task
          \/ /\ ~Usable(map[k]) /\ UnderWay(k)
             /\ pc' = [pc EXCEPT ![r] = "joined"] /\ UNCHANGED <<got, task>>
          \/ /\ ~Usable(map[k]) /\ ~UnderWay(k)
             /\ task' = [task EXCEPT ![k] = [owner |-> r, at |-> "models", seen |-> map[k]]]
             /\ pc' = [pc EXCEPT ![r] = "probing"] /\ UNCHANGED got

(* resolve: the window typed for the model is an argument of the call.     *)
Resolve(r) ==
  /\ pc[r] = "idle" /\ ~aborted[r]
  /\ configured' = [configured EXCEPT ![r] = setting[key[r]]]
  /\ IF read THEN Decide(r, key[r], setting[key[r]], cache)
     ELSE pc' = [pc EXCEPT ![r] = "reading"] /\ UNCHANGED <<cache, task, got>>
  /\ UNCHANGED <<read, stored, setting, key, aborted>>

(* The read of the map returns: the settings' own map, the same object for *)
(* every reader, or a new empty one for each.                              *)
ReadDone(r) ==
  /\ pc[r] = "reading"
  /\ read' = TRUE
  /\ Decide(r, key[r], configured[r], IF stored THEN cache ELSE [k \in Keys |-> NoRecord])
  /\ UNCHANGED <<stored, setting, key, configured, aborted>>

(* The write of a configured record ends, well or badly.                   *)
WriteDone(r) ==
  /\ pc[r] = "writing" /\ Give(r, got[r])
  /\ UNCHANGED <<read, stored, cache, task, setting, key, configured, aborted>>

-----------------------------------------------------------------------------
(* probeContextWindow: the listing, then the model's own page; each answers  *)
(* with a window or with nothing, which the deadline and an abort also give. *)
Waiting(k) == {r \in Runs : key[r] = k /\ (pc[r] = "joined" \/ (task[k].owner = r /\ pc[r] = "probing"))}

Settle(k, record) ==
  /\ cache' = [cache EXCEPT ![k] = record]
  /\ task' = [task EXCEPT ![k].at = "write", ![k].seen = record]
  /\ UNCHANGED pc

(* The caller that began the probe was aborted: the promise is rejected,   *)
(* for the callers that joined it as well.                                 *)
Reject(k) ==
  /\ task' = [task EXCEPT ![k] = NoTask]
  /\ pc' = [r \in Runs |-> IF r \in Waiting(k) THEN IF aborted[r] THEN "cancelled" ELSE "failed" ELSE pc[r]]
  /\ UNCHANGED cache

Probe(k) ==
  /\ task[k].at \in {"models", "show"}
  /\ \E window \in Windows \cup {0} :
       LET samples == task[k].seen.samples
           stopped == aborted[task[k].owner]
       IN \/ /\ window = 0 /\ task[k].at = "models"
             /\ task' = [task EXCEPT ![k].at = "show"] /\ UNCHANGED <<cache, pc>>
          \/ /\ window # 0 \/ task[k].at = "show"
             /\ IF stopped THEN Reject(k)
                ELSE Settle(k, IF window = 0 THEN Record(Default, "default", samples)
                               ELSE Record(window, "discovered", samples))
  /\ UNCHANGED <<read, stored, setting, key, configured, got, aborted>>

(* The write of the probe's record ends; every caller gets that record.    *)
ProbeDone(k) ==
  /\ task[k].at = "write"
  /\ task' = [task EXCEPT ![k] = NoTask]
  /\ pc' = [r \in Runs |-> IF r \in Waiting(k) THEN "running" ELSE pc[r]]
  /\ got' = [r \in Runs |-> IF r \in Waiting(k) THEN task[k].seen ELSE got[r]]
  /\ UNCHANGED <<read, stored, cache, setting, key, configured, aborted>>

-----------------------------------------------------------------------------
(* observeUsage: a sample that is plausible moves the record's calibration, *)
(* of which only the number of samples is kept here.                        *)
ObserveUsage(r) ==
  /\ pc[r] = "running" /\ cache[key[r]] # NoRecord
  /\ cache' = [cache EXCEPT ![key[r]].samples = Least(@ + 1, MaxSamples)]
  /\ UNCHANGED <<read, stored, task, setting, runVars>>

(* observeContextError: a reported window smaller than the one known is    *)
(* learned, unless the user typed the one known.                           *)
ObserveContextError(r) ==
  /\ pc[r] = "running" /\ cache[key[r]].source \notin {"none", "configured"}
  /\ \E reported \in Windows :
       /\ reported < cache[key[r]].window
       /\ cache' = [cache EXCEPT ![key[r]] = Record(reported, "learned", @.samples)]
  /\ UNCHANGED <<read, stored, task, setting, runVars>>

-----------------------------------------------------------------------------
Abort(r) ==
  /\ pc[r] \in {"reading", "writing", "probing", "joined", "running"} /\ ~aborted[r]
  /\ aborted' = [aborted EXCEPT ![r] = TRUE]
  /\ UNCHANGED <<read, stored, cache, task, setting, pc, key, configured, got>>

(* The operation ends and another one starts in its place.                 *)
Leave(r) ==
  /\ pc[r] \in {"running", "cancelled", "failed"}
  /\ pc' = [pc EXCEPT ![r] = "idle"] /\ aborted' = [aborted EXCEPT ![r] = FALSE]
  /\ got' = [got EXCEPT ![r] = NoRecord] /\ configured' = [configured EXCEPT ![r] = 0]
  /\ UNCHANGED <<read, stored, cache, task, setting, key>>

(* A day passes: a window nobody measured is asked for again.              *)
Expire(k) ==
  /\ cache[k].source = "default" /\ ~cache[k].expired
  /\ cache' = [cache EXCEPT ![k].expired = TRUE]
  /\ UNCHANGED <<read, stored, task, setting, runVars>>

TypeWindow(k) ==
  /\ \E w \in Windows \cup {0} : w # setting[k] /\ setting' = [setting EXCEPT ![k] = w]
  /\ UNCHANGED <<read, stored, cache, task, runVars>>

Next ==
  \/ \E r \in Runs : \/ Resolve(r) \/ ReadDone(r) \/ WriteDone(r) \/ ObserveUsage(r)
                     \/ ObserveContextError(r) \/ Abort(r) \/ Leave(r)
  \/ \E k \in Keys : Probe(k) \/ ProbeDone(k) \/ Expire(k) \/ TypeWindow(k)

Spec == Init /\ [][Next]_vars

(* A read, a write and a probe return; the probe by its deadline at the latest. *)
FairSpec == Spec /\ \A r \in Runs : WF_vars(ReadDone(r)) /\ WF_vars(WriteDone(r))
                 /\ \A k \in Keys : WF_vars(Probe(k)) /\ WF_vars(ProbeDone(k))

-----------------------------------------------------------------------------
TypeOK ==
  /\ read \in BOOLEAN /\ stored \in BOOLEAN
  /\ cache \in [Keys -> Records] /\ setting \in [Keys -> Windows \cup {0}]
  /\ task \in [Keys -> [owner : Runs \cup {"none"}, at : {"none", "models", "show", "write"}, seen : Records]]
  /\ pc \in [Runs -> {"idle", "reading", "writing", "probing", "joined", "running", "cancelled", "failed"}]
  /\ key \in [Runs -> Keys] /\ configured \in [Runs -> Windows \cup {0}]
  /\ got \in [Runs -> Records] /\ aborted \in [Runs -> BOOLEAN]
  /\ \A k \in Keys : cache[k].expired => cache[k].source = "default"

(* Of the calls for one model only one is talking to the server            *)
(* (`inFlight`), and each call that waits has a probe that will answer it. *)
OneProbe ==
  \A k \in Keys :
    /\ Cardinality({r \in Runs : key[r] = k /\ pc[r] = "probing"}) <= 1
    /\ \A r \in Runs : key[r] = k /\ pc[r] \in {"probing", "joined"} => task[k].owner # "none"

(* A probe in the table has a caller behind it: a later call never joins   *)
(* one that was already rejected or answered (`.finally` of resolve).      *)
ProbeHasCaller == \A k \in Keys : task[k].owner # "none" => Waiting(k) # {}

(* What a run may send and what it may ask back never exceed the window    *)
(* its budgets were derived from, whatever the overrides: resolveBudget.   *)
BudgetFits ==
  \A r \in Runs : pc[r] = "running" =>
    \A base \in {8192, 32768}, share \in {2, 4}, capIn \in Caps, capOut \in Caps :
      LET window == got[r].window
          output == OutputBudget(window, base, capOut, share)
          input == InputBudget(window, output, capIn)
      IN /\ input >= 1 /\ output >= 1 /\ input + output <= window
         /\ OutputCeiling(window, input) >= output

(* A window learned from a refusal is only widened by a window the user    *)
(* typed or by a probe that began before the refusal: nobody asks the      *)
(* server again about a model whose window it has corrected.               *)
LearnedHolds ==
  \A k \in Keys : cache[k].source = "learned" /\ cache'[k].window > cache[k].window =>
     \/ cache'[k].source = "configured"
     \/ cache'[k].source = "discovered" /\ task[k].seen.source # "learned"
     \/ cache'[k].source = "default" /\ task[k].seen.source # "learned"

(* Every call of resolve returns or throws.                                *)
Pending(r) == pc[r] \in {"reading", "writing", "probing", "joined"}

-----------------------------------------------------------------------------
(* The inductive invariant.  A probe has the caller that began it, and the  *)
(* callers that wait have a probe.                                          *)
Carried ==
  /\ \A k \in Keys :
       /\ UnderWay(k) <=> task[k].at # "none"
       /\ UnderWay(k) => key[task[k].owner] = k /\ pc[task[k].owner] = "probing"
  /\ \A r \in Runs :
       /\ pc[r] = "probing" => task[key[r]].owner = r
       /\ pc[r] = "joined" => UnderWay(key[r])

(* What a caller has, or is going to get, is a record; a probe begins with  *)
(* one that was not learned.                                                *)
Known ==
  /\ \A r \in Runs : pc[r] \in {"running", "writing"} => got[r] # NoRecord
  /\ \A k \in Keys : /\ task[k].at = "write" => task[k].seen # NoRecord
                     /\ task[k].at \in {"models", "show"} => task[k].seen.source # "learned"

Inv == TypeOK /\ Carried /\ Known
=============================================================================
