----------------------------- MODULE RunDispatch -----------------------------
(***************************************************************************)
(* One operation from the click to the history (WikiController.dispatch,   *)
(* dispatchChat; AgentRunner.run; the reduction of its events to a         *)
(* status). The controller keeps one `current` abort controller, one log   *)
(* label and one view for all runs; what is asked of them at the start of  *)
(* a dispatch may have changed when its awaits are over.  The pages a run  *)
(* writes are cached as a graph under their paths and lengths only.        *)
(***************************************************************************)
EXTENDS Naturals, Sequences, TLAPS

CONSTANTS
  Runs,         \* bound: clicks that reach the controller
  QuickClicks,  \* whether a click may come while an earlier one is being prepared
  MaxEvents,    \* bound: events a run yields
  HistoryLimit, \* settings.historyLimit
  NoRun

DispatchAssumption == HistoryLimit \in Nat \ {0} /\ MaxEvents \in Nat

VARIABLES
  run,      \* what each dispatch has done
  current,  \* the run whose controller cancelCurrent and isBusy see
  label,    \* _currentLogMeta: the run it was set for
  view,     \* what the view shows: the run at work, or NoRun
  history,  \* settings.history
  graph,    \* the cached graph: none, of the pages as they are, or of older ones
  unlabelled \* ghost: runs with a record logged under no label or another's

vars == <<run, current, label, view, history, graph, unlabelled>>

Kinds == {"write", "read", "chat"} \* ingest, lint, init; query, format, delete; follow-up chat
Fresh == [at |-> "idle", kind |-> "read", aborted |-> FALSE, timed |-> FALSE, status |-> "done",
          provisional |-> FALSE, mutated |-> FALSE, events |-> 0, source |-> FALSE, failed |-> "no", stopped |-> FALSE]

Init ==
  /\ run = [r \in Runs |-> Fresh] /\ current = NoRun /\ label = NoRun /\ view = NoRun
  /\ history = <<>> /\ graph = "none" /\ unlabelled = {}

-----------------------------------------------------------------------------
(* The status of a run (run-status.ts).                                    *)
HardError(s) == [s EXCEPT !.status = "error"]

Reduce(s, e) ==
  IF s.status = "error" THEN s
  ELSE CASE e = "error" -> [s EXCEPT !.provisional = TRUE]
         [] e = "recovered" -> [s EXCEPT !.provisional = FALSE]
         [] e \in {"exit", "skipped", "exhausted"} -> HardError(s)
         [] e = "stopped" -> [s EXCEPT !.status = "cancelled"]
         [] OTHER -> s

Finalize(s) ==
  IF s.status = "error" \/ s.timed \/ s.provisional THEN "error"
  ELSE IF s.aborted THEN "cancelled" ELSE s.status

-----------------------------------------------------------------------------
Is(r, at) == run[r].at = at
Goes(r, s) == run' = [run EXCEPT ![r] = s]
To(r, at) == Goes(r, [run[r] EXCEPT !.at = at])
Logs(r) == unlabelled' = IF label = r THEN unlabelled ELSE unlabelled \cup {r}

(* isBusy sees a run that has its controller; the local settings are read. *)
Dispatch(r, k) ==
  /\ Is(r, "idle") /\ run[r].events = 0 /\ current = NoRun
  /\ QuickClicks \/ \A q \in Runs : run[q].at \in {"idle", "over"}
  /\ Goes(r, [Fresh EXCEPT !.at = "settings", !.kind = k])
  /\ UNCHANGED <<current, label, view, history, graph, unlabelled>>

(* No key and no address: refused.  Otherwise the label of the log is set. *)
SettingsRead(r) ==
  /\ Is(r, "settings")
  /\ \/ To(r, "over") /\ UNCHANGED label
     \/ To(r, "preparing") /\ label' = r
  /\ UNCHANGED <<current, view, history, graph, unlabelled>>

(* A mutated form: the run works with a controller nobody else knows.      *)
PreparedAlone(r) ==
  /\ Is(r, "preparing")
  /\ \/ To(r, "over") \/ To(r, "started")
  /\ UNCHANGED <<current, label, view, history, graph, unlabelled>>

(* ensureView and buildAgentRunner, each of which may end the dispatch; then *)
(* the run has its controller.                                               *)
Prepared(r) ==
  /\ Is(r, "preparing")
  /\ \/ To(r, "over") /\ UNCHANGED current
     \/ To(r, "started") /\ current' = r
  /\ UNCHANGED <<label, view, history, graph, unlabelled>>

(* The start is logged; the view shows the run, and the timer is set.      *)
Started(r) ==
  /\ Is(r, "started") /\ To(r, "probe") /\ Logs(r) /\ view' = r
  /\ UNCHANGED <<current, label, history, graph>>

(* AgentRunner.run: the model's window is looked up first; a cancelled run *)
(* yields nothing, a lookup that fails throws.                             *)
Probed(r) ==
  /\ Is(r, "probe")
  /\ \/ ~run[r].aborted /\ To(r, "work") /\ Logs(r)
     \/ run[r].aborted /\ To(r, "closing") /\ UNCHANGED unlabelled
     \/ Goes(r, [HardError(run[r]) EXCEPT !.at = "closing", !.failed = "yes"]) /\ UNCHANGED unlabelled
  /\ UNCHANGED <<current, label, view, history, graph>>

(* The events a run yields, as far as the dispatch tells them apart.  The          *)
(* outcome of a source that failed comes before anything else of the run; pages    *)
(* are written long before an outcome says so, and by some operations without one. *)
Yields(s) ==
  IF s.source THEN {"plain", "recovered", "skipped", "exhausted", "stopped"}
  ELSE {"plain", "error", "exit"} \cup (IF s.kind = "write" THEN {"pages", "done"} ELSE {})

(* Whether something failed for good, may still recover, or nothing did.   *)
Failure(before, e) ==
  CASE e \in {"exit", "skipped", "exhausted"} -> "yes"
    [] e = "error" /\ before = "no" -> "open"
    [] e = "recovered" /\ before = "open" -> "no"
    [] OTHER -> before

(* A run after its event e: the status as it is reduced, and what the wiki and the *)
(* sources of the run went through.                                                *)
After(s, e) ==
  [Reduce(s, e) EXCEPT !.events = @ + 1, !.mutated = @ \/ e = "done",
                       !.source = (e = "error" /\ s.kind = "write"),
                       !.stopped = @ \/ e = "stopped", !.failed = Failure(@, e)]

Yield(r, e) ==
  /\ Is(r, "work") /\ run[r].events < MaxEvents /\ e \in Yields(run[r])
  /\ Goes(r, After(run[r], e))
  /\ graph' = IF e \in {"done", "pages"} /\ graph # "none" THEN "stale" ELSE graph
  /\ Logs(r) /\ UNCHANGED <<current, label, view, history>>

(* A change of the registry, or of a deletion's state, that the dispatch makes *)
(* when its event arrives: it may change nothing, and when it fails the run is *)
(* aborted and left.                                                           *)
Persist(r) ==
  /\ Is(r, "work") /\ run[r].kind # "chat" /\ run[r].events < MaxEvents
  /\ \/ \E changed \in BOOLEAN : Goes(r, [run[r] EXCEPT !.events = @ + 1, !.mutated = @ \/ changed])
     \/ Goes(r, [HardError(run[r]) EXCEPT !.aborted = TRUE, !.at = "closing", !.failed = "yes"])
  /\ Logs(r) /\ UNCHANGED <<current, label, view, history, graph>>

(* A query or a lint reads the graph of the pages, from the cache if their *)
(* lengths are what they were.                                             *)
ReadGraph(r) ==
  /\ Is(r, "work") /\ run[r].events < MaxEvents
  /\ \/ graph' = "fresh"
     \/ graph = "stale" /\ graph' = "stale"
  /\ Goes(r, [run[r] EXCEPT !.events = @ + 1])
  /\ UNCHANGED <<current, label, view, history, unlabelled>>

(* The stream of events ends, or throws; an aborted run ends the one or the other way. *)
Ends(r) ==
  /\ Is(r, "work")
  /\ \/ To(r, "closing") /\ UNCHANGED unlabelled
     \/ Goes(r, [HardError(run[r]) EXCEPT !.at = "closing", !.failed = "yes"]) /\ (Logs(r) \/ UNCHANGED unlabelled)
  /\ UNCHANGED <<current, label, view, history, graph>>

CancelCurrent ==
  /\ current # NoRun /\ ~run[current].aborted
  /\ run' = [run EXCEPT ![current].aborted = TRUE]
  /\ UNCHANGED <<current, label, view, history, graph, unlabelled>>

Timeout(r) ==
  /\ run[r].at \in {"probe", "work"} /\ run[r].kind # "chat" /\ ~run[r].timed
  /\ Goes(r, [run[r] EXCEPT !.timed = TRUE, !.aborted = TRUE])
  /\ UNCHANGED <<current, label, view, history, graph, unlabelled>>

(* The finally block: nothing is current any more; a chat keeps its label until *)
(* its last record is logged.                                                   *)
Close(r) ==
  /\ Is(r, "closing") /\ To(r, "finish")
  /\ current' = NoRun
  /\ label' = IF run[r].kind = "chat" THEN label ELSE NoRun
  /\ UNCHANGED <<view, history, graph, unlabelled>>

(* The status is settled; what a run that changed the wiki left in the cache goes; *)
(* the last record is logged.                                                      *)
Finish(r) ==
  /\ Is(r, "finish") /\ Logs(r)
  /\ IF run[r].kind = "chat"
       THEN To(r, "over") /\ label' = NoRun /\ view' = NoRun /\ UNCHANGED graph
       ELSE /\ To(r, "record") /\ UNCHANGED <<label, view>>
            /\ graph' = IF run[r].kind = "write" /\ (Finalize(run[r]) = "done" \/ run[r].mutated) THEN "none" ELSE graph
  /\ UNCHANGED <<current, history>>

(* A mutated form: the newest entry is the one that goes.                  *)
RecordDropsNewest(r) ==
  /\ Is(r, "record") /\ To(r, "shown")
  /\ history' = SubSeq(Append(history, [of |-> r, status |-> Finalize(run[r])]), 1,
                        IF Len(history) < HistoryLimit THEN Len(history) + 1 ELSE HistoryLimit)
  /\ UNCHANGED <<current, label, view, graph, unlabelled>>

(* What the history's limit leaves of its entries.                         *)
Newest(entries, n) == IF Len(entries) > n THEN SubSeq(entries, Len(entries) - n + 1, Len(entries)) ELSE entries

(* The run enters the history, whose oldest entries go.                    *)
Record(r) ==
  /\ Is(r, "record") /\ To(r, "shown")
  /\ history' = Newest(Append(history, [of |-> r, status |-> Finalize(run[r])]), HistoryLimit)
  /\ UNCHANGED <<current, label, view, graph, unlabelled>>

(* saveSettings, then the view shows the run's end.                        *)
Shown(r) ==
  /\ Is(r, "shown") /\ To(r, "over") /\ view' = NoRun
  /\ UNCHANGED <<current, label, history, graph, unlabelled>>

Proceed(r) ==
  \/ SettingsRead(r) \/ Prepared(r) \/ Started(r) \/ Probed(r) \/ Ends(r)
  \/ Close(r) \/ Finish(r) \/ Record(r) \/ Shown(r)

Next ==
  \/ \E r \in Runs, k \in Kinds : Dispatch(r, k)
  \/ \E r \in Runs : Proceed(r) \/ Persist(r) \/ ReadGraph(r) \/ Timeout(r) \/ \E e \in Yields(run[r]) : Yield(r, e)
  \/ CancelCurrent

(* Every await of a dispatch is answered, and an operation ends: its own calls are *)
(* bounded by timeouts and retries.                                                *)
Fairness == \A r \in Runs : WF_vars(Proceed(r))
Spec == Init /\ [][Next]_vars /\ Fairness

-----------------------------------------------------------------------------
(* A dispatch is where its code can be, and what is shown as current or labelled is *)
(* a run that was clicked.                                                          *)
TypeOK ==
  /\ current \in Runs \cup {NoRun} /\ label \in Runs \cup {NoRun} /\ view \in Runs \cup {NoRun}
  /\ \A r \in Runs : run[r].status \in {"done", "error", "cancelled"} /\ run[r].kind \in Kinds
  /\ \A i \in DOMAIN history : history[i].of \in Runs
  /\ view # NoRun => run[view].at \notin {"idle", "settings", "preparing", "over"}

(* The Cancel button reaches the run whose steps the view shows.           *)
CancelReaches == \A r \in Runs : Is(r, "work") => current = r

(* The history says "done" only of a run in which nothing failed for good, timed out  *)
(* or was cancelled, and "cancelled" only of one the user stopped, whatever the order *)
(* of its events, its timeout and a click on Cancel.                                  *)
StatusTrue ==
  \A i \in DOMAIN history :
    LET s == run[history[i].of] IN
    /\ history[i].status = "done" => s.failed = "no" /\ ~s.timed /\ ~s.aborted
    /\ history[i].status = "cancelled" => s.failed = "no" /\ ~s.timed /\ (s.aborted \/ s.stopped)

(* The history holds the last runs that ended, and no more than the limit. *)
HistoryNewest ==
  \A r \in Runs : Is(r, "record") /\ run'[r].at # "record" =>
       Len(history') <= HistoryLimit /\ history'[Len(history')].of = r

(* When no run is at work and the last change of the wiki was announced by an outcome, *)
(* the cached graph is not that of older pages.                                        *)
GraphFresh ==
  (\A r \in Runs : run[r].at \in {"idle", "over"}) /\ graph = "stale" =>
    \E r \in Runs : run[r].kind = "write" /\ ~run[r].mutated /\ run[r].at = "over"

(* A click that got its dispatch comes to an end, and what the view shows as running is *)
(* over some time.                                                                      *)
Pending(r) == run[r].at \notin {"idle", "over"}

-----------------------------------------------------------------------------
(* Proofs.  A dispatch's record, with its fields; `failed` never tells of a failure     *)
(* the status and the provisional error do not, and a status of cancelled comes from an *)
(* event that says stopped.                                                             *)
Places == {"idle", "settings", "preparing", "started", "probe", "work", "closing", "finish", "record", "shown", "over"}

RunRecord ==
  [at : Places, kind : Kinds, aborted : BOOLEAN, timed : BOOLEAN, status : {"done", "error", "cancelled"},
   provisional : BOOLEAN, mutated : BOOLEAN, events : Nat, source : BOOLEAN,
   failed : {"no", "open", "yes"}, stopped : BOOLEAN]

Truthful(s) ==
  /\ s.status # "error" => s.failed # "yes" /\ (s.failed = "open" => s.provisional)
  /\ s.status = "cancelled" => s.stopped

WithController == {"started", "probe", "work", "closing"}

Control ==
  /\ run \in [Runs -> RunRecord]
  /\ current \in Runs \cup {NoRun} /\ label \in Runs \cup {NoRun} /\ view \in Runs \cup {NoRun}
  /\ \A r \in Runs : Truthful(run[r])
  /\ current # NoRun => run[current].at \in WithController
  /\ view # NoRun => run[view].at \notin {"idle", "settings", "preparing", "started", "over"}

(* What is written in the history was settled, and its run is past everything that *)
(* could change it.                                                                *)
Tells(status, s) ==
  /\ s.at \in {"shown", "over"}
  /\ status = "done" => s.failed = "no" /\ ~s.timed /\ ~s.aborted
  /\ status = "cancelled" => s.failed = "no" /\ ~s.timed /\ (s.aborted \/ s.stopped)

Recorded ==
  /\ history \in Seq([of : Runs, status : {"done", "error", "cancelled"}])
  /\ \A i \in 1..Len(history) : history[i].of \in Runs /\ Tells(history[i].status, run[history[i].of])

(* A graph of older pages is owed to a run that wrote and has not announced it, or is *)
(* not through.                                                                       *)
Owes(s) == s.kind = "write" /\ (s.at \in {"work", "closing", "finish"} \/ (s.at \in {"record", "shown", "over"} /\ ~s.mutated))
GraphOwed == graph = "stale" => \E r \in Runs : Owes(run[r])

Inv == Control /\ Recorded /\ GraphOwed

(* Without quick clicks one dispatch at a time is between its click and its end, and *)
(* while it has a controller that is the current one.                                *)
Idle == {"idle", "over"}
Alone ==
  /\ \A r, q \in Runs : run[r].at \notin Idle /\ run[q].at \notin Idle => r = q
  /\ \A r \in Runs : run[r].at \in WithController => current = r

(* What an event does to the status of a dispatch: the cases of the reducer. *)
LEMMA Reductions ==
  ASSUME NEW s \in RunRecord, NEW e
  PROVE  \/ s.status = "error" /\ Reduce(s, e) = s
         \/ s.status # "error" /\ e = "error" /\ Reduce(s, e) = [s EXCEPT !.provisional = TRUE]
         \/ s.status # "error" /\ e = "recovered" /\ Reduce(s, e) = [s EXCEPT !.provisional = FALSE]
         \/ s.status # "error" /\ e \in {"exit", "skipped", "exhausted"} /\ Reduce(s, e) = [s EXCEPT !.status = "error"]
         \/ s.status # "error" /\ e = "stopped" /\ Reduce(s, e) = [s EXCEPT !.status = "cancelled"]
         \/ /\ s.status # "error" /\ e \notin {"error", "recovered", "exit", "skipped", "exhausted", "stopped"}
            /\ Reduce(s, e) = s
  BY DEF Reduce, HardError

LEMMA Failures ==
  ASSUME NEW before \in {"no", "open", "yes"}, NEW e
  PROVE  /\ e \in {"exit", "skipped", "exhausted"} => Failure(before, e) = "yes"
         /\ e = "error" => Failure(before, e) = (IF before = "no" THEN "open" ELSE before)
         /\ e = "recovered" => Failure(before, e) = (IF before = "open" THEN "no" ELSE before)
         /\ e \notin {"exit", "skipped", "exhausted", "error", "recovered"} => Failure(before, e) = before
  BY DEF Failure

(* The record after an event of the run is one, and as truthful as before. *)
LEMMA Yielded ==
  ASSUME NEW s \in RunRecord, Truthful(s), s.at = "work", NEW e
  PROVE  /\ After(s, e) \in RunRecord /\ Truthful(After(s, e))
         /\ After(s, e).at = "work" /\ After(s, e).kind = s.kind
  <1> DEFINE u == Reduce(s, e)
             t == After(s, e)
  <1>1. /\ u \in RunRecord /\ u.at = "work" /\ u.kind = s.kind /\ u.failed = s.failed /\ u.stopped = s.stopped
        /\ s.status = "error" => u.status = "error"
        /\ u.status = "cancelled" => s.status = "cancelled" \/ e = "stopped"
        /\ u.status # "error" /\ e # "recovered" /\ s.provisional => u.provisional
        /\ u.status # "error" /\ e = "error" => u.provisional
        /\ e \in {"exit", "skipped", "exhausted"} => u.status = "error"
    <2>1. CASE s.status = "error" /\ u = s
      BY <2>1 DEF RunRecord
    <2>2. CASE s.status # "error" /\ e = "error" /\ u = [s EXCEPT !.provisional = TRUE]
      BY <2>2 DEF RunRecord
    <2>3. CASE s.status # "error" /\ e = "recovered" /\ u = [s EXCEPT !.provisional = FALSE]
      BY <2>3 DEF RunRecord
    <2>4. CASE s.status # "error" /\ e \in {"exit", "skipped", "exhausted"} /\ u = [s EXCEPT !.status = "error"]
      BY <2>4 DEF RunRecord
    <2>5. CASE s.status # "error" /\ e = "stopped" /\ u = [s EXCEPT !.status = "cancelled"]
      BY <2>5 DEF RunRecord
    <2>6. CASE /\ s.status # "error" /\ e \notin {"error", "recovered", "exit", "skipped", "exhausted", "stopped"}
               /\ u = s
      BY <2>6 DEF RunRecord
    <2> QED BY <2>1, <2>2, <2>3, <2>4, <2>5, <2>6, Reductions
  <1>2. /\ t = [u EXCEPT !.events = @ + 1, !.mutated = @ \/ e = "done",
                         !.source = (e = "error" /\ s.kind = "write"),
                         !.stopped = @ \/ e = "stopped", !.failed = Failure(@, e)]
        /\ s.failed \in {"no", "open", "yes"}
    BY DEF RunRecord, After
  <1> HIDE DEF u, t
  <1>3. Failure(u.failed, e) \in {"no", "open", "yes"}
    BY <1>1, <1>2, Failures
  <1>4. t \in RunRecord /\ t.at = "work" /\ t.kind = s.kind
    <2> DEFINE n == u.events + 1
               m == (u.mutated \/ e = "done")
               c == (e = "error" /\ s.kind = "write")
               p == (u.stopped \/ e = "stopped")
               f == Failure(u.failed, e)
    <2>1. n \in Nat /\ m \in BOOLEAN /\ c \in BOOLEAN /\ p \in BOOLEAN /\ f \in {"no", "open", "yes"}
      BY <1>1, <1>3 DEF RunRecord
    <2>2. t = [u EXCEPT !.events = n, !.mutated = m, !.source = c, !.stopped = p, !.failed = f]
      BY <1>2
    <2> HIDE DEF n, m, c, p, f
    <2> DEFINE v == [u EXCEPT !.events = n, !.failed = f]
               w == [v EXCEPT !.mutated = m]
               x == [w EXCEPT !.source = c]
    <2>3. v \in RunRecord /\ v.at = u.at /\ v.kind = u.kind
      BY <1>1, <2>1 DEF RunRecord
    <2>4. w \in RunRecord /\ w.at = v.at /\ w.kind = v.kind
      <3> HIDE DEF v
      <3> QED BY <2>1, <2>3 DEF RunRecord
    <2>5. x \in RunRecord /\ x.at = w.at /\ x.kind = w.kind
      <3> HIDE DEF w
      <3> QED BY <2>1, <2>4 DEF RunRecord
    <2>6. [x EXCEPT !.stopped = p] \in RunRecord /\ [x EXCEPT !.stopped = p].at = x.at
          /\ [x EXCEPT !.stopped = p].kind = x.kind
      <3> HIDE DEF x
      <3> QED BY <2>1, <2>5 DEF RunRecord
    <2>7. t = [x EXCEPT !.stopped = p]
      BY <1>1, <2>2 DEF RunRecord
    <2> HIDE DEF v, w, x
    <2> QED BY <1>1, <2>3, <2>4, <2>5, <2>6, <2>7
  <1>5. /\ t.status = u.status /\ t.provisional = u.provisional /\ t.failed = Failure(s.failed, e)
        /\ t.stopped = (s.stopped \/ e = "stopped")
    BY <1>1, <1>2 DEF RunRecord
  <1>6. Truthful(t)
    <2>0. /\ e \in {"exit", "skipped", "exhausted"} => t.failed = "yes"
          /\ e = "error" => t.failed = (IF s.failed = "no" THEN "open" ELSE s.failed)
          /\ e = "recovered" => t.failed = (IF s.failed = "open" THEN "no" ELSE s.failed)
          /\ e \notin {"exit", "skipped", "exhausted", "error", "recovered"} => t.failed = s.failed
      BY <1>2, <1>5, Failures
    <2>1. t.status # "error" => t.failed # "yes"
      BY <1>1, <1>5, <2>0 DEF Truthful
    <2>2. t.status # "error" /\ t.failed = "open" => t.provisional
      BY <1>1, <1>5, <2>0 DEF Truthful
    <2>3. t.status = "cancelled" => t.stopped
      BY <1>1, <1>5 DEF Truthful
    <2> QED BY <2>1, <2>2, <2>3 DEF Truthful
  <1> QED BY <1>4, <1>6 DEF t

(* A step of one dispatch, with what it may do to the fields of the controller. *)
LEMMA OneRun ==
  ASSUME Control, NEW r \in Runs, NEW s \in RunRecord, Truthful(s), Goes(r, s),
         {current', label', view'} \subseteq Runs \cup {NoRun},
         current' # NoRun => IF current' = r THEN s.at \in WithController ELSE current' = current,
         view' # NoRun => IF view' = r THEN s.at \notin {"idle", "settings", "preparing", "started", "over"} ELSE view' = view
  PROVE  Control' /\ run'[r] = s /\ \A q \in Runs : q # r => run'[q] = run[q]
  <1>1. /\ run' \in [Runs -> RunRecord] /\ run'[r] = s /\ \A q \in Runs : q # r => run'[q] = run[q]
    BY DEF Control, Goes
  <1> QED BY <1>1 DEF Control

(* What the history tells stays true of runs that are past their record.   *)
LEMMA EntriesKept ==
  ASSUME Recorded, history' = history,
         \A q \in Runs : run[q].at \in {"shown", "over"} =>
           /\ run'[q].at \in {"shown", "over"} /\ run'[q].failed = run[q].failed
           /\ run'[q].timed = run[q].timed /\ run'[q].aborted = run[q].aborted /\ run'[q].stopped = run[q].stopped
  PROVE  Recorded'
  <1>1. ASSUME NEW i \in 1..Len(history)
        PROVE  history[i].of \in Runs /\ Tells(history[i].status, run'[history[i].of])
    BY <1>1 DEF Recorded, Tells
  <1> QED BY <1>1 DEF Recorded

LEMMA OwedKept ==
  ASSUME GraphOwed, graph' \in {graph, "none", "fresh"},
         \A q \in Runs : Owes(run[q]) => Owes(run'[q])
  PROVE  GraphOwed'
  BY DEF GraphOwed

(* The invariant holds at first.                                           *)
LEMMA Beginning == Init => Inv
  <1> SUFFICES ASSUME Init PROVE Inv
    OBVIOUS
  <1>1. Fresh \in RunRecord /\ Truthful(Fresh)
    BY DEF Fresh, RunRecord, Places, Kinds, Truthful
  <1>2. Control
    BY <1>1 DEF Init, Control
  <1>3. Recorded /\ GraphOwed
    BY DEF Init, Recorded, GraphOwed
  <1> QED BY <1>2, <1>3 DEF Inv

(* A dispatch before it has its controller.                                *)
LEMMA PrepareStep ==
  ASSUME Inv, NEW r \in Runs, (\E k \in Kinds : Dispatch(r, k)) \/ SettingsRead(r) \/ Prepared(r) \/ Started(r)
  PROVE  Inv'
  <1>0. Control /\ Recorded /\ GraphOwed /\ run[r] \in RunRecord /\ Truthful(run[r])
    BY DEF Inv, Control
  <1>1. history' = history /\ graph' = graph
    BY DEF Dispatch, SettingsRead, Prepared, Started
  <1>2. ASSUME NEW s \in RunRecord, Goes(r, s), Truthful(s),
               run[r].at \in {"idle", "settings", "preparing", "started"},
               {current', label', view'} \subseteq Runs \cup {NoRun},
               current' # NoRun => IF current' = r THEN s.at \in WithController ELSE current' = current,
               view' # NoRun => IF view' = r THEN s.at \notin {"idle", "settings", "preparing", "started", "over"} ELSE view' = view
        PROVE  Inv'
    <2>1. Control' /\ \A q \in Runs : q # r => run'[q] = run[q]
      BY <1>0, <1>2, OneRun
    <2>2. Recorded'
      BY <1>0, <1>1, <1>2, <2>1, EntriesKept
    <2>3. GraphOwed'
      BY <1>0, <1>1, <1>2, <2>1, OwedKept DEF Owes
    <2> QED BY <2>1, <2>2, <2>3 DEF Inv
  <1>3. CASE \E k \in Kinds : Dispatch(r, k)
    <2>1. PICK k \in Kinds : Dispatch(r, k)
      BY <1>3
    <2>2. /\ [Fresh EXCEPT !.at = "settings", !.kind = k] \in RunRecord
          /\ Truthful([Fresh EXCEPT !.at = "settings", !.kind = k])
      BY DEF Fresh, RunRecord, Places, Kinds, Truthful
    <2>3. (view # r \/ view = NoRun) /\ current' = NoRun /\ view' = view /\ label' = label
      BY <1>0, <2>1 DEF Dispatch, Is, Control
    <2> QED BY <1>0, <1>2, <2>1, <2>2, <2>3 DEF Dispatch, Is, Control
  <1>4. ASSUME NEW at \in Places, To(r, at), run[r].at \in {"settings", "preparing", "started"},
               {current', label', view'} \subseteq Runs \cup {NoRun},
               current' # NoRun => IF current' = r THEN at \in WithController ELSE current' = current,
               view' # NoRun => IF view' = r THEN at \notin {"idle", "settings", "preparing", "started", "over"} ELSE view' = view
        PROVE  Inv'
    <2>1. /\ [run[r] EXCEPT !.at = at] \in RunRecord /\ Truthful([run[r] EXCEPT !.at = at])
          /\ [run[r] EXCEPT !.at = at].at = at
      BY <1>0 DEF RunRecord, Truthful
    <2> QED BY <1>2, <1>4, <2>1 DEF To
  <1>5. /\ {"over", "preparing", "started", "probe"} \subseteq Places
        /\ {current, label, view} \subseteq Runs \cup {NoRun}
        /\ run[r].at \in {"settings", "preparing", "started"} => view # r \/ r = NoRun
        /\ run[r].at \in {"settings", "preparing"} => current # r \/ r = NoRun
    BY <1>0 DEF Places, Control, WithController
  <1>6. CASE SettingsRead(r)
    <2>0. current' = current /\ view' = view /\ run[r].at = "settings"
      BY <1>6 DEF SettingsRead, Is
    <2>1. CASE To(r, "over") /\ UNCHANGED label
      BY <1>4, <1>5, <2>0, <2>1
    <2>2. CASE To(r, "preparing") /\ label' = r
      BY <1>4, <1>5, <2>0, <2>2
    <2> QED BY <1>6, <2>1, <2>2 DEF SettingsRead
  <1>7. CASE Prepared(r)
    <2>0. label' = label /\ view' = view /\ run[r].at = "preparing"
      BY <1>7 DEF Prepared, Is
    <2>1. CASE To(r, "over") /\ UNCHANGED current
      BY <1>4, <1>5, <2>0, <2>1
    <2>2. CASE To(r, "started") /\ current' = r
      BY <1>4, <1>5, <2>0, <2>2 DEF WithController
    <2> QED BY <1>7, <2>1, <2>2 DEF Prepared
  <1>8. CASE Started(r)
    <2>0. label' = label /\ current' = current /\ view' = r /\ run[r].at = "started" /\ To(r, "probe")
      BY <1>8 DEF Started, Is
    <2> QED BY <1>4, <1>5, <2>0 DEF WithController
  <1> QED BY <1>3, <1>6, <1>7, <1>8

(* A run at work and closing: its events, its timer, the failures and the end of its *)
(* stream.                                                                           *)
LEMMA WorkStep ==
  ASSUME Inv, NEW r \in Runs,
         \/ Probed(r) \/ Persist(r) \/ ReadGraph(r) \/ Ends(r) \/ Timeout(r) \/ Close(r)
         \/ \E e \in Yields(run[r]) : Yield(r, e)
  PROVE  Inv'
  <1>0. /\ Control /\ Recorded /\ GraphOwed /\ run[r] \in RunRecord /\ Truthful(run[r])
        /\ {current, label, view} \subseteq Runs \cup {NoRun}
    BY DEF Inv, Control
  <1>1. ASSUME NEW s \in RunRecord, Goes(r, s), Truthful(s), s.kind = run[r].kind,
               run[r].at \in {"probe", "work", "closing"}, s.at \in {"probe", "work", "closing", "finish"},
               run[r].at \in {"work", "closing"} => s.at # "probe",
               current' = NoRun \/ (current' = current /\ s.at # "finish"),
               label' \in {label, NoRun}, view' = view, history' = history,
               \/ graph' \in {graph, "none", "fresh"}
               \/ run[r].kind = "write" /\ s.at = "work"
        PROVE  Inv'
    <2>1. Control' /\ run'[r] = s /\ \A q \in Runs : q # r => run'[q] = run[q]
      <3>1. current' # NoRun => IF current' = r THEN s.at \in WithController ELSE current' = current
        BY <1>1 DEF WithController
      <3>2. view' # NoRun => IF view' = r THEN s.at \notin {"idle", "settings", "preparing", "started", "over"} ELSE view' = view
        BY <1>1
      <3>3. {current', label', view'} \subseteq Runs \cup {NoRun}
        BY <1>0, <1>1
      <3> QED BY <1>0, <1>1, <3>1, <3>2, <3>3, OneRun
    <2>2. Recorded'
      BY <1>0, <1>1, <2>1, EntriesKept
    <2>3. GraphOwed'
      <3>1. CASE run[r].kind = "write" /\ s.at = "work"
        BY <1>1, <2>1, <3>1 DEF GraphOwed, Owes
      <3>2. CASE graph' \in {graph, "none", "fresh"}
        BY <1>0, <1>1, <2>1, <3>2, OwedKept DEF Owes
      <3> QED BY <1>1, <3>1, <3>2
    <2> QED BY <2>1, <2>2, <2>3 DEF Inv
  <1>2. ASSUME NEW at \in Places
        PROVE  /\ [run[r] EXCEPT !.at = at] \in RunRecord /\ Truthful([run[r] EXCEPT !.at = at])
               /\ [run[r] EXCEPT !.at = at].at = at /\ [run[r] EXCEPT !.at = at].kind = run[r].kind
    BY <1>0 DEF RunRecord, Truthful
  <1>3. ASSUME NEW s, s = [HardError(run[r]) EXCEPT !.at = "closing", !.failed = "yes"]
        PROVE  s \in RunRecord /\ Truthful(s) /\ s.at = "closing" /\ s.kind = run[r].kind
    BY <1>0, <1>3 DEF RunRecord, Truthful, HardError, Places
  <1>4. {"probe", "work", "closing", "finish"} \subseteq Places
    BY DEF Places
  <1>5. CASE Probed(r)
    <2>0. /\ run[r].at = "probe" /\ current' = current /\ label' = label /\ view' = view
          /\ history' = history /\ graph' = graph
          /\ \/ To(r, "work") \/ To(r, "closing")
             \/ Goes(r, [HardError(run[r]) EXCEPT !.at = "closing", !.failed = "yes"])
      BY <1>5 DEF Probed, Is
    <2> QED BY <1>1, <1>2, <1>3, <1>4, <2>0 DEF To
  <1>6. CASE Persist(r)
    <2>0. /\ run[r].at = "work" /\ current' = current /\ label' = label /\ view' = view
          /\ history' = history /\ graph' = graph
      BY <1>6 DEF Persist, Is
    <2>1. ASSUME NEW s, NEW changed \in BOOLEAN, s = [run[r] EXCEPT !.events = @ + 1, !.mutated = @ \/ changed]
          PROVE  s \in RunRecord /\ Truthful(s) /\ s.at = run[r].at /\ s.kind = run[r].kind
      <3>1. run[r].events \in Nat /\ run[r].events + 1 \in Nat
        BY <1>0 DEF RunRecord
      <3>2. s \in RunRecord /\ s.at = run[r].at /\ s.kind = run[r].kind
        <4>1. (run[r].mutated \/ changed) \in BOOLEAN
          OBVIOUS
        <4> QED BY <1>0, <2>1, <3>1, <4>1 DEF RunRecord
      <3>3. /\ s.status = run[r].status /\ s.failed = run[r].failed
            /\ s.provisional = run[r].provisional /\ s.stopped = run[r].stopped
        BY <1>0, <2>1 DEF RunRecord
      <3> QED BY <1>0, <3>2, <3>3 DEF Truthful
    <2>2. ASSUME NEW s, s = [HardError(run[r]) EXCEPT !.aborted = TRUE, !.at = "closing", !.failed = "yes"]
          PROVE  s \in RunRecord /\ Truthful(s) /\ s.at = "closing" /\ s.kind = run[r].kind
      BY <1>0, <2>2 DEF RunRecord, Truthful, HardError, Places
    <2>3. ASSUME NEW changed \in BOOLEAN, Goes(r, [run[r] EXCEPT !.events = @ + 1, !.mutated = @ \/ changed])
          PROVE  Inv'
      <3> DEFINE s == [run[r] EXCEPT !.events = @ + 1, !.mutated = @ \/ changed]
      <3>1. s \in RunRecord /\ Truthful(s) /\ s.at = run[r].at /\ s.kind = run[r].kind
        BY <2>1
      <3>2. Goes(r, s)
        BY <2>3
      <3> HIDE DEF s
      <3> QED BY <1>1, <2>0, <3>1, <3>2
    <2>4. ASSUME Goes(r, [HardError(run[r]) EXCEPT !.aborted = TRUE, !.at = "closing", !.failed = "yes"])
          PROVE  Inv'
      BY <1>1, <2>0, <2>2, <2>4
    <2> QED BY <1>6, <2>3, <2>4 DEF Persist
  <1>7. CASE ReadGraph(r)
    <2>0. /\ run[r].at = "work" /\ current' = current /\ label' = label /\ view' = view
          /\ history' = history /\ graph' \in {graph, "fresh"}
          /\ Goes(r, [run[r] EXCEPT !.events = @ + 1])
      BY <1>7 DEF ReadGraph, Is
    <2>1. ASSUME NEW s, s = [run[r] EXCEPT !.events = @ + 1]
          PROVE  s \in RunRecord /\ Truthful(s) /\ s.at = run[r].at /\ s.kind = run[r].kind
      BY <1>0, <2>1 DEF RunRecord, Truthful
    <2> QED BY <1>1, <2>0, <2>1
  <1>8. CASE Ends(r)
    <2>0. /\ run[r].at = "work" /\ current' = current /\ label' = label /\ view' = view
          /\ history' = history /\ graph' = graph
          /\ \/ To(r, "closing")
             \/ Goes(r, [HardError(run[r]) EXCEPT !.at = "closing", !.failed = "yes"])
      BY <1>8 DEF Ends, Is
    <2> QED BY <1>1, <1>2, <1>3, <1>4, <2>0 DEF To
  <1>9. CASE Timeout(r)
    <2>0. /\ run[r].at \in {"probe", "work"} /\ current' = current /\ label' = label /\ view' = view
          /\ history' = history /\ graph' = graph
          /\ Goes(r, [run[r] EXCEPT !.timed = TRUE, !.aborted = TRUE])
      BY <1>9 DEF Timeout
    <2>1. ASSUME NEW s, s = [run[r] EXCEPT !.timed = TRUE, !.aborted = TRUE]
          PROVE  s \in RunRecord /\ Truthful(s) /\ s.at = run[r].at /\ s.kind = run[r].kind
      BY <1>0, <2>1 DEF RunRecord, Truthful
    <2> QED BY <1>1, <2>0, <2>1
  <1>10. CASE Close(r)
    <2>0. /\ run[r].at = "closing" /\ current' = NoRun /\ label' \in {label, NoRun} /\ view' = view
          /\ history' = history /\ graph' = graph /\ To(r, "finish")
      BY <1>10 DEF Close, Is
    <2> QED BY <1>1, <1>2, <1>4, <2>0 DEF To
  <1>11. ASSUME NEW e \in Yields(run[r]), Yield(r, e) PROVE Inv'
    <2>0. /\ run[r].at = "work" /\ current' = current /\ label' = label /\ view' = view
          /\ history' = history /\ Goes(r, After(run[r], e))
          /\ graph' = IF e \in {"done", "pages"} /\ graph # "none" THEN "stale" ELSE graph
      BY <1>11 DEF Yield, Is
    <2>1. /\ After(run[r], e) \in RunRecord /\ Truthful(After(run[r], e))
          /\ After(run[r], e).at = "work" /\ After(run[r], e).kind = run[r].kind
      BY <1>0, <2>0, Yielded
    <2>2. e \in {"done", "pages"} => run[r].kind = "write"
      BY <1>11 DEF Yields
    <2> QED BY <1>1, <2>0, <2>1, <2>2
  <1> QED BY <1>5, <1>6, <1>7, <1>8, <1>9, <1>10, <1>11

(* The button aborts the run that is current, which is not past its controller. *)
LEMMA CancelStep == Inv /\ CancelCurrent => Inv'
  <1> SUFFICES ASSUME Inv, CancelCurrent PROVE Inv'
    OBVIOUS
  <1> DEFINE r == current
             s == [run[r] EXCEPT !.aborted = TRUE]
  <1>0. /\ Control /\ Recorded /\ GraphOwed /\ r \in Runs /\ run[r] \in RunRecord /\ Truthful(run[r])
        /\ run[r].at \in WithController
        /\ UNCHANGED <<current, label, view, history, graph>>
    BY DEF Inv, Control, CancelCurrent
  <1>1. s \in RunRecord /\ Truthful(s) /\ s.at = run[r].at /\ s.kind = run[r].kind /\ s.mutated = run[r].mutated
    BY <1>0 DEF RunRecord, Truthful
  <1>2. run' \in [Runs -> RunRecord] /\ run'[r] = s /\ \A q \in Runs : q # r => run'[q] = run[q]
    BY <1>0, <1>1 DEF CancelCurrent, Control
  <1> HIDE DEF s
  <1>3. Control'
    BY <1>0, <1>1, <1>2 DEF Control
  <1>4. Recorded'
    BY <1>0, <1>2, EntriesKept DEF WithController
  <1>5. GraphOwed'
    <2>1. \A q \in Runs : Owes(run[q]) => Owes(run'[q])
      BY <1>0, <1>1, <1>2 DEF Owes
    <2> QED BY <1>0, <2>1, OwedKept
  <1> QED BY <1>3, <1>4, <1>5 DEF Inv

(* What a run that ended is called: done and cancelled say what they mean. *)
LEMMA FinalizeTrue ==
  ASSUME NEW s \in RunRecord, Truthful(s)
  PROVE  /\ Finalize(s) \in {"done", "error", "cancelled"}
         /\ Finalize(s) = "done" => s.failed = "no" /\ ~s.timed /\ ~s.aborted
         /\ Finalize(s) = "cancelled" => s.failed = "no" /\ ~s.timed /\ (s.aborted \/ s.stopped)
  BY DEF Finalize, RunRecord, Truthful

(* The last n elements of a sequence.                                      *)
LEMMA LastElements ==
  ASSUME NEW S, NEW all \in Seq(S), NEW n \in Nat \ {0}, Len(all) > n
  PROVE  /\ SubSeq(all, Len(all) - n + 1, Len(all)) \in Seq(S)
         /\ Len(SubSeq(all, Len(all) - n + 1, Len(all))) = n
         /\ \A i \in 1..n : /\ Len(all) - n + i \in 1..Len(all)
                            /\ SubSeq(all, Len(all) - n + 1, Len(all))[i] = all[Len(all) - n + i]
  <1> DEFINE m == Len(all) - n + 1
  <1>1. Len(all) \in Nat /\ m \in Nat /\ m >= 1 /\ m <= Len(all)
    OBVIOUS
  <1>2. \A i \in m..Len(all) : all[i] \in S
    BY <1>1
  <1>3. SubSeq(all, m, Len(all)) \in Seq(S)
    BY <1>1, <1>2
  <1>4. Len(SubSeq(all, m, Len(all))) = Len(all) - m + 1
    BY <1>1
  <1>5. \A i \in 1..(Len(all) - m + 1) : SubSeq(all, m, Len(all))[i] = all[m + i - 1]
    BY <1>1
  <1>6. Len(all) - m + 1 = n /\ \A i \in 1..n : m + i - 1 = Len(all) - n + i /\ Len(all) - n + i \in 1..Len(all)
    BY <1>1
  <1> QED BY <1>3, <1>4, <1>5, <1>6

(* The newest elements: no more than the limit, the last one among them, and all of them *)
(* from the sequence.                                                                    *)
LEMMA Trimmed ==
  ASSUME NEW S, NEW all \in Seq(S), Len(all) > 0, NEW n \in Nat \ {0}
  PROVE  /\ Newest(all, n) \in Seq(S) /\ Len(Newest(all, n)) <= n /\ Len(Newest(all, n)) > 0
         /\ Newest(all, n)[Len(Newest(all, n))] = all[Len(all)]
         /\ \A i \in 1..Len(Newest(all, n)) : \E k \in 1..Len(all) : Newest(all, n)[i] = all[k]
  <1>1. Len(all) \in Nat
    OBVIOUS
  <1>3. CASE ~(Len(all) > n)
    BY <1>1, <1>3 DEF Newest
  <1>4. CASE Len(all) > n
    <2> DEFINE new == Newest(all, n)
    <2>1. /\ new \in Seq(S) /\ Len(new) = n
          /\ \A i \in 1..n : Len(all) - n + i \in 1..Len(all) /\ new[i] = all[Len(all) - n + i]
      BY <1>1, <1>4, LastElements DEF Newest
    <2>2. Len(all) - n + n = Len(all) /\ n \in 1..n
      BY <1>1
    <2> HIDE DEF new
    <2>3. new[n] = all[Len(all)]
      BY <1>1, <2>1, <2>2
    <2> QED BY <2>1, <2>2, <2>3 DEF new
  <1> QED BY <1>3, <1>4

(* A sequence with one element more.                                       *)
LEMMA Appended ==
  ASSUME NEW S, NEW s \in Seq(S), NEW e \in S
  PROVE  /\ Append(s, e) \in Seq(S) /\ Len(Append(s, e)) > 0
         /\ Append(s, e)[Len(Append(s, e))] = e
         /\ \A k \in 1..Len(Append(s, e)) : Append(s, e)[k] = e \/ \E j \in 1..Len(s) : Append(s, e)[k] = s[j]
  <1> DEFINE all == Append(s, e)
  <1>1. /\ all \in Seq(S) /\ Len(s) \in Nat /\ Len(all) = Len(s) + 1 /\ all[Len(s) + 1] = e
        /\ \A j \in 1..Len(s) : all[j] = s[j]
    OBVIOUS
  <1> HIDE DEF all
  <1>2. ASSUME NEW k \in 1..Len(all) PROVE all[k] = e \/ \E j \in 1..Len(s) : all[k] = s[j]
    <2>1. k \in 1..Len(s) \/ k = Len(s) + 1
      BY <1>1
    <2> QED BY <1>1, <2>1
  <1> QED BY <1>1, <1>2 DEF all

(* The history after a run is recorded.                                    *)
LEMMA HistoryStep ==
  ASSUME DispatchAssumption, Recorded, NEW h \in [of : Runs, status : {"done", "error", "cancelled"}],
         history' = Newest(Append(history, h), HistoryLimit)
  PROVE  /\ history' \in Seq([of : Runs, status : {"done", "error", "cancelled"}])
         /\ Len(history') <= HistoryLimit /\ history'[Len(history')] = h
         /\ \A i \in 1..Len(history') : history'[i] = h \/ \E j \in 1..Len(history) : history'[i] = history[j]
  <1> DEFINE S == [of : Runs, status : {"done", "error", "cancelled"}]
             all == Append(history, h)
  <1>1. history \in Seq(S) /\ h \in S /\ HistoryLimit \in Nat \ {0}
    BY DEF Recorded, DispatchAssumption
  <1> HIDE DEF S
  <1>2. /\ all \in Seq(S) /\ Len(all) > 0 /\ all[Len(all)] = h
        /\ \A k \in 1..Len(all) : all[k] = h \/ \E j \in 1..Len(history) : all[k] = history[j]
    BY <1>1, Appended
  <1>3. history' = Newest(all, HistoryLimit)
    OBVIOUS
  <1> HIDE DEF all
  <1>4. /\ history' \in Seq(S) /\ Len(history') <= HistoryLimit /\ history'[Len(history')] = all[Len(all)]
        /\ \A i \in 1..Len(history') : \E k \in 1..Len(all) : history'[i] = all[k]
    BY <1>1, <1>2, <1>3, Trimmed
  <1>5. \A i \in 1..Len(history') : history'[i] = h \/ \E j \in 1..Len(history) : history'[i] = history[j]
    BY <1>2, <1>4
  <1> QED BY <1>2, <1>4, <1>5 DEF S

(* The status is settled, the run enters the history, and the view shows its end. *)
LEMMA EndStep ==
  ASSUME Inv, DispatchAssumption, NEW r \in Runs, Finish(r) \/ Record(r) \/ Shown(r)
  PROVE  Inv'
  <1>0. /\ Control /\ Recorded /\ GraphOwed /\ run[r] \in RunRecord /\ Truthful(run[r])
        /\ {current, label, view} \subseteq Runs \cup {NoRun}
    BY DEF Inv, Control
  <1>1. ASSUME NEW at \in Places, To(r, at), run[r].at \in {"finish", "record", "shown"},
               at \in {"record", "shown", "over"}, current' = current,
               label' \in {label, NoRun}, view' = NoRun \/ (view' = view /\ at # "over")
        PROVE  /\ Control' /\ \A q \in Runs : q # r => run'[q] = run[q]
               /\ run'[r] \in RunRecord /\ run'[r].at = at /\ run'[r].kind = run[r].kind
               /\ run'[r].status = run[r].status /\ run'[r].failed = run[r].failed /\ run'[r].timed = run[r].timed
               /\ run'[r].aborted = run[r].aborted /\ run'[r].stopped = run[r].stopped
               /\ run'[r].mutated = run[r].mutated /\ run'[r].provisional = run[r].provisional
    <2> DEFINE s == [run[r] EXCEPT !.at = at]
    <2>1. /\ s \in RunRecord /\ Truthful(s) /\ s.at = at /\ s.kind = run[r].kind
          /\ s.status = run[r].status /\ s.failed = run[r].failed /\ s.timed = run[r].timed
          /\ s.aborted = run[r].aborted /\ s.stopped = run[r].stopped
          /\ s.mutated = run[r].mutated /\ s.provisional = run[r].provisional
      BY <1>0 DEF RunRecord, Truthful
    <2>2. Goes(r, s) /\ {current', label', view'} \subseteq Runs \cup {NoRun}
      BY <1>0, <1>1 DEF To
    <2>3. current # r \/ current = NoRun
      BY <1>0, <1>1 DEF Control, WithController
    <2> HIDE DEF s
    <2>4. current' # NoRun => IF current' = r THEN s.at \in WithController ELSE current' = current
      BY <1>1, <2>3
    <2>5. view' # NoRun => IF view' = r THEN s.at \notin {"idle", "settings", "preparing", "started", "over"} ELSE view' = view
      BY <1>1, <2>1
    <2> QED BY <1>0, <2>1, <2>2, <2>4, <2>5, OneRun
  <1>2. {"record", "shown", "over"} \subseteq Places
    BY DEF Places
  <1>3. CASE Finish(r)
    <2>0. run[r].at = "finish" /\ history' = history /\ current' = current
      BY <1>3 DEF Finish, Is
    <2>1. CASE run[r].kind = "chat"
      <3>1. To(r, "over") /\ label' = NoRun /\ view' = NoRun /\ graph' = graph
        BY <1>3, <2>1 DEF Finish
      <3>2. Control' /\ \A q \in Runs : q # r => run'[q] = run[q]
        BY <1>1, <1>2, <2>0, <3>1
      <3>3. Recorded'
        BY <1>0, <2>0, <3>2, EntriesKept
      <3>4. GraphOwed'
        BY <1>0, <2>1, <3>1, <3>2, OwedKept DEF Owes
      <3> QED BY <3>2, <3>3, <3>4 DEF Inv
    <2>2. CASE run[r].kind # "chat"
      <3>1. /\ To(r, "record") /\ label' = label /\ view' = view
            /\ graph' = IF run[r].kind = "write" /\ (Finalize(run[r]) = "done" \/ run[r].mutated) THEN "none" ELSE graph
        BY <1>3, <2>2 DEF Finish
      <3>2. /\ Control' /\ \A q \in Runs : q # r => run'[q] = run[q]
            /\ run'[r].at = "record" /\ run'[r].kind = run[r].kind /\ run'[r].mutated = run[r].mutated
        BY <1>1, <1>2, <2>0, <3>1
      <3>3. Recorded'
        BY <1>0, <2>0, <3>2, EntriesKept
      <3>4. GraphOwed'
        <4>1. CASE graph' = "none"
          BY <4>1 DEF GraphOwed
        <4>2. CASE graph' # "none"
          <5>1. graph' = graph /\ ~(run[r].kind = "write" /\ run[r].mutated)
            BY <3>1, <4>2
          <5> QED BY <1>0, <3>2, <5>1, OwedKept DEF Owes
        <4> QED BY <4>1, <4>2
      <3> QED BY <3>2, <3>3, <3>4 DEF Inv
    <2> QED BY <2>1, <2>2
  <1>4. CASE Record(r)
    <2> DEFINE h == [of |-> r, status |-> Finalize(run[r])]
    <2>0. /\ run[r].at = "record" /\ To(r, "shown") /\ current' = current /\ label' = label /\ view' = view
          /\ graph' = graph
      BY <1>4 DEF Record, Is
    <2>1. /\ Control' /\ \A q \in Runs : q # r => run'[q] = run[q]
          /\ run'[r].at = "shown" /\ run'[r].kind = run[r].kind /\ run'[r].mutated = run[r].mutated
          /\ run'[r].failed = run[r].failed /\ run'[r].timed = run[r].timed
          /\ run'[r].aborted = run[r].aborted /\ run'[r].stopped = run[r].stopped
      BY <1>1, <1>2, <2>0
    <2>2. GraphOwed'
      BY <1>0, <2>0, <2>1, OwedKept DEF Owes
    <2>3. /\ h \in [of : Runs, status : {"done", "error", "cancelled"}] /\ h.of = r
          /\ h.status = Finalize(run[r])
      BY <1>0, FinalizeTrue
    <2>4. /\ history' \in Seq([of : Runs, status : {"done", "error", "cancelled"}])
          /\ \A i \in 1..Len(history') : history'[i] = h \/ \E j \in 1..Len(history) : history'[i] = history[j]
      <3>1. history' = Newest(Append(history, h), HistoryLimit)
        BY <1>4 DEF Record
      <3> QED BY <1>0, <2>3, <3>1, HistoryStep
    <2>5. ASSUME NEW i \in 1..Len(history')
          PROVE  history'[i].of \in Runs /\ Tells(history'[i].status, run'[history'[i].of])
      <3>1. CASE history'[i] = h
        <4> HIDE DEF h
        <4>1. Tells(Finalize(run[r]), run'[r])
          BY <1>0, <2>1, FinalizeTrue DEF Tells
        <4> QED BY <2>3, <3>1, <4>1
      <3>2. CASE \E j \in 1..Len(history) : history'[i] = history[j]
        <4>1. PICK j \in 1..Len(history) : history'[i] = history[j]
          BY <3>2
        <4>2. history[j].of \in Runs /\ Tells(history[j].status, run[history[j].of])
          BY <1>0 DEF Recorded
        <4>3. history[j].of # r
          BY <2>0, <4>2 DEF Tells
        <4> QED BY <2>1, <4>1, <4>2, <4>3
      <3> QED BY <2>4, <3>1, <3>2
    <2>6. Recorded'
      BY <2>4, <2>5 DEF Recorded
    <2> QED BY <2>1, <2>2, <2>6 DEF Inv
  <1>5. CASE Shown(r)
    <2>0. /\ run[r].at = "shown" /\ To(r, "over") /\ view' = NoRun
          /\ UNCHANGED <<current, label, history, graph>>
      BY <1>5 DEF Shown, Is
    <2>1. /\ Control' /\ \A q \in Runs : q # r => run'[q] = run[q]
          /\ run'[r].at = "over" /\ run'[r].kind = run[r].kind /\ run'[r].mutated = run[r].mutated
          /\ run'[r].failed = run[r].failed /\ run'[r].timed = run[r].timed
          /\ run'[r].aborted = run[r].aborted /\ run'[r].stopped = run[r].stopped
      BY <1>1, <1>2, <2>0
    <2>2. Recorded'
      BY <1>0, <2>0, <2>1, EntriesKept
    <2>3. GraphOwed'
      BY <1>0, <2>0, <2>1, OwedKept DEF Owes
    <2> QED BY <2>1, <2>2, <2>3 DEF Inv
  <1> QED BY <1>3, <1>4, <1>5

(* Every step keeps the invariant, and so does a stuttering step.          *)
LEMMA Step == DispatchAssumption /\ Inv /\ [Next]_vars => Inv'
  <1> SUFFICES ASSUME DispatchAssumption, Inv, [Next]_vars PROVE Inv'
    OBVIOUS
  <1>1. CASE UNCHANGED vars
    BY <1>1 DEF vars, Inv, Control, Recorded, GraphOwed
  <1>2. CASE CancelCurrent
    BY <1>2, CancelStep
  <1>3. ASSUME NEW r \in Runs, NEW k \in Kinds, Dispatch(r, k) PROVE Inv'
    BY <1>3, PrepareStep
  <1>4. ASSUME NEW r \in Runs, Proceed(r) PROVE Inv'
    BY <1>4, PrepareStep, WorkStep, EndStep DEF Proceed
  <1>5. ASSUME NEW r \in Runs, Persist(r) \/ ReadGraph(r) \/ Timeout(r) \/ \E e \in Yields(run[r]) : Yield(r, e)
        PROVE  Inv'
    BY <1>5, WorkStep
  <1> QED BY <1>1, <1>2, <1>3, <1>4, <1>5 DEF Next

LEMMA Invariance == ASSUME DispatchAssumption PROVE Spec => []Inv
  <1>1. Init => Inv
    BY Beginning
  <1>2. Inv /\ [Next]_vars => Inv'
    BY Step
  <1> QED BY <1>1, <1>2, PTL DEF Spec

-----------------------------------------------------------------------------
(* What the invariant says of the types, the history and the graph.        *)
LEMMA Says == Inv => TypeOK /\ StatusTrue /\ GraphFresh
  <1> SUFFICES ASSUME Inv PROVE TypeOK /\ StatusTrue /\ GraphFresh
    OBVIOUS
  <1>1. TypeOK
    <2>1. \A r \in Runs : run[r].status \in {"done", "error", "cancelled"} /\ run[r].kind \in Kinds
      BY DEF Inv, Control, RunRecord
    <2>2. \A i \in DOMAIN history : history[i].of \in Runs
      BY DEF Inv, Recorded
    <2> QED BY <2>1, <2>2 DEF Inv, Control, TypeOK
  <1>2. StatusTrue
    BY DEF Inv, Recorded, Tells, StatusTrue
  <1>3. GraphFresh
    BY DEF Inv, GraphOwed, Owes, GraphFresh
  <1> QED BY <1>1, <1>2, <1>3

(* The step that records a run puts it at the end of the history.          *)
LEMMA Recording == DispatchAssumption /\ Inv /\ [Next]_vars => HistoryNewest
  <1> SUFFICES ASSUME DispatchAssumption, Inv, [Next]_vars, NEW r \in Runs, Is(r, "record"), run'[r].at # "record"
               PROVE  Len(history') <= HistoryLimit /\ history'[Len(history')].of = r
    BY DEF HistoryNewest
  <1>0. /\ Control /\ Recorded /\ run[r].at = "record" /\ run[r] \in RunRecord /\ Truthful(run[r])
    BY DEF Inv, Control, Is
  <1>1. Record(r)
    <2>1. ASSUME NEW q \in Runs, NEW s, Goes(q, s), q # r PROVE FALSE
      BY <1>0, <2>1 DEF Goes, Control
    <2>2. ASSUME CancelCurrent PROVE FALSE
      BY <1>0, <2>2 DEF CancelCurrent, Control, WithController
    <2>3. ~UNCHANGED vars
      BY <1>0 DEF vars
    <2>4. ASSUME NEW q \in Runs, NEW k \in Kinds, Dispatch(q, k) PROVE FALSE
      BY <1>0, <2>1, <2>4 DEF Dispatch, Is
    <2>5. ASSUME NEW q \in Runs, Proceed(q) PROVE Record(r)
      BY <1>0, <2>1, <2>5 DEF Proceed, SettingsRead, Prepared, Started, Probed, Ends, Close, Finish,
                              Record, Shown, Is, To
    <2>6. ASSUME NEW q \in Runs, Persist(q) \/ ReadGraph(q) \/ Timeout(q) \/ \E e \in Yields(run[q]) : Yield(q, e)
          PROVE  FALSE
      BY <1>0, <2>1, <2>6 DEF Persist, ReadGraph, Timeout, Yield, Is
    <2> QED BY <2>2, <2>3, <2>4, <2>5, <2>6 DEF Next
  <1> DEFINE h == [of |-> r, status |-> Finalize(run[r])]
  <1>2. h \in [of : Runs, status : {"done", "error", "cancelled"}] /\ h.of = r
    BY <1>0, FinalizeTrue
  <1>3. history' = Newest(Append(history, h), HistoryLimit)
    BY <1>1 DEF Record
  <1> HIDE DEF h
  <1> QED BY <1>0, <1>2, <1>3, HistoryStep

(* The dispatch's variables are always of their types, and the view shows a run that *)
(* has its controller and is not over, for any runs, events and clicks.              *)
THEOREM TypeCorrect == ASSUME DispatchAssumption PROVE Spec => []TypeOK
  <1> QED BY Says, Invariance, PTL

(* What the history says of a run is true, whatever the order of its events, its timeout *)
(* and a click, and also when clicks are so quick that two dispatches overlap.           *)
THEOREM HistoryIsTrue == ASSUME DispatchAssumption PROVE Spec => []StatusTrue
  <1> QED BY Says, Invariance, PTL

(* A cached graph of older pages is owed to a run that wrote and ended without saying so, *)
(* for any number of runs that overlap.                                                   *)
THEOREM GraphIsFresh == ASSUME DispatchAssumption PROVE Spec => []GraphFresh
  <1> QED BY Says, Invariance, PTL

(* A run that is recorded is the newest entry of a history within its limit. *)
THEOREM HistoryKeepsNewest == ASSUME DispatchAssumption PROVE Spec => [][HistoryNewest]_vars
  <1>1. Inv /\ [Next]_vars => [HistoryNewest]_vars
    BY Recording
  <1> QED BY <1>1, Invariance, PTL DEF Spec

(* One dispatch at a time stays alone: a click is taken when the others are over. *)
LEMMA AloneStep == ~QuickClicks /\ Inv /\ Alone /\ [Next]_vars => Alone'
  <1> SUFFICES ASSUME ~QuickClicks, Inv, Alone, [Next]_vars PROVE Alone'
    OBVIOUS
  <1>0. Control
    BY DEF Inv
  <1>1. ASSUME NEW r \in Runs, NEW s, Goes(r, s)
        PROVE  run'[r] = s /\ \A q \in Runs : q # r => run'[q] = run[q]
    BY <1>0, <1>1 DEF Goes, Control
  <1>2. ASSUME NEW r \in Runs, run[r].at \notin Idle, NEW s, Goes(r, s),
               s.at \in WithController => current' = r
        PROVE  Alone'
    <2>1. run'[r] = s /\ \A q \in Runs : q # r => run'[q] = run[q] /\ run[q].at \in Idle
      BY <1>1, <1>2 DEF Alone
    <2> QED BY <1>2, <2>1 DEF Alone, Idle, WithController
  <1>3. ASSUME NEW r \in Runs, NEW at PROVE [run[r] EXCEPT !.at = at].at = at
    BY <1>0 DEF Control, RunRecord
  <1>4. ASSUME NEW r \in Runs, NEW at, run[r].at \notin Idle, To(r, at),
               at \in WithController => current' = r \/ (run[r].at \in WithController /\ current' = current)
        PROVE  Alone'
    BY <1>2, <1>3, <1>4 DEF To, Alone
  <1>5. ASSUME NEW r \in Runs, run[r].at \in {"probe", "work"}, NEW s, Goes(r, s), current' = current PROVE Alone'
    BY <1>2, <1>5 DEF Alone, Idle, WithController
  <1>6. ASSUME NEW r \in Runs, NEW k \in Kinds, Dispatch(r, k) PROVE Alone'
    <2> DEFINE s == [Fresh EXCEPT !.at = "settings", !.kind = k]
    <2>1. s.at = "settings" /\ Goes(r, s) /\ \A q \in Runs : run[q].at \in Idle
      BY <1>6 DEF Dispatch, Fresh, Idle
    <2> HIDE DEF s
    <2>2. run'[r] = s /\ \A q \in Runs : q # r => run'[q] = run[q]
      BY <1>1, <2>1
    <2> QED BY <2>1, <2>2 DEF Alone, Idle, WithController
  <1>7. CASE CancelCurrent
    <2>1. current \in Runs /\ current' = current /\ \A q \in Runs : run'[q].at = run[q].at
      BY <1>0, <1>7 DEF CancelCurrent, Control, RunRecord
    <2> QED BY <2>1 DEF Alone
  <1>8. ASSUME NEW r \in Runs, Proceed(r) PROVE Alone'
    <2>1. CASE SettingsRead(r) \/ Prepared(r) \/ Started(r)
      BY <1>4, <2>1 DEF SettingsRead, Prepared, Started, Is, Idle, WithController
    <2>2. CASE Close(r) \/ Finish(r) \/ Record(r) \/ Shown(r)
      BY <1>4, <2>2 DEF Close, Finish, Record, Shown, Is, Idle, WithController
    <2>3. CASE Probed(r) \/ Ends(r)
      BY <1>5, <2>3 DEF Probed, Ends, Is, To
    <2> QED BY <1>8, <2>1, <2>2, <2>3 DEF Proceed
  <1>9. ASSUME NEW r \in Runs, Persist(r) \/ ReadGraph(r) \/ Timeout(r) \/ \E e \in Yields(run[r]) : Yield(r, e)
        PROVE  Alone'
    BY <1>5, <1>9 DEF Persist, ReadGraph, Timeout, Yield, Is
  <1>10. CASE UNCHANGED vars
    BY <1>10 DEF vars, Alone
  <1> QED BY <1>6, <1>7, <1>8, <1>9, <1>10 DEF Next

(* No run is there at first, and the run that works is the one to be cancelled. *)
LEMMA AloneBeginning == Init => Alone
  BY DEF Init, Alone, Fresh, Idle, WithController

LEMMA AloneSays == Alone => CancelReaches
  BY DEF Alone, CancelReaches, Is, WithController


(* The button reaches the run the user sees at work, as long as a click waits until the *)
(* dispatch before it is over.                                                          *)
THEOREM CancelIsHeard == ASSUME DispatchAssumption, ~QuickClicks PROVE Spec => []CancelReaches
  <1>1. Inv /\ Alone /\ [Next]_vars => Alone'
    BY AloneStep
  <1> QED BY <1>1, AloneBeginning, AloneSays, Invariance, PTL DEF Spec
=============================================================================
