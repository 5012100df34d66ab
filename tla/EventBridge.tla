---------------------------- MODULE EventBridge ----------------------------
(***************************************************************************)
(* RunEventBridge (src/run-event-bridge.ts) turns the events that a        *)
(* promise-returning operation pushes through a callback into a generator  *)
(* the run can forward.  The operation and its callbacks push whenever     *)
(* they like; the generator hands one event over, waits for the consumer,  *)
(* and sleeps on a promise when the queue is empty.  A phase uses one      *)
(* bridge for several operations, one after the other.                     *)
(*                                                                         *)
(* Events are numbered in the order in which they are pushed.  The end of  *)
(* a successful operation takes two steps: a return statement of an async  *)
(* generator awaits its value before the finally block runs.               *)
(***************************************************************************)
EXTENDS Naturals, Sequences, TLAPS

CONSTANTS MaxEvents, MaxForwards

ASSUME BoundsAssumption == {MaxEvents, MaxForwards} \subseteq Nat

VARIABLES
  queue, cursor, wake, closed, forwarding, abandoned,   \* the bridge's fields
  pc,           \* where the generator is suspended
  settlement,   \* of the operation that is forwarded
  callerAborted, workAborted,   \* the caller's signal, the operation's own
  pushed,       \* how many events were pushed to an open bridge
  forwards,     \* how many operations were forwarded
  received,     \* history: the events handed to the consumer
  owed          \* history: the events pushed before their operation settled

fields == <<queue, cursor, wake, closed, forwarding, abandoned>>
history == <<received, owed>>
signals == <<callerAborted, workAborted>>
vars == <<fields, pc, settlement, signals, pushed, forwards, history>>

Settlement == {"pending", "ok", "error"}

Pending == {queue[i] : i \in (cursor + 1)..Len(queue)}

Init ==
  /\ queue = <<>> /\ cursor = 0 /\ wake = FALSE
  /\ closed = FALSE /\ forwarding = FALSE /\ abandoned = FALSE
  /\ pc = "idle" /\ settlement = "pending"
  /\ callerAborted = FALSE /\ workAborted = FALSE
  /\ pushed = 0 /\ forwards = 0 /\ received = {} /\ owed = {}

(* this.wake?.(); this.wake = undefined                                    *)
Wake ==
  /\ pc' = IF wake THEN "ready" ELSE pc
  /\ wake' = FALSE

(* A mutated form: an event does not wake the generator.                   *)
PushQuietly ==
  /\ ~closed /\ pushed < MaxEvents
  /\ pushed' = pushed + 1
  /\ queue' = Append(queue, pushed + 1)
  /\ owed' = IF forwarding /\ settlement # "pending" THEN owed ELSE owed \cup {pushed + 1}
  /\ UNCHANGED <<cursor, wake, closed, forwarding, abandoned, pc, settlement, signals,
                 forwards, received>>

(* A closed bridge drops the event.  An event that arrives when the        *)
(* operation has settled but is still being forwarded is late.             *)
Push ==
  /\ ~closed /\ pushed < MaxEvents
  /\ pushed' = pushed + 1
  /\ queue' = Append(queue, pushed + 1)
  /\ Wake
  /\ owed' = IF forwarding /\ settlement # "pending" THEN owed ELSE owed \cup {pushed + 1}
  /\ UNCHANGED <<cursor, closed, forwarding, abandoned, settlement, signals,
                 forwards, received>>

(* A mutated form: the settlement does not wake the generator.             *)
SettleQuietly ==
  /\ forwards > 0 /\ settlement = "pending"
  /\ settlement' \in {"ok", "error"}
  /\ UNCHANGED <<fields, pc, signals, pushed, forwards, history>>

(* The operation resolves or rejects, also after it was abandoned.         *)
Settle ==
  /\ forwards > 0 /\ settlement = "pending"
  /\ settlement' \in {"ok", "error"}
  /\ Wake
  /\ UNCHANGED <<queue, cursor, closed, forwarding, abandoned, signals, pushed,
                 forwards, history>>

(* A mutated form: the new operation starts with an empty queue.           *)
ForwardAfresh ==
  /\ pc = "idle" /\ ~abandoned /\ forwards < MaxForwards
  /\ forwarding' = TRUE /\ closed' = FALSE /\ cursor' = 0 /\ queue' = <<>>
  /\ settlement' = "pending" /\ pc' = "ready"
  /\ workAborted' = callerAborted
  /\ forwards' = forwards + 1
  /\ UNCHANGED <<wake, abandoned, callerAborted, pushed, history>>

(* forwardAbortable and forward, up to the loop.  Events pushed since the  *)
(* last operation are still queued.                                        *)
Forward ==
  /\ pc = "idle" /\ ~abandoned /\ forwards < MaxForwards
  /\ forwarding' = TRUE /\ closed' = FALSE /\ cursor' = 0
  /\ settlement' = "pending" /\ pc' = "ready"
  /\ workAborted' = callerAborted
  /\ forwards' = forwards + 1
  /\ UNCHANGED <<queue, wake, abandoned, callerAborted, pushed, history>>

(* A mutated form: the finally block rewinds a queue it does not empty.    *)
FinallyRewinds(drained) ==
  /\ abandoned' = (abandoned \/ ~drained)
  /\ closed' = (abandoned \/ ~drained)
  /\ cursor' = 0 /\ wake' = FALSE /\ forwarding' = FALSE
  /\ workAborted' = (workAborted \/ ~drained)
  /\ pc' = "idle" /\ UNCHANGED queue

(* A mutated form: onCancel is not called.                                 *)
FinallyUncancelled(drained) ==
  /\ abandoned' = (abandoned \/ ~drained)
  /\ closed' = (abandoned \/ ~drained)
  /\ queue' = <<>> /\ cursor' = 0 /\ wake' = FALSE /\ forwarding' = FALSE
  /\ pc' = "idle" /\ UNCHANGED workAborted

(* The finally blocks of forward and forwardAbortable.  Unless everything  *)
(* was drained the bridge is abandoned for good and the operation aborted. *)
Finally(drained) ==
  /\ abandoned' = (abandoned \/ ~drained)
  /\ closed' = (abandoned \/ ~drained)
  /\ queue' = <<>> /\ cursor' = 0 /\ wake' = FALSE /\ forwarding' = FALSE
  /\ workAborted' = (workAborted \/ ~drained)
  /\ pc' = "idle"

(* One turn of the loop, up to the next yield or await.                    *)
Yield ==
  /\ pc = "ready" /\ cursor < Len(queue)
  /\ cursor' = cursor + 1
  /\ received' = received \cup {queue[cursor + 1]}
  /\ pc' = "yielded"
  /\ UNCHANGED <<queue, wake, closed, forwarding, abandoned, settlement, signals,
                 pushed, forwards, owed>>

Sleep ==
  /\ pc = "ready" /\ cursor = Len(queue) /\ settlement = "pending"
  /\ wake' = TRUE /\ pc' = "sleeping"
  /\ UNCHANGED <<queue, cursor, closed, forwarding, abandoned, settlement, signals,
                 pushed, forwards, history>>

(* The loop has ended: the value is awaited, an error is thrown at once.   *)
Drained ==
  /\ pc = "ready" /\ cursor = Len(queue) /\ settlement # "pending"
  /\ IF settlement = "ok"
       THEN pc' = "returning" /\ UNCHANGED <<fields, workAborted>>
       ELSE Finally(TRUE)
  /\ UNCHANGED <<settlement, callerAborted, pushed, forwards, history>>

Return ==
  /\ pc = "returning"
  /\ Finally(TRUE)
  /\ UNCHANGED <<settlement, callerAborted, pushed, forwards, history>>

(* The consumer asks for the next event, or leaves the generator.          *)
Ask ==
  /\ pc = "yielded" /\ pc' = "ready"
  /\ UNCHANGED <<fields, settlement, signals, pushed, forwards, history>>

Leave ==
  /\ pc = "yielded"
  /\ Finally(FALSE)
  /\ UNCHANGED <<settlement, callerAborted, pushed, forwards, history>>

(* The caller's signal reaches the operation while it is forwarded.        *)
CallerAbort ==
  /\ ~callerAborted /\ callerAborted' = TRUE
  /\ workAborted' = (workAborted \/ forwarding)
  /\ UNCHANGED <<fields, pc, settlement, pushed, forwards, history>>

Next == \/ Push \/ Settle \/ Forward \/ Yield \/ Sleep \/ Drained \/ Return
        \/ Ask \/ Leave \/ CallerAbort

Spec == Init /\ [][Next]_vars

(* The event loop resumes a woken generator; the run's for-await loop asks *)
(* again or leaves.  The operation need not settle.                        *)
FairSpec ==
  /\ Spec
  /\ WF_vars(Yield \/ Sleep \/ Drained \/ Return)
  /\ WF_vars(Ask \/ Leave)

-----------------------------------------------------------------------------
QueueOK ==
  /\ queue \in Seq(Nat) /\ cursor \in 0..Len(queue)
  /\ pushed \in Nat /\ forwards \in Nat
  /\ received \subseteq Nat /\ owed \subseteq Nat

StateOK ==
  /\ wake \in BOOLEAN /\ closed \in BOOLEAN /\ forwarding \in BOOLEAN
  /\ abandoned \in BOOLEAN /\ callerAborted \in BOOLEAN /\ workAborted \in BOOLEAN
  /\ pc \in {"idle", "ready", "yielded", "sleeping", "returning"}
  /\ settlement \in Settlement

(* The fields of the bridge, in particular its cursor into the queue, are  *)
(* of their types.                                                         *)
TypeOK == QueueOK /\ StateOK

(* A generator that sleeps has something that will wake it: no event is    *)
(* waiting, the operation has not settled, and wake is set, whatever was   *)
(* pushed or settled between its last look at the queue and its sleep.     *)
NoLostWakeup ==
  pc = "sleeping" => wake /\ Pending = {} /\ settlement = "pending"

(* Until somebody leaves the bridge, an event that was pushed before its   *)
(* operation settled is queued or was handed over, over any number of      *)
(* operations forwarded through one bridge.                                *)
NothingLost == ~abandoned => owed \subseteq received \cup Pending

(* An event is handed over after all the events pushed before it that are  *)
(* handed over at all, and never twice.                                    *)
HandsOverNext ==
  pc = "ready" /\ pc' = "yielded" => \A e \in received : e < queue[cursor']

InOrder == [][HandsOverNext]_vars

(* A consumer that leaves early aborts the operation and nothing is kept   *)
(* for it any more; an abort of the caller reaches a forwarded operation.  *)
LeavingAborts ==
  /\ abandoned => workAborted /\ closed /\ queue = <<>> /\ ~forwarding
  /\ callerAborted /\ forwarding => workAborted

(* An event that was pushed is handed over or the consumer has left, even  *)
(* when the operation goes on for ever.  An event pushed when its          *)
(* operation had settled, or after the last one, has no such promise.      *)
Delivered == \A e \in 1..MaxEvents :
  e \in owed /\ forwarding ~> e \in received \/ abandoned

-----------------------------------------------------------------------------
(* Proofs: no wakeup is lost, nothing that is owed is lost, and events stay *)
(* in order, for any number of events and of operations forwarded through   *)
(* one bridge.  Facts about the queue and facts about the flags are kept in *)
(* separate conjuncts of the invariant and in separate steps.               *)

(* The queue holds event numbers in order, all at most pushed, and what is *)
(* still to come follows everything that was received.                     *)
Ordered ==
  /\ \A i, j \in 1..Len(queue) : i < j => queue[i] < queue[j]
  /\ \A i \in 1..Len(queue) : queue[i] <= pushed
  /\ \A e \in received : e <= pushed
  /\ \A e \in received : \A i \in (cursor + 1)..Len(queue) : e < queue[i]

(* Where the generator is suspended tells how far it has read the queue.   *)
Position ==
  /\ pc = "idle" => cursor = 0
  /\ pc = "sleeping" => cursor = Len(queue)
  /\ pc = "returning" => \A i \in (cursor + 1)..Len(queue) : queue[i] \notin owed

Control ==
  /\ forwarding = (pc # "idle")
  /\ wake = (pc = "sleeping")
  /\ pc = "sleeping" => settlement = "pending"
  /\ pc = "returning" => settlement # "pending"
  /\ abandoned => closed /\ pc = "idle"

Owed == owed \subseteq 1..pushed

Inv == TypeOK /\ Ordered /\ Position /\ Control /\ Owed /\ NothingLost

(* The invariant holds at first.                                           *)
LEMMA Start == Init => Inv
  <1> SUFFICES ASSUME Init PROVE Inv
    OBVIOUS
  <1>1. queue = <<>> /\ Len(queue) = 0 /\ queue \in Seq(Nat)
    BY DEF Init
  <1>2. QueueOK
    BY <1>1 DEF Init, QueueOK
  <1>3. StateOK
    BY DEF Init, StateOK, Settlement
  <1>4. Ordered /\ Owed /\ NothingLost /\ Position
    BY <1>1 DEF Init, Ordered, Owed, NothingLost, Position
  <1>5. Control
    BY DEF Init, Control
  <1> QED BY <1>2, <1>3, <1>4, <1>5 DEF Inv, TypeOK

(* An appended event is the last of the queue and follows all others.      *)
LEMMA AppendPending ==
  ASSUME QueueOK, NEW e \in Nat, queue' = Append(queue, e), cursor' = cursor
  PROVE  /\ Len(queue') = Len(queue) + 1
         /\ queue'[Len(queue) + 1] = e
         /\ \A i \in 1..Len(queue) : queue'[i] = queue[i]
         /\ Pending' = Pending \cup {e}
         /\ queue' \in Seq(Nat)
  <1>1. queue \in Seq(Nat) /\ cursor \in 0..Len(queue) /\ Len(queue) \in Nat
    BY DEF QueueOK
  <1>2. /\ Len(queue') = Len(queue) + 1
        /\ queue'[Len(queue) + 1] = e
        /\ \A i \in 1..Len(queue) : queue'[i] = queue[i]
        /\ queue' \in Seq(Nat)
    BY <1>1
  <1>3. Pending' \subseteq Pending \cup {e}
    BY <1>1, <1>2 DEF Pending
  <1>4. Pending \cup {e} \subseteq Pending'
    BY <1>1, <1>2 DEF Pending
  <1> QED BY <1>2, <1>3, <1>4

(* A callback appends an event and wakes the generator.                    *)
LEMMA PushStep == Inv /\ Push => Inv'
  <1> SUFFICES ASSUME Inv, Push PROVE Inv'
    OBVIOUS
  <1>0. /\ QueueOK /\ StateOK /\ Ordered /\ Position /\ Control /\ Owed /\ NothingLost
        /\ pushed + 1 \in Nat /\ queue' = Append(queue, pushed + 1) /\ cursor' = cursor
    BY DEF Push, Inv, TypeOK, QueueOK
  <1>1. /\ Len(queue') = Len(queue) + 1
        /\ queue'[Len(queue) + 1] = pushed + 1
        /\ \A i \in 1..Len(queue) : queue'[i] = queue[i]
        /\ Pending' = Pending \cup {pushed + 1}
        /\ queue' \in Seq(Nat)
    BY <1>0, AppendPending
  <1>2. QueueOK'
    BY <1>0, <1>1 DEF Push, QueueOK
  <1>3. StateOK' /\ Control'
    BY <1>0 DEF Push, Wake, StateOK, Control, signals
  <1>4. Ordered'
    BY <1>0, <1>1 DEF Push, Ordered, QueueOK
  <1>5. Owed'
    BY <1>0 DEF Push, Owed, QueueOK
  <1>6. NothingLost'
    BY <1>0, <1>1 DEF Push, NothingLost
  <1>7. Position'
    <2>1. pc' = pc \/ pc' = "ready"
      BY DEF Push, Wake
    <2>2. pc' # "sleeping" /\ (pc' = "idle" => pc = "idle")
      BY <1>0, <2>1 DEF Push, Wake, Control
    <2>3. ASSUME pc' = "returning"
          PROVE  \A i \in (cursor + 1)..(Len(queue) + 1) : queue'[i] \notin owed'
      <3>1. pc = "returning" /\ forwarding /\ settlement # "pending"
        BY <1>0, <2>1, <2>3 DEF Control
      <3>2. owed' = owed
        BY <3>1 DEF Push
      <3>3. pushed + 1 \notin owed
        BY <1>0 DEF Owed, QueueOK
      <3> QED BY <3>1, <3>2, <3>3, <1>0, <1>1 DEF Position, QueueOK
    <2> QED BY <2>2, <2>3, <1>0, <1>1 DEF Position
  <1> QED BY <1>2, <1>3, <1>4, <1>5, <1>6, <1>7 DEF Inv, TypeOK

(* The steps that leave the queue and the received events alone.           *)
LEMMA QuietStep == Inv /\ (Settle \/ Sleep \/ Ask \/ CallerAbort) => Inv'
  <1> SUFFICES ASSUME Inv, Settle \/ Sleep \/ Ask \/ CallerAbort PROVE Inv'
    OBVIOUS
  <1>1. UNCHANGED <<queue, cursor, received, owed, pushed, forwards, abandoned>>
    BY DEF Settle, Sleep, Ask, CallerAbort, fields, history
  <1>2. QueueOK' /\ Ordered' /\ Owed' /\ NothingLost'
    BY <1>1 DEF Inv, TypeOK, QueueOK, Ordered, Owed, NothingLost, Pending
  <1>3. StateOK /\ Control
    BY DEF Inv, TypeOK
  <1>4. StateOK' /\ Control'
    BY <1>3 DEF Settle, Sleep, Ask, CallerAbort, Wake, StateOK, Settlement, Control,
                fields, signals
  <1>5. Position'
    BY <1>1, <1>3 DEF Inv, Settle, Sleep, Ask, CallerAbort, Wake, Position, Control, fields
  <1> QED BY <1>2, <1>4, <1>5 DEF Inv, TypeOK

(* The next operation starts with the queue as it is.                      *)
LEMMA ForwardStep == Inv /\ Forward => Inv'
  <1> SUFFICES ASSUME Inv, Forward PROVE Inv'
    OBVIOUS
  <1>1. StateOK' /\ Control'
    BY DEF Inv, TypeOK, Forward, StateOK, Settlement, Control, history
  <1>2. cursor = 0 /\ cursor' = cursor /\ UNCHANGED <<queue, received, owed, pushed, abandoned>>
    BY DEF Inv, Position, Forward, history
  <1>3. QueueOK' /\ Ordered' /\ Owed' /\ NothingLost'
    BY <1>2 DEF Forward, Inv, TypeOK, QueueOK, Ordered, Owed, NothingLost, Pending
  <1>4. Position'
    BY <1>2 DEF Forward, Position
  <1> QED BY <1>1, <1>3, <1>4 DEF Inv, TypeOK

(* The head of the queue is handed over.                                   *)
LEMMA YieldStep ==
  ASSUME Inv, Yield
  PROVE  Inv' /\ HandsOverNext
  <1>0. QueueOK /\ StateOK /\ Ordered /\ Control /\ Owed /\ NothingLost
    BY DEF Inv, TypeOK
  <1>1. /\ queue \in Seq(Nat) /\ cursor \in Nat /\ cursor + 1 \in 1..Len(queue)
        /\ queue' = queue /\ cursor' = cursor + 1
        /\ received' = received \cup {queue[cursor + 1]}
    BY <1>0 DEF Yield, QueueOK
  <1>2. QueueOK'
    <2>1. queue[cursor + 1] \in Nat /\ cursor + 1 \in 0..Len(queue)
      BY <1>1
    <2> QED BY <1>0, <1>1, <2>1 DEF Yield, QueueOK
  <1>3. StateOK' /\ Control'
    BY <1>0 DEF Yield, StateOK, Control, signals
  <1>4. Ordered'
    <2>1. \A i \in (cursor + 2)..Len(queue) : queue[cursor + 1] < queue[i]
      BY <1>0, <1>1 DEF Ordered
    <2> QED BY <1>0, <1>1, <2>1 DEF Yield, Ordered, QueueOK
  <1>5. Pending \subseteq Pending' \cup {queue[cursor + 1]}
    BY <1>1 DEF Pending
  <1>6. Owed' /\ NothingLost' /\ Position'
    BY <1>0, <1>1, <1>5 DEF Yield, Owed, NothingLost, Position
  <1>7. HandsOverNext
    BY <1>0, <1>1 DEF HandsOverNext, Ordered
  <1> QED BY <1>2, <1>3, <1>4, <1>6, <1>7 DEF Inv, TypeOK

(* The finally block empties the queue: whatever it drops is not owed.     *)
LEMMA FinallyStep ==
  ASSUME Inv, NEW drained \in BOOLEAN, Finally(drained),
         UNCHANGED <<settlement, callerAborted, pushed, forwards, history>>,
         drained => Pending \cap owed = {}
  PROVE  Inv'
  <1>0. QueueOK /\ StateOK /\ Ordered /\ Control /\ Owed /\ NothingLost
    BY DEF Inv, TypeOK
  <1>1. /\ queue' = <<>> /\ Len(queue') = 0 /\ queue' \in Seq(Nat) /\ cursor' = 0
        /\ pc' = "idle"
    BY DEF Finally
  <1>2. QueueOK' /\ Ordered' /\ Owed' /\ Position'
    BY <1>0, <1>1 DEF QueueOK, Ordered, Owed, Position, history
  <1>3. StateOK' /\ Control'
    BY <1>0 DEF Finally, StateOK, Control
  <1>4. NothingLost'
    BY <1>0 DEF Finally, NothingLost, history
  <1> QED BY <1>2, <1>3, <1>4 DEF Inv, TypeOK

(* The generator returns, or the consumer leaves it.                       *)
LEMMA EndStep == Inv /\ (Drained \/ Return \/ Leave) => Inv'
  <1> SUFFICES ASSUME Inv, Drained \/ Return \/ Leave PROVE Inv'
    OBVIOUS
  <1>1. CASE Leave
    BY <1>1, FinallyStep DEF Leave
  <1>2. CASE Return
    <2>1. Pending \cap owed = {}
      BY <1>2 DEF Return, Inv, Position, Pending
    <2> QED BY <1>2, <2>1, FinallyStep DEF Return
  <1>3. CASE Drained
    <2>1. Pending = {}
      BY <1>3 DEF Drained, Inv, TypeOK, QueueOK, Pending
    <2>2. CASE settlement = "ok"
      <3>1. UNCHANGED <<queue, cursor, received, owed, pushed, forwards, abandoned>>
        BY <1>3, <2>2 DEF Drained, fields, history
      <3>2. QueueOK' /\ Ordered' /\ Owed' /\ NothingLost'
        BY <3>1 DEF Inv, TypeOK, QueueOK, Ordered, Owed, NothingLost, Pending
      <3>3. StateOK' /\ Control'
        BY <1>3, <2>2 DEF Drained, Inv, TypeOK, StateOK, Control, fields
      <3>4. Position'
        BY <1>3, <2>1, <2>2, <3>1 DEF Drained, Position, Pending
      <3> QED BY <3>2, <3>3, <3>4 DEF Inv, TypeOK
    <2>3. CASE settlement # "ok"
      BY <1>3, <2>1, <2>3, FinallyStep DEF Drained
    <2> QED BY <2>2, <2>3
  <1> QED BY <1>1, <1>2, <1>3

(* A stuttering step.                                                      *)
LEMMA Stutter == Inv /\ UNCHANGED vars => Inv'
  BY DEF Inv, vars, fields, signals, history, TypeOK, QueueOK, StateOK, Ordered,
         Position, Control, Owed, NothingLost, Pending

(* Every step keeps the invariant.                                         *)
LEMMA Step == Inv /\ [Next]_vars => Inv'
  BY PushStep, QuietStep, ForwardStep, YieldStep, EndStep, Stutter DEF Next

(* The invariant always holds.                                             *)
LEMMA Invariance == Spec => []Inv
  BY Start, Step, PTL DEF Spec

(* A sleeping generator always has something that will wake it: the check  *)
(* of the queue and the sleep are one step of the event loop.              *)
THEOREM NeverSleepsOn == Spec => []NoLostWakeup
  <1>1. ASSUME Inv, pc = "sleeping"
        PROVE  wake /\ Pending = {} /\ settlement = "pending"
    <2>1. Pending = {}
      BY <1>1 DEF Inv, TypeOK, QueueOK, Position, Pending
    <2> QED BY <1>1, <2>1 DEF Inv, Control
  <1>2. Inv => NoLostWakeup
    BY <1>1 DEF NoLostWakeup
  <1> QED BY Invariance, <1>2, PTL

(* Until the consumer leaves, what was pushed in time is queued or handed  *)
(* over.                                                                   *)
THEOREM KeepsWhatIsOwed == Spec => []NothingLost
  <1>1. Inv => NothingLost
    BY DEF Inv
  <1> QED BY Invariance, <1>1, PTL

(* Events are handed over in the order they were pushed, none twice.       *)
THEOREM KeepsOrder == Spec => InOrder
  <1>1. Inv /\ [Next]_vars => [HandsOverNext]_vars
    <2> SUFFICES ASSUME Inv, Next PROVE HandsOverNext
      OBVIOUS
    <2>1. CASE Yield
      BY <2>1, YieldStep
    <2>2. CASE ~Yield
      BY <2>2 DEF Next, Push, Settle, Forward, Sleep, Drained, Return, Ask, Leave,
                  CallerAbort, Wake, Finally, HandsOverNext, Inv, Control
    <2> QED BY <2>1, <2>2
  <1> QED BY Invariance, <1>1, PTL DEF Spec, InOrder

(* A bridge that was left stays closed and empty, and its operation stays  *)
(* aborted: nothing is forwarded through it again.                         *)
LEMMA LeavingStep == Inv /\ LeavingAborts /\ [Next]_vars => LeavingAborts'
  <1> SUFFICES ASSUME Inv, LeavingAborts, [Next]_vars PROVE LeavingAborts'
    OBVIOUS
  <1>0. StateOK /\ Control
    BY DEF Inv, TypeOK
  <1> USE DEF LeavingAborts, Control
  <1>1. CASE Push
    BY <1>0, <1>1 DEF Push, signals
  <1>2. CASE Settle \/ Yield \/ Sleep \/ Ask
    BY <1>0, <1>2 DEF Settle, Yield, Sleep, Ask, fields, signals
  <1>3. CASE Forward
    BY <1>3 DEF Forward
  <1>4. ASSUME NEW drained \in BOOLEAN, pc # "idle", Finally(drained), callerAborted' = callerAborted
        PROVE  LeavingAborts'
    BY <1>0, <1>4 DEF Finally
  <1>5. CASE Drained
    BY <1>0, <1>4, <1>5 DEF Drained, fields
  <1>6. CASE Return \/ Leave
    BY <1>4, <1>6 DEF Return, Leave
  <1>7. CASE CallerAbort
    BY <1>0, <1>7 DEF CallerAbort, fields
  <1>8. CASE UNCHANGED vars
    BY <1>8 DEF vars, fields, signals
  <1> QED BY <1>1, <1>2, <1>3, <1>5, <1>6, <1>7, <1>8 DEF Next

(* A consumer that leaves early aborts the operation, for good, and keeps  *)
(* nothing for it; a caller's abort reaches the operation it forwards.     *)
THEOREM LeavingAbortsWork == Spec => []LeavingAborts
  <1>1. Init => LeavingAborts
    BY DEF Init, LeavingAborts
  <1> QED BY <1>1, LeavingStep, Invariance, PTL DEF Spec
=============================================================================
