---------------------------- MODULE LlmLifecycle ----------------------------
(***************************************************************************)
(* The trace of a model request that the view shows (src/llm-              *)
(* lifecycle.ts): the phases of a request, and the reducer that accepts or *)
(* refuses each event.  A refused event is an exception in the view, so    *)
(* the modules that emit events are checked against this reducer.          *)
(***************************************************************************)
EXTENDS Naturals

OrderedPhases == <<"preparing", "sent", "waiting", "producing", "validating", "applying">>

TerminalPhases == {"completed", "retrying", "failed", "cancelled"}

(* A row that does not exist, and a row for which an event was refused.    *)
RowPhases == {OrderedPhases[i] : i \in 1..6} \cup TerminalPhases \cup {"none", "refused"}

NextPhase(phase) ==
  CHOOSE q \in RowPhases : \E i \in 1..5 : OrderedPhases[i] = phase /\ OrderedPhases[i + 1] = q

(* What reduceLlmLifecycle makes of one event of a row.                    *)
Reduce(phase, event) ==
  CASE phase = "none" /\ event = "preparing" -> event
    [] phase = "applying" /\ event = "completed" -> event
    [] phase \in {OrderedPhases[i] : i \in 1..6} /\ event \in TerminalPhases \ {"completed"} -> event
    [] phase \in {OrderedPhases[i] : i \in 1..5} /\ event = NextPhase(phase) -> event
    [] OTHER -> "refused"

Open(phase) == \E i \in 1..6 : OrderedPhases[i] = phase
=============================================================================
