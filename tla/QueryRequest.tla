---------------------------- MODULE QueryRequest ----------------------------
(***************************************************************************)
(* The streamed request of an answer (answerFromContext in                 *)
(* src/phases/query-answer.ts, runLintChat in src/phases/chat.ts, within   *)
(* runWithContextRepack of src/prompt-budget.ts): the optional units that  *)
(* fit are packed, the answer is streamed to the view, a stream that fails *)
(* before its first chunk is repeated as one response, without usage or    *)
(* with less context, and the user may stop it at any time.  The rows of   *)
(* the view's trace follow LlmLifecycle.                                   *)
(***************************************************************************)
EXTENDS LlmLifecycle, Integers, Sequences, FiniteSets

CONSTANTS
  Optional,  \* sizes of the optional units, the best first
  Required,  \* size of the system prompt and the question
  Budgets    \* inputBudgetTokens

QueryRequestAssumption ==
  /\ Optional \in Seq(Nat \ {0}) /\ Required \in Nat \ {0} /\ Budgets \subseteq Nat \ {0}

Units == DOMAIN Optional
Repacks == 2
Rows == 1..(3 * (Repacks + 1))

VARIABLES
  at,        \* "build", "stream", "fallback", "answered", "validating", "applying" or "end"
  stopped,
  native,    \* whether the client keeps the rows of its requests itself
  chat,      \* whether it is the chat: no repetition after a missing response
  budget,    \* effectiveInputBudget
  attempt,
  eligible,  \* units that may be packed
  packed,    \* those that are
  usage,     \* includeStreamUsage was not given up
  consumed,  \* streamChunkConsumed
  row, rows, \* the current row, and the phase of each
  outcome,   \* "none", "answered", "cancelled" or "failed"
  requests,  \* history: attempt, units and room of each request
  speaking,  \* history: requests whose text was shown
  rejections, learned  \* history: refusals for the context, and those reported to onContextError

vars == <<at, stopped, native, chat, budget, attempt, eligible, packed, usage, consumed, row, rows, outcome,
          requests, speaking, rejections, learned>>
trace == <<row, rows>>
history == <<requests, speaking>>
refusals == <<rejections, learned>>
context == <<budget, attempt, eligible, packed>>
fixed == <<stopped, native, chat>>

(* What the required part and some units take together.                    *)
Size(units) == Required + Cardinality(UNION {{u} \X (1..Optional[u]) : u \in units})

Init ==
  /\ at = "build" /\ stopped = FALSE /\ native \in BOOLEAN /\ chat \in BOOLEAN /\ budget \in Budgets /\ attempt = 0
  /\ eligible = Units /\ packed = {} /\ usage = TRUE /\ consumed = FALSE
  /\ row = 1 /\ rows = [r \in Rows |-> "none"] /\ outcome = "none"
  /\ requests = <<>> /\ speaking = {} /\ rejections = 0 /\ learned = 0

Stop == ~stopped /\ at # "end" /\ stopped' = TRUE
  /\ UNCHANGED <<at, native, chat, context, usage, consumed, trace, outcome, history, refusals>>

(* What the view makes of an event of a row, and of the three that open one. *)
Emit(r, event) == [rows EXCEPT ![r] = Reduce(@, event)]
Opened(phase) == Reduce(Reduce(Reduce(phase, "preparing"), "sent"), "waiting")

(* packContextUnits: in the order of their rank, every unit that still fits beside *)
(* the better ones that did.                                                       *)
Packs(units, candidates, room) ==
  /\ units \subseteq candidates
  /\ \A u \in candidates : u \in units <=> Size({v \in units : v < u} \cup {u}) <= room

(* All units but the last one.                                             *)
Front(units) == {u \in units : \E v \in units : u < v}

(* The run ends.  A client that keeps its rows has closed the request's row already. *)
End(how) ==
  /\ at' = "end" /\ outcome' = how
  /\ rows' = IF native THEN rows ELSE Emit(row, how)
  /\ UNCHANGED <<row, usage, consumed, history>>

(* A build, and the request it makes.  A second build may use what the one before packed, *)
(* but for the last unit of it.                                                           *)
Build ==
  /\ at = "build"
  /\ IF Required > budget THEN End("failed") /\ UNCHANGED <<packed, eligible>>
     ELSE /\ \E units \in SUBSET Units :
               /\ Packs(units, IF attempt = 0 THEN eligible ELSE Front(eligible), budget)
               /\ packed' = units /\ eligible' = units
               /\ requests' = Append(requests, [attempt |-> attempt, units |-> units, budget |-> budget])
          /\ at' = "stream" /\ consumed' = FALSE /\ usage' = TRUE
          /\ row' = IF attempt = 0 THEN row ELSE row + 1
          /\ rows' = [rows EXCEPT ![row'] = Opened(@)]
          /\ UNCHANGED <<outcome, speaking>>
  /\ UNCHANGED <<fixed, budget, attempt, refusals>>

(* A chunk, with or without text; text is shown at once.                   *)
Chunk ==
  /\ at = "stream" /\ consumed' = TRUE
  /\ \E text \in BOOLEAN :
       /\ speaking' = IF text THEN speaking \cup {Len(requests)} ELSE speaking
       /\ rows' = IF text /\ rows[row] = "waiting" THEN Emit(row, "producing") ELSE rows
  /\ UNCHANGED <<at, fixed, context, usage, row, outcome, requests, refusals>>

StreamEnds ==
  /\ at = "stream" /\ ~stopped /\ at' = "answered"
  /\ UNCHANGED <<fixed, context, usage, consumed, trace, outcome, history, refusals>>

(* The request of a stopped run ends with an AbortError.                   *)
Aborted ==
  /\ at \in {"stream", "fallback"} /\ stopped /\ at' = "end" /\ outcome' = "cancelled"
  /\ rows' = Emit(row, "cancelled")
  /\ UNCHANGED <<fixed, context, usage, consumed, row, history, refusals>>

(* A client that keeps its rows closes the row of a request that failed.   *)
Closed(phase) == IF native THEN Reduce(phase, "failed") ELSE phase

(* The request is repeated: its row is closed and the next one is opened.  *)
Repeated == [rows EXCEPT ![row] = Reduce(Closed(@), "retrying"), ![row + 1] = Opened(@)]

(* runWithContextRepack after an error of a request: less room, or the end. *)
Repack(reported) ==
  /\ learned' = learned + (IF reported THEN 1 ELSE 0)
  /\ IF attempt = Repacks \/ budget <= 1
     THEN /\ at' = "end" /\ outcome' = "failed" /\ UNCHANGED <<budget, attempt>>
          /\ rows' = IF native THEN Emit(row, "failed")
                     ELSE [rows EXCEPT ![row] = Reduce(Reduce(@, "retrying"), "failed")]
     ELSE /\ at' = "build" /\ attempt' = attempt + 1 /\ UNCHANGED outcome
          /\ \E next \in {(budget * 3) \div 4, budget \div 2} : budget' = IF next < 1 THEN 1 ELSE next
          /\ rows' = Emit(row, IF native THEN "failed" ELSE "retrying")

(* An error after the first chunk ends the run; nothing is learned from it. *)
FailLate ==
  /\ at = "stream" /\ consumed /\ ~stopped /\ at' = "end" /\ outcome' = "failed"
  /\ rows' = Emit(row, "failed")
  /\ rejections' \in {rejections, rejections + 1}
  /\ UNCHANGED <<fixed, context, usage, consumed, row, history, learned>>

(* The provider knows no usage of streams: once more without.              *)
WithoutUsage ==
  /\ at = "stream" /\ ~consumed /\ ~stopped /\ usage /\ usage' = FALSE /\ row' = row + 1
  /\ rows' = Repeated
  /\ requests' = Append(requests, [attempt |-> attempt, units |-> packed, budget |-> budget])
  /\ UNCHANGED <<at, fixed, context, consumed, outcome, speaking, refusals>>

(* An error that is neither of the transport nor of the provider: once more as one response. *)
FallBack ==
  /\ at = "stream" /\ ~consumed /\ ~stopped /\ at' = "fallback" /\ row' = row + 1
  /\ rows' = Repeated
  /\ requests' = Append(requests, [attempt |-> attempt, units |-> packed, budget |-> budget])
  /\ UNCHANGED <<fixed, context, usage, consumed, outcome, speaking, refusals>>

(* The prompt is too long for the provider.  With nothing left to leave out the error is *)
(* replaced by one that does not name the context any more.                              *)
TooLong ==
  /\ at \in {"stream", "fallback"} /\ (at = "stream" => ~consumed) /\ ~stopped
  /\ rejections' = rejections + 1
  /\ IF packed = {}
     THEN /\ at' = "end" /\ outcome' = "failed" /\ rows' = Emit(row, "failed")
          /\ UNCHANGED <<budget, attempt, learned>>
     ELSE Repack(TRUE)
  /\ UNCHANGED <<fixed, eligible, packed, usage, consumed, row, history>>

(* The client waited for the start of the response in vain; only such a client can tell. *)
NoResponse ==
  /\ at \in {"stream", "fallback"} /\ (at = "stream" => ~consumed) /\ ~stopped /\ native /\ ~chat
  /\ IF packed = {}
     THEN /\ at' = "end" /\ outcome' = "failed" /\ rows' = Emit(row, "failed") /\ UNCHANGED <<budget, attempt, learned>>
     ELSE Repack(FALSE)
  /\ UNCHANGED <<fixed, eligible, packed, usage, consumed, row, history, rejections>>

(* Any other error.                                                        *)
Fail ==
  /\ at \in {"stream", "fallback"} /\ (at = "stream" => ~consumed) /\ ~stopped
  /\ at' = "end" /\ outcome' = "failed" /\ rows' = Emit(row, "failed")
  /\ UNCHANGED <<fixed, context, usage, consumed, row, history, refusals>>

Responds ==
  /\ at = "fallback" /\ ~stopped /\ at' = "answered"
  /\ \E text \in BOOLEAN :
       /\ speaking' = IF text THEN speaking \cup {Len(requests)} ELSE speaking
       /\ rows' = IF text THEN Emit(row, "producing") ELSE rows
  /\ UNCHANGED <<fixed, context, usage, consumed, row, outcome, requests, refusals>>

(* The tail, with a look at the signal before each phase.                  *)
Show ==
  /\ at \in {"answered", "validating", "applying"}
  /\ IF stopped THEN at' = "end" /\ outcome' = "cancelled" /\ rows' = Emit(row, "cancelled")
     ELSE IF at = "applying" THEN at' = "end" /\ outcome' = "answered" /\ rows' = Emit(row, "completed")
     ELSE /\ at' = IF at = "answered" THEN "validating" ELSE "applying"
          /\ rows' = Emit(row, at') /\ UNCHANGED outcome
  /\ UNCHANGED <<fixed, context, usage, consumed, row, history, refusals>>

(* The request ends: a stream that goes on for ever is left to the client's timers. *)
Progress ==
  Build \/ StreamEnds \/ Aborted \/ FailLate \/ WithoutUsage \/ FallBack \/ TooLong \/ NoResponse \/ Fail \/ Responds \/ Show
Next == Stop \/ Chunk \/ Progress
Spec == Init /\ [][Next]_vars /\ WF_vars(Progress)

-----------------------------------------------------------------------------
(* Every variable has its type: the rows of a run are never used up, whatever is *)
(* repeated (runWithContextRepack, answerFromContext).                           *)
TypeOK ==
  /\ row \in Rows /\ rows \in [Rows -> RowPhases] /\ attempt \in 0..Repacks
  /\ budget \in Nat \ {0} /\ {learned, rejections} \subseteq Nat /\ learned <= rejections

(* "context retries keep a strict subset" (tests/query-budget.test.ts:452): a request that *)
(* follows a refusal has only units of the one before, and fewer.                          *)
StrictSubset ==
  \A i \in 1..(Len(requests) - 1) :
    requests[i + 1].attempt > requests[i].attempt =>
      /\ requests[i + 1].units \subseteq requests[i].units
      /\ requests[i + 1].units # requests[i].units

(* What is sent fits the room of its attempt.                              *)
RequestFits == \A i \in DOMAIN requests : Size(requests[i].units) <= requests[i].budget

(* The view shows the text of one request only, the one that is returned.  *)
OneVoice ==
  /\ Cardinality(speaking) <= 1
  /\ outcome = "answered" => speaking \subseteq {Len(requests)}

(* When the run is over no row is left open.                               *)
RowsClosed == at = "end" => \A r \in Rows : ~Open(rows[r])

(* The run ends.                                                           *)
Pending == at # "end"

-----------------------------------------------------------------------------
(* The inductive invariant of the run.  How many                            *)
(* rows were used, by the attempt and the repetitions within it.            *)
RowsUsed ==
  /\ at = "build" => row <= IF attempt = 0 THEN 1 ELSE 3 * attempt
  /\ at = "stream" => row <= 3 * attempt + IF usage THEN 1 ELSE 2
  /\ at \in {"fallback", "answered", "validating", "applying"} => row <= 3 * attempt + 3

(* Rows before the current one are closed, later ones are not begun; the    *)
(* current one is open while its request is.                                *)
RowsInTurn == \A r \in Rows : (r < row => ~Open(rows[r])) /\ (r > row => rows[r] = "none")

RowNow ==
  /\ at = "build" => IF attempt = 0 THEN rows[row] = "none" ELSE ~Open(rows[row])
  /\ at = "stream" => rows[row] = "waiting" \/ (consumed /\ rows[row] = "producing")
  /\ at = "fallback" => rows[row] = "waiting"
  /\ at = "end" => ~Open(rows[row])

(* Text is shown of the last request only, and before it nothing was.       *)
Voice ==
  /\ speaking \subseteq {Len(requests)}
  /\ at \in {"build", "fallback"} \/ (at = "stream" /\ ~consumed) => speaking = {}

(* What was sent: the last request is the one at work or the one whose      *)
(* refusal the next build follows, and then there was something to leave    *)
(* out; what is packed fits.                                                *)
Sent ==
  /\ {eligible, packed} \subseteq SUBSET Units
  /\ requests \in Seq([attempt : 0..Repacks, units : SUBSET Units, budget : Nat \ {0}])
  /\ at = "build" /\ attempt = 0 => requests = <<>>
  /\ at = "build" /\ attempt > 0 => packed # {}
  /\ at \in {"stream", "fallback"} => Size(packed) <= budget
  /\ at \in {"stream", "fallback"} \/ (at = "build" /\ attempt > 0) =>
       LET last == requests[Len(requests)]
       IN /\ requests # <<>> /\ eligible = packed /\ last.units = packed
          /\ last.attempt = IF at = "build" THEN attempt - 1 ELSE attempt

Traced == TypeOK /\ RowsUsed /\ RowsInTurn /\ RowNow /\ Voice
Inv == Traced /\ Sent /\ StrictSubset /\ RequestFits
=============================================================================
