----------------------------- MODULE LintChat ------------------------------
(***************************************************************************)
(* The correction of pages from the chat that follows a check              *)
(* (runLintFixChat in src/phases/lint-chat.ts): the pages the instruction  *)
(* means are selected and fitted into the budget, the model answers with   *)
(* patches, and these are written one by one while the user may stop the   *)
(* run between any two steps of it.                                        *)
(***************************************************************************)
EXTENDS Naturals, Sequences, FiniteSets, FiniteSetsExt, SequencesExt

CONSTANTS
  Pages,
  Size,        \* of a page in the prompt; the instruction, the conventions and a message have size 1
  Budgets,     \* inputBudgetTokens
  MaxOlder,    \* bound: messages before the instruction
  MaxPatches   \* bound: patches of an answer

LintChatAssumption == /\ Size \in Nat /\ Budgets \subseteq Nat \ {0} /\ {MaxOlder, MaxPatches} \subseteq Nat

VARIABLES
  at,        \* "select", "fit", "ask", "answer", "turn", "used", "applying", "index", "close" or "end"
  stopped,   \* the signal
  budget,    \* effectiveInputBudget
  limit,     \* the configured one
  explicit,  \* whether the instruction names pages
  active,    \* activePaths, in order
  schema,    \* includeSchema
  older,     \* messages before the instruction
  attempt,
  kept,      \* those of them in the prompt
  patches, turn,    \* of the answer: <<page, whether it applies>>
  written, indexed, \* pages written, pages whose records are up to date
  applying, succeeded, failed, pending,  \* writeSucceeded, writeFailed, stoppedWithPendingPatches
  phases,    \* history: the lifecycle's phases
  late       \* history: a write began after the user stopped the run

vars == <<at, stopped, budget, limit, explicit, active, schema, older, attempt, kept, patches, turn,
          written, indexed, applying, succeeded, failed, pending, phases, late>>
prompt == <<limit, explicit, active, schema, older>>
sending == <<budget, attempt, kept>>
effects == <<written, indexed, late>>
flags == <<applying, succeeded, failed, pending>>

Terminals == {"completed", "failed", "cancelled"}
Phase(p) == phases' = Append(phases, p)
(* A lifecycle is closed once.                                             *)
Close(p) == phases' = IF phases = <<>> \/ Last(phases) \in Terminals THEN phases ELSE Append(phases, p)

Init ==
  /\ at = "select" /\ stopped = FALSE /\ limit \in Budgets /\ budget = limit /\ explicit \in BOOLEAN
  /\ active = <<>> /\ schema = TRUE /\ older \in 0..MaxOlder /\ attempt = 0 /\ kept = 0
  /\ patches = <<>> /\ turn = 1 /\ written = {} /\ indexed = Pages
  /\ applying = FALSE /\ succeeded = FALSE /\ failed = FALSE /\ pending = FALSE
  /\ phases = <<>> /\ late = FALSE

Stop ==
  /\ ~stopped /\ at # "end" /\ stopped' = TRUE
  /\ UNCHANGED <<at, prompt, sending, patches, turn, effects, flags, phases>>

(* selectReferencedPages: those the instruction names, else the best of the report. *)
Select ==
  /\ at = "select" /\ at' = "fit"
  /\ \E S \in SUBSET Pages : active' = SetToSeq(S)
  /\ UNCHANGED <<stopped, limit, explicit, schema, older, sending, patches, turn, effects, flags, phases>>

Fixed(paths, conventions) == 1 + Len(paths) * Size + (IF conventions THEN 1 ELSE 0)

(* Pages the instruction did not name are left out from the end until it fits, then the *)
(* conventions; what does not fit then is an error, as is having no page left.          *)
Fit ==
  /\ at = "fit"
  /\ LET fitting == {n \in 0..Len(active) : Fixed(SubSeq(active, 1, n), TRUE) <= limit}
         n == IF explicit THEN Len(active) ELSE Max({0} \cup fitting)
         paths == SubSeq(active, 1, n)
         conventions == Fixed(paths, TRUE) <= limit
     IN /\ active' = paths /\ schema' = conventions
        /\ at' = IF (active # <<>> /\ n = 0) \/ Fixed(paths, conventions) > limit THEN "end" ELSE "ask"
  /\ UNCHANGED <<stopped, limit, explicit, older, sending, patches, turn, effects, flags, phases>>

(* buildLintChatMessagesWithinBudget: the oldest messages are left out two by two. *)
Keeping(room) ==
  LET numbers == {k \in 0..older : (older - k) % 2 = 0 /\ Fixed(active, schema) + k <= room}
  IN Max({0} \cup numbers)

Ask ==
  /\ at = "ask"
  /\ IF Fixed(active, schema) > budget
     THEN at' = "end" /\ UNCHANGED kept
     ELSE at' = "answer" /\ kept' = Keeping(budget)
  /\ UNCHANGED <<stopped, prompt, budget, attempt, patches, turn, effects, flags, phases>>

(* The prompt is too long for the provider: twice a smaller budget.        *)
TooLong ==
  /\ at = "answer"
  /\ IF attempt = 2 \/ budget <= 1 THEN at' = "end" /\ UNCHANGED <<attempt, budget>>
     ELSE at' = "ask" /\ attempt' = attempt + 1 /\ budget' = Max({1, (budget * 3) \div 4})
  /\ UNCHANGED <<stopped, prompt, kept, patches, turn, effects, flags, phases>>

(* The request fails, or it is stopped while it waits or right after it.   *)
NoAnswer ==
  /\ at = "answer" /\ at' = "end"
  /\ phases' = IF stopped THEN <<"validating", "cancelled">> ELSE <<>>
  /\ UNCHANGED <<stopped, prompt, sending, patches, turn, effects, flags>>

Answered ==
  /\ at = "answer" /\ ~stopped /\ at' = "turn" /\ Phase("validating")
  /\ \E n \in 0..MaxPatches : patches' \in [1..n -> Pages \X BOOLEAN]
  /\ UNCHANGED <<stopped, prompt, sending, turn, effects, flags>>

More == turn + 1 <= Len(patches)
Page == patches[turn][1]
NextTurn == at' = "turn" /\ turn' = turn + 1

(* The head of the loop: a stopped run leaves the rest when it wrote something before. *)
Turn ==
  /\ at = "turn" /\ turn <= Len(patches)
  /\ IF ~stopped THEN at' = "used" /\ UNCHANGED <<pending, phases>>
     ELSE IF succeeded \/ failed THEN at' = "close" /\ pending' = TRUE /\ UNCHANGED phases
     ELSE at' = "end" /\ Close("cancelled") /\ UNCHANGED pending
  /\ UNCHANGED <<stopped, prompt, sending, patches, turn, effects, applying, succeeded, failed>>

(* A failure of a turn is counted; a stopped run goes on to no other patch. *)
Failing ==
  /\ failed' = TRUE
  /\ IF stopped /\ More THEN at' = "close" /\ pending' = TRUE /\ UNCHANGED turn
     ELSE NextTurn /\ UNCHANGED pending

(* A patch for a page that was not selected, or that does not apply to the page as it is *)
(* now, is passed over; of two patches of a page the second has an outdated hash.        *)
Used ==
  /\ at = "used"
  /\ IF Page \notin ToSet(active) \/ ~patches[turn][2] \/ Page \in written
     THEN NextTurn /\ UNCHANGED <<applying, phases, failed, pending>>
     ELSE IF ~applying /\ stopped THEN Failing /\ UNCHANGED <<applying, phases>>
     ELSE /\ at' = "applying" /\ applying' = TRUE /\ UNCHANGED <<turn, failed, pending>>
          /\ IF applying THEN UNCHANGED phases ELSE Phase("applying")
  /\ UNCHANGED <<stopped, prompt, sending, patches, effects, succeeded>>

Write ==
  /\ at = "applying"
  /\ \/ /\ Failing /\ UNCHANGED effects
     \/ /\ ~stopped /\ at' = "index"
        /\ written' = written \cup {Page} /\ indexed' = indexed \ {Page} /\ late' = (late \/ stopped)
        /\ UNCHANGED <<turn, failed, pending>>
  /\ UNCHANGED <<stopped, prompt, sending, patches, applying, succeeded, phases>>

(* The page's records follow it, stopped or not; this may fail.            *)
Index ==
  /\ at = "index"
  /\ \/ /\ Failing /\ UNCHANGED <<indexed, succeeded>>
     \/ /\ indexed' = indexed \cup {Page} /\ succeeded' = TRUE /\ UNCHANGED failed
        /\ IF stopped /\ More THEN at' = "close" /\ pending' = TRUE /\ UNCHANGED turn
           ELSE NextTurn /\ UNCHANGED pending
  /\ UNCHANGED <<stopped, prompt, sending, patches, written, late, applying, phases>>

(* After the last patch.  Without patches the lifecycle goes through "applying" as well. *)
Patched ==
  /\ at = "turn" /\ turn > Len(patches)
  /\ IF stopped /\ ~succeeded /\ ~failed
     THEN at' = "end" /\ Close("cancelled")
     ELSE at' = "close" /\ IF patches = <<>> THEN Phase("applying") ELSE UNCHANGED phases
  /\ UNCHANGED <<stopped, prompt, sending, patches, turn, effects, flags>>

(* A mutated form: what was written counts.                                *)
OutcomeWritten == IF pending THEN "cancelled" ELSE IF patches # <<>> /\ written = {} THEN "failed" ELSE "completed"

Outcome ==
  IF pending THEN "cancelled"
  ELSE IF failed \/ (patches # <<>> /\ ~succeeded) THEN "failed" ELSE "completed"

Closing ==
  /\ at = "close" /\ at' = "end" /\ Close(Outcome)
  /\ UNCHANGED <<stopped, prompt, sending, patches, turn, effects, flags>>

Work ==
  \/ Select \/ Fit \/ Ask \/ TooLong \/ NoAnswer \/ Answered
  \/ Turn \/ Used \/ Write \/ Index \/ Patched \/ Closing
Next == Stop \/ Work
Spec == Init /\ [][Next]_vars /\ WF_vars(Work)

-----------------------------------------------------------------------------
TypeOK ==
  /\ at \in {"select", "fit", "ask", "answer", "turn", "used", "applying", "index", "close", "end"}
  /\ ToSet(active) \subseteq Pages /\ kept \in 0..older /\ turn \in 1..(MaxPatches + 1)
  /\ written \subseteq Pages /\ indexed \subseteq Pages /\ pending \in BOOLEAN

(* Only pages that were selected and shown to the model are written.       *)
OnlySelected == written \subseteq ToSet(active)

(* What is sent fits the budget of the attempt.                            *)
PromptFits == at = "answer" => Fixed(active, schema) + kept <= budget

(* No write begins once the user stopped the run.                          *)
NoLateWrite == ~late

(* The lifecycle ends once, at the end, and is "completed" only when every write and           *)
(* every update of the index that was begun succeeded and one did, or there was nothing to do. *)
TerminalOnce ==
  /\ Cardinality({i \in DOMAIN phases : phases[i] \in Terminals}) <= 1
  /\ at = "end" /\ patches # <<>> => phases # <<>> /\ Last(phases) \in Terminals
  /\ at = "end" /\ phases # <<>> /\ Last(phases) = "completed" =>
       written \subseteq indexed /\ (patches # <<>> => written # {})

(* A stopped run leaves no page with outdated records, unless their update failed. *)
StoppedConsistent == at = "end" /\ ~failed => written \subseteq indexed

(* Every run ends.                                                         *)
Pending == at # "end"

-----------------------------------------------------------------------------
=============================================================================
