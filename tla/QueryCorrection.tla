-------------------------- MODULE QueryCorrection --------------------------
(***************************************************************************)
(* What becomes of an answer after it was streamed (the second half of     *)
(* answerFromContext in src/phases/query-answer.ts, with                   *)
(* src/phases/query-link-validator.ts and src/phases/link-resolver.ts):    *)
(* technical text that the selected pages do not hold is cut out, repaired *)
(* by the model or replaced by a notice; links to pages that were not      *)
(* selected are resolved, repaired by the model or marked; the view then   *)
(* gets the corrected text.  What is cut is left to its outcome here.      *)
(***************************************************************************)
EXTENDS LlmLifecycle, Integers, Sequences, FiniteSets, SequencesExt

CONSTANTS
  Stems,     \* targets of links
  Known,     \* pages that were selected
  Ids,       \* [prefix, digits] of those that have an id
  Wiki,      \* pages of the wiki, the others are notes
  Retries    \* wikiLinkValidationRetries

QueryCorrectionAssumption ==
  Known \subseteq Stems /\ Retries \in Nat /\ DOMAIN Ids \subseteq Stems /\ Wiki \subseteq Stems

VARIABLES
  at, stopped,
  answer,    \* [words, links, marked]
  shown,     \* what the view shows
  corrected, \* groundingChanged
  row,       \* phase of the answer's row
  repair,    \* phase of the repair's row
  lost       \* stripped: broken targets without a resolution

vars == <<at, stopped, answer, shown, corrected, row, repair, lost>>

Texts == [words : {"none", "grounded", "ungrounded"}, links : SUBSET Stems, marked : {{}}]
Real(text) == text.words = "none" => text.links = {}
Notice == [words |-> "grounded", links |-> {}, marked |-> {}]
After(phase, events) == FoldLeft(LAMBDA p, e : Reduce(p, e), phase, events)

Init ==
  /\ at = "answered" /\ stopped = FALSE /\ corrected = FALSE /\ repair = "none" /\ lost = {}
  /\ answer \in {t \in Texts : Real(t)} /\ shown = answer
  /\ row = "producing"  \* an answer without any text, not even reasoning, is left to QueryRequest

Stop == ~stopped /\ at \notin {"completed", "cancelled"} /\ stopped' = TRUE /\ UNCHANGED <<at, answer, shown, corrected, row, repair, lost>>

(* A look at the signal: the row is closed, the text on the view stays as it is. *)
Cancel == at' = "cancelled" /\ row' = Reduce(row, "cancelled") /\ UNCHANGED <<stopped, answer, shown, corrected, repair, lost>>

Validate ==
  /\ at = "answered"
  /\ IF stopped THEN Cancel
     ELSE at' = "grounding" /\ row' = Reduce(row, "validating") /\ UNCHANGED <<stopped, answer, shown, corrected, repair, lost>>

(* Without any request: the answer is grounded, or what is left of it after the cutting is, *)
(* or nothing of it can be used.  A cut may change a link.                                  *)
Ground ==
  /\ at = "grounding" /\ UNCHANGED <<stopped, shown, row, repair, lost>>
  /\ IF stopped \/ answer.words # "ungrounded" THEN at' = "linking" /\ UNCHANGED <<answer, corrected>>
     ELSE \/ /\ at' = "linking" /\ corrected' = TRUE
             /\ \E links \in SUBSET Stems : answer' = [words |-> "grounded", links |-> links, marked |-> {}]
          \/ /\ Retries > 0 /\ at' = "repairing" /\ UNCHANGED <<answer, corrected>>
          \/ /\ Retries = 0 /\ at' = "linking" /\ corrected' = TRUE /\ answer' = Notice

(* A repair of the words: one request, of which the result is checked again. *)
Repaired ==
  /\ at = "repairing" /\ UNCHANGED <<stopped, shown, lost>>
  /\ \/ IF stopped
        THEN /\ at' = "cancelled" /\ repair' = After("validating", <<"cancelled">>) /\ row' = Reduce(row, "cancelled")
             /\ UNCHANGED <<answer, corrected>>
        ELSE /\ at' = "linking" /\ corrected' = TRUE /\ UNCHANGED row
             /\ repair' = After("validating", <<"applying", "completed">>)
             /\ \E text \in {t \in Texts : t.words # "none"} :
                  answer' = IF text.words = "grounded" THEN text ELSE Notice
     \/ /\ repair' \in {"failed", "cancelled"}  \* the request's own row is closed by the request
        /\ IF stopped \/ repair' = "cancelled"
           THEN at' = "cancelled" /\ row' = Reduce(row, "cancelled") /\ UNCHANGED <<answer, corrected>>
           ELSE at' = "linking" /\ corrected' = TRUE /\ answer' = Notice /\ UNCHANGED row

Broken(links) == links \ Known
(* resolveLink: the selected pages whose number holds the target's, of the same prefix if it *)
(* has one; they must be one entity, of which a page of the wiki is preferred.               *)
Matches(target) ==
  {page \in Known \cap DOMAIN Ids :
     /\ target \in DOMAIN Ids /\ Ids[target].prefix \in {"", Ids[page].prefix}
     /\ Ids[target].digits \in SubSeqs(Ids[page].digits)}
Resolvable(target) == Cardinality({Ids[page] : page \in Matches(target)}) = 1
Resolved(target) == CHOOSE page \in Matches(target) : page \in Wiki \/ Matches(target) \cap Wiki = {}
Replace(text, found) == [text EXCEPT !.links = (@ \ found) \cup {Resolved(s) : s \in found}]

(* ValidateLinks: what resolves is replaced; the rest goes to the model or is marked. *)
Link ==
  /\ at = "linking" /\ UNCHANGED <<stopped, shown, corrected, row, repair>>
  /\ LET broken == Broken(answer.links)
         found == {s \in broken : Resolvable(s)}
         left == broken \ found
         replaced == Replace(answer, found)
     IN IF stopped \/ answer.words = "none" \/ broken = {} THEN at' = "tail" /\ UNCHANGED <<answer, lost>>
        ELSE /\ lost' = left
             /\ IF left # {} /\ Retries > 0 THEN at' = "relinking" /\ answer' = replaced
                ELSE at' = "apply" /\ answer' = [replaced EXCEPT !.marked = left]

Marked == [answer EXCEPT !.marked = lost]

(* A mutated form: only the links of the model's text are checked.         *)
RelinkedOnly ==
  /\ at = "relinking" /\ ~stopped /\ UNCHANGED <<stopped, shown, corrected, row, lost>>
  /\ at' = "apply" /\ repair' = "completed"
  /\ \E text \in {t \in Texts : t.words # "none"} : answer' = IF Broken(text.links) = {} THEN text ELSE Marked
(* A repair of the links: taken when it has no broken link and no technical text without support. *)
Relinked ==
  /\ at = "relinking" /\ UNCHANGED <<stopped, shown, corrected, lost>>
  /\ \/ IF stopped
        THEN at' = "cancelled" /\ repair' = After("validating", <<"cancelled">>) /\ row' = Reduce(row, "cancelled") /\ UNCHANGED answer
        ELSE \E text \in {t \in Texts : t.words # "none"} :
          /\ UNCHANGED row
          /\ IF Broken(text.links) = {} /\ text.words = "grounded"
             THEN at' = "taking" /\ answer' = text /\ repair' = After("validating", <<"applying">>)
             ELSE at' = "apply" /\ answer' = Marked /\ repair' = After("validating", <<"applying", "completed">>)
     \/ /\ repair' \in {"failed", "cancelled"}
        /\ IF stopped \/ repair' = "cancelled"
           THEN at' = "cancelled" /\ row' = Reduce(row, "cancelled") /\ UNCHANGED answer
           ELSE at' = "apply" /\ answer' = Marked /\ UNCHANGED row

(* The second look at the signal, after the row of the repair is being applied. *)
Take ==
  /\ at = "taking" /\ UNCHANGED <<stopped, answer, shown, corrected, lost>>
  /\ IF stopped THEN at' = "cancelled" /\ repair' = Reduce(repair, "cancelled") /\ row' = Reduce(row, "cancelled")
     ELSE at' = "apply" /\ repair' = Reduce(repair, "completed") /\ UNCHANGED row

(* The row is being applied; the signal is looked at before and after.     *)
Apply ==
  /\ at \in {"apply", "tail"}
  /\ IF stopped THEN Cancel
     ELSE /\ at' = (IF at = "apply" THEN "replace" ELSE "close") /\ row' = Reduce(row, "applying")
          /\ UNCHANGED <<stopped, answer, shown, corrected, repair, lost>>

Complete ==
  /\ at \in {"replace", "close"}
  /\ IF stopped THEN Cancel
     ELSE /\ at' = "completed" /\ row' = Reduce(row, "completed")
          /\ shown' = IF at = "replace" \/ corrected THEN answer ELSE shown
          /\ UNCHANGED <<stopped, answer, corrected, repair, lost>>

Progress == Validate \/ Ground \/ Repaired \/ Link \/ Relinked \/ Take \/ Apply \/ Complete
Next == Stop \/ Progress
Spec == Init /\ [][Next]_vars /\ WF_vars(Progress)

-----------------------------------------------------------------------------
TypeOK ==
  /\ answer \in [words : {"none", "grounded", "ungrounded"}, links : SUBSET Stems, marked : SUBSET Stems]
  /\ row \in RowPhases \ {"refused"} /\ repair \in RowPhases \ {"refused"} /\ lost \subseteq Broken(Stems)

(* An answer that is completed has no technical text without support, and every link is to a *)
(* selected page or marked, on the view as in what is returned.                              *)
CompletedGrounded == at = "completed" => shown.words # "ungrounded"
CompletedLinked == at = "completed" => Broken(shown.links) \subseteq shown.marked
ShownIsReturned == at = "completed" => shown = answer

(* A mark is only put at a link that leads nowhere.                        *)
MarksTrue == answer.marked \subseteq Broken(answer.links)

(* The view's text is replaced once, and not in a run that was stopped.    *)
ReplacedOnce == shown' # shown => at' = "completed" /\ ~stopped

(* At the end no row is open.                                              *)
RowsClosed == at \in {"completed", "cancelled"} => ~Open(row) /\ ~Open(repair)

Pending == at \notin {"completed", "cancelled"}
=============================================================================
