----------------------------- MODULE Synthesis -----------------------------
(***************************************************************************)
(* The synthesis of a batch of entities (src/phases/ingest-synthesis.ts):  *)
(* the model is asked for one action or skip per entity.  An answer that   *)
(* does not pass the validation, and a prompt that does not fit, divide    *)
(* the batch in two; a single entity is asked again with a repair          *)
(* instruction.  The recursion is kept as a stack: `todo` holds the        *)
(* batches still to do and the merges that follow them, `outputs` what the *)
(* batches returned.                                                       *)
(*                                                                         *)
(* Entities are numbered in the order of the bundles; an item of an answer *)
(* names an entity and a page.  Foreign is a page outside of the domain,   *)
(* Stale an existing page with a hash that is not the current one.         *)
(***************************************************************************)
EXTENDS Naturals, FiniteSets, Sequences, FiniteSetsExt

CONSTANTS
  N,         \* entities
  Targets,   \* entities whose page exists
  SamePath,  \* new entities whose names make the same path
  NoPath,    \* entities that have neither a target nor a path of their own
  Retries    \* structuredRetries

SynthesisAssumption ==
  /\ N \in Nat \ {0} /\ Retries \in Nat
  /\ Targets \subseteq 1..N /\ NoPath \subseteq (1..N) \ Targets
  /\ SamePath \subseteq (1..N) \ (Targets \cup NoPath)

(* The target of an entity, or the path it would be created at.            *)
PathOf == [i \in 1..N |-> IF i \in SamePath THEN Min(SamePath) ELSE i]
None == 0
Foreign == N + 1
Stale == N + 2

Paths == {PathOf[i] : i \in 1..N}
Existing == {PathOf[i] : i \in Targets}

(* What may be said of an entity.                                          *)
Moves ==
  [kind : {"create"}, page : Paths \cup {Foreign}]
    \cup [kind : {"patch"}, page : Paths \cup {Foreign, Stale}]
    \cup [kind : {"skip"}, page : {None}]
Item(i, move) == [kind |-> move.kind, key |-> i, page |-> move.page]
Items == {Item(i, move) : i \in 1..N, move \in Moves}

(* What a model may answer to a batch, of what can pass: one item of every entity, or *)
(* up to two for a single one, whose key is overwritten.  An answer that leaves out   *)
(* an entity or names another one never passes, and there is always one (Reject).     *)
Answers(batch) ==
  IF Cardinality(batch) > 1
  THEN {{Item(i, said[i]) : i \in batch} : said \in [batch -> Moves]}
  ELSE {{Item(i, move), Item(i, other)} : i \in batch, move \in Moves, other \in Moves}

(* The type descriptions an answer adds are told apart by two variants of one type. *)
Deltas == {{}, {1}, {2}, {1, 2}}

Actions(items) == {x \in items : x.kind # "skip"}

-----------------------------------------------------------------------------
(* What is made of an answer before it is validated                        *)

Creates(items) == {x \in items : x.kind = "create"}

(* canonicalizeSingleBundleCoverage: what is said in answer to one entity is said of *)
(* it; of several actions one remains, a create if there is one.                     *)
Single(i, items) ==
  IF items = {} THEN {{}}
  ELSE IF Actions(items) = {}
  THEN {{[kind |-> "skip", key |-> i, page |-> None] : x \in items}}
  ELSE LET said == IF Creates(items) # {} THEN Creates(items) ELSE Actions(items)
       IN {{[x EXCEPT !.key = i]} : x \in said}

(* canonicalizeSingleExistingTargetAction: a page that is only sections becomes a *)
(* patch of the page there is, another one stays a create.                        *)
AsPatch(i, items) ==
  IF i \in Targets /\ Creates(items) # {}
  THEN {items, {[kind |-> "patch", key |-> i, page |-> PathOf[i]]}}
  ELSE {items}

(* normalizeCreateActionPaths                                              *)
OwnPaths(items) ==
  {IF x.kind = "create" /\ x.key \in (1..N) \ (Targets \cup NoPath)
   THEN [x EXCEPT !.page = PathOf[x.key]] ELSE x : x \in items}

Outputs(batch, items) ==
  IF Cardinality(batch) > 1 THEN {OwnPaths(items)}
  ELSE LET i == CHOOSE i \in batch : TRUE
       IN {OwnPaths(y) : y \in UNION {AsPatch(i, x) : x \in Single(i, items)}}

-----------------------------------------------------------------------------
(* The validation                                                          *)

(* validateSynthesisCoverage: every entity once, and no other.             *)
Covers(batch, items) ==
  {x.key : x \in items} = batch /\ Cardinality(items) = Cardinality(batch)

(* validateBundleActionTargets                                             *)
OnTarget(items) ==
  \A x \in Actions(items) :
    IF x.key \in Targets THEN x.kind = "patch" /\ x.page \in {PathOf[x.key], Stale}
    ELSE x.kind = "create" /\ x.key \notin NoPath

(* validateSynthesisActions: governed paths, no two actions for one, a create for a *)
(* page that is absent and a patch of the page as it is.                            *)
Allowed(items) ==
  /\ \A x \in Actions(items) :
       /\ x.page \notin {Foreign, Stale}
       /\ x.kind = "create" <=> x.page \notin Existing
  /\ Cardinality({x.page : x \in Actions(items)}) = Cardinality(Actions(items))

Valid(batch, items) == Covers(batch, items) /\ OnTarget(items) /\ Allowed(items)

(* What becomes of the answers to a batch, and what of it passes.          *)
Returned(batch) == UNION {Outputs(batch, items) : items \in Answers(batch)}
Passing(batch) == {items \in Returned(batch) : Valid(batch, items)}

-----------------------------------------------------------------------------
VARIABLES
  at,       \* "ask", "done" or "failed"
  cause,    \* of a failure
  todo,     \* batches <<first, last>> and merges <<>>, the next one first
  outputs,  \* [items, delta] of the batches done, the last one first
  attempt,  \* semanticAttempt
  asked     \* history: answers and failures of requests

vars == <<at, cause, todo, outputs, attempt, asked>>

Init ==
  /\ at = "ask" /\ cause = "" /\ todo = << <<1, N>> >> /\ outputs = <<>> /\ attempt = 0 /\ asked = 0

(* Bound: more requests than this are not told apart.                      *)
MaxAsked == 2 * N + N * Retries
Count == asked' = Min({asked + 1, MaxAsked})

Fail(why) == at' = "failed" /\ cause' = why /\ UNCHANGED <<todo, outputs, attempt>>

IsBatch == at = "ask" /\ todo # <<>> /\ Head(todo) # <<>>
Batch == Head(todo)[1]..Head(todo)[2]

(* A mutated form: the second part begins one entity too late.             *)
SplitSkips ==
  LET first == Head(todo)[1]  last == Head(todo)[2]  middle == (last - first + 1) \div 2 IN
  todo' = << <<first, first + middle - 1>>, <<first + middle + 1, last>>, << >> >> \o Tail(todo)

(* splitBundles, and the two recursive calls in order.                     *)
Split ==
  LET first == Head(todo)[1]  last == Head(todo)[2]  middle == (last - first + 1) \div 2 IN
  todo' = << <<first, first + middle - 1>>, <<first + middle, last>>, << >> >> \o Tail(todo)

(* The answer passes.                                                      *)
Accept ==
  /\ IsBatch /\ Count
  /\ \E items \in Passing(Batch), delta \in Deltas \ {{1, 2}} :
       outputs' = <<[items |-> items, delta |-> delta]>> \o outputs
  /\ todo' = Tail(todo) /\ attempt' = 0 /\ UNCHANGED <<at, cause>>

(* One answer describes a type in two ways: nothing is asked again.        *)
Contradiction == IsBatch /\ Count /\ Fail("delta")

(* The answer does not pass: the batch is split, or the entity asked again. *)
Reject ==
  /\ IsBatch /\ Count
  /\ IF Cardinality(Batch) > 1 THEN Split /\ UNCHANGED <<at, cause, outputs, attempt>>
     ELSE IF attempt < Retries
          THEN attempt' = attempt + 1 /\ UNCHANGED <<at, cause, todo, outputs>>
     ELSE Fail("validation")

(* A prompt that does not fit, a refusal for its length after the last repack, or an *)
(* answer that could not be read: a batch is split, a single entity fails.           *)
NoAnswer ==
  /\ IsBatch /\ Count
  /\ IF Cardinality(Batch) > 1 THEN Split /\ UNCHANGED <<at, cause, outputs, attempt>>
     ELSE Fail("split required") \/ Fail("structured")

(* Any other error, an abort among them.                                   *)
OtherError == IsBatch /\ Count /\ Fail("error")

(* mergeSynthesisBatchOutputs                                              *)
Merge ==
  /\ at = "ask" /\ todo # <<>> /\ Head(todo) = <<>>
  /\ LET delta == outputs[1].delta \cup outputs[2].delta IN
     IF delta = {1, 2} THEN Fail("delta") /\ UNCHANGED asked
     ELSE /\ todo' = Tail(todo)
          /\ outputs' = <<[items |-> outputs[2].items \cup outputs[1].items, delta |-> delta]>>
                        \o SubSeq(outputs, 3, Len(outputs))
          /\ UNCHANGED <<at, cause, attempt, asked>>

(* synthesizeEntityBatch validates the whole once more.                    *)
Finish ==
  /\ at = "ask" /\ todo = <<>>
  /\ IF Covers(1..N, outputs[1].items) /\ Allowed(outputs[1].items)
     THEN at' = "done" /\ UNCHANGED <<cause, todo, outputs, attempt>> ELSE Fail("final")
  /\ UNCHANGED asked

Next == Accept \/ Contradiction \/ Reject \/ NoAnswer \/ OtherError \/ Merge \/ Finish

(* Every request ends.                                                     *)
Spec == Init /\ [][Next]_vars /\ WF_vars(Next)

-----------------------------------------------------------------------------
TypeOK ==
  /\ at \in {"ask", "done", "failed"} /\ (cause # "" <=> at = "failed") /\ attempt \in 0..Retries
  /\ \A i \in 1..Len(outputs) : outputs[i].items \subseteq Items /\ outputs[i].delta \in {{}, {1}, {2}}

Worked == UNION ({{x.key : x \in outputs[i].items} : i \in 1..Len(outputs)}
                   \cup {todo[i][1]..todo[i][2] : i \in {j \in 1..Len(todo) : todo[j] # <<>>}})

(* Whatever is divided, repaired or refused on the way, every entity is either *)
(* decided or still in a batch, and a single one: nothing is lost by a split.  *)
EveryEntity ==
  at # "failed" =>
    /\ Worked = 1..N
    /\ \A i, j \in 1..Len(todo) : i < j /\ todo[i] # <<>> /\ todo[j] # <<>> => todo[i][2] < todo[j][1]

(* What leaves the synthesis writes every page at most once, creates no page that is *)
(* there, and patches nothing but the entity's own page.                             *)
OwnPagesOnce ==
  at = "done" =>
    LET items == outputs[1].items IN
    /\ \A x \in Actions(items) : x.page = PathOf[x.key] /\ (x.kind = "patch" <=> x.key \in Targets)
    /\ \A x, y \in items : x # y => x.key # y.key /\ (x.page = None \/ x.page # y.page)

(* Batches that were accepted one by one are accepted together: no request is spent *)
(* on a synthesis that the last check refuses.                                      *)
NoLateRefusal == cause # "final"

(* A batch that is refused again and again costs a request for every node of the *)
(* division, and the repairs of the single entities.                             *)
RequestsBounded == asked < MaxAsked

(* The synthesis ends with a decision or an error.                         *)
Pending == at = "ask"
=============================================================================
