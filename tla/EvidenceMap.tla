---------------------------- MODULE EvidenceMap ----------------------------
(***************************************************************************)
(* The evidence mapper of an ingest (mapChunksWithContextRepack and        *)
(* prepareSourceEvidenceInternal in src/phases/ingest-evidence.ts inside   *)
(* runWithContextRepack of src/prompt-budget.ts): the chunks of a source   *)
(* are sent to the model one by one.  A chunk whose answer stays invalid   *)
(* may be cut in two once; a context error of the provider shrinks the     *)
(* budget, divides the source again and starts over.                       *)
(*                                                                         *)
(* A token is a line here, and how a source is divided is left open (see   *)
(* MarkdownChunks): any division with chunks of at most the allowed lines  *)
(* may be the one.  The model's answer for a chunk is that it has no       *)
(* evidence, or one packet of the same entity with or without a type.      *)
(***************************************************************************)
EXTENDS Naturals, Sequences, FiniteSets, FiniteSetsExt

CONSTANTS
  Lines,         \* bound: lines of the source
  Budget,        \* configuredInputBudget, in lines
  Retries,       \* mapperRetries
  Repacks,       \* MAX_CONTEXT_REPACKS
  Types,         \* the entity types that are configured
  Says           \* bound: what answers may say, of "no evidence", "none" and the types

MapAssumption ==
  /\ Lines \in Nat \ {0} /\ Budget \in Nat \ {0} /\ Retries \in Nat /\ Repacks \in Nat /\ IsFiniteSet(Types)
  /\ Says \subseteq {"no evidence", "none"} \cup Types

None == "none"                            \* no entity type
NoEvidence == "no evidence"
Work == [from : 1..Lines, to : 1..Lines, depth : 0..1]
NoWork == [from |-> 0, to |-> 0, depth |-> 0]
Size(w) == w.to + 1 - w.from
Overlap(v, w) == v.from <= w.to /\ w.from <= v.to

(* The divisions of the source into chunks of at most limit lines, as sequences: a *)
(* division is known by the last lines of its chunks.                              *)
Nth(S, i) == CHOOSE x \in S : Cardinality({y \in S : y <= x}) = i

Divided(ends) ==
  [i \in 1..Cardinality(ends) |-> [from |-> IF i = 1 THEN 1 ELSE Nth(ends, i - 1) + 1, to |-> Nth(ends, i)]]

Divisions(limit) ==
  {d \in {Divided(S \cup {Lines}) : S \in SUBSET (1..Lines)} : \A i \in 1..Len(d) : Size(d[i]) <= limit}

VARIABLES
  at,          \* "build", "ask", "done" or "failed"
  budget,      \* effectiveInputBudget, in lines
  repacks,     \* the attempts of runWithContextRepack that failed
  work,        \* activeWorkItems
  index,       \* of the chunk that is asked
  tries,       \* the attempts for it that were invalid
  answers,     \* packets and noEvidence: the chunk and what it said, in order
  failed,      \* failedMapper
  lineage,     \* semanticSplitLineage
  cause,       \* why it failed
  refused,     \* history: the sizes of the chunks the provider refused
  cuts         \* history: how often a line was in a chunk that was cut

vars == <<at, budget, repacks, work, index, tries, answers, failed, lineage, cause, refused, cuts>>

Init ==
  /\ at = "build" /\ budget = Budget /\ repacks = 0 /\ work = <<>> /\ index = 1 /\ tries = 0
  /\ answers = <<>> /\ failed = NoWork /\ lineage = {} /\ cause = None
  /\ refused = {} /\ cuts = [l \in 1..Lines |-> 0]

Fail(why) == at' = "failed" /\ cause' = why

(* Cut pieces stay cut pieces: a chunk that overlaps one may not be cut again. *)
Deep(chunk) ==
  \/ failed.depth = 1 /\ Overlap(chunk, failed)
  \/ \E piece \in lineage : Overlap(chunk, piece)

Items(d) == [i \in 1..Len(d) |-> [from |-> d[i].from, to |-> d[i].to, depth |-> IF Deep(d[i]) THEN 1 ELSE 0]]

Limit == IF failed = NoWork THEN budget ELSE Min({budget, Size(failed) - 1})

(* build: a division of the source; after a context error with chunks of less text *)
(* than the one that was refused.  None may exist.                                 *)
Build ==
  /\ at = "build"
  /\ \/ /\ Limit > 0
        /\ \E d \in Divisions(Limit) : work' = Items(d)
        /\ at' = "ask" /\ index' = 1 /\ tries' = 0 /\ answers' = <<>> /\ UNCHANGED cause
     \/ /\ Fail("no division")
        /\ UNCHANGED <<work, index, tries, answers>>
  /\ UNCHANGED <<budget, repacks, failed, lineage, refused, cuts>>

Chunk == work[index]
Asking == at = "ask" /\ index <= Len(work)
Bounds(w) == [from |-> w.from, to |-> w.to]

(* The answer is valid: packets, or a statement that there are none.       *)
Answer(said) ==
  /\ Asking
  /\ answers' = Append(answers, [chunk |-> Bounds(Chunk), said |-> said])
  /\ index' = index + 1 /\ tries' = 0
  /\ UNCHANGED <<at, budget, repacks, work, failed, lineage, cause, refused, cuts>>

(* runBoundedStructuredWithRetry: an invalid answer is asked for again.    *)
Repair ==
  /\ Asking /\ tries < Retries
  /\ tries' = tries + 1
  /\ UNCHANGED <<at, budget, repacks, work, index, answers, failed, lineage, cause, refused, cuts>>

Halves(w) ==
  LET last == w.from + (Size(w) \div 2) - 1 IN
  <<[from |-> w.from, to |-> last, depth |-> 1], [from |-> last + 1, to |-> w.to, depth |-> 1]>>

MaySplit(kind) == kind \in {"output limit", "chunk local"} /\ Chunk.depth = 0 /\ Size(Chunk) > 1

(* The last attempt exceeded the output, or named lines outside of the chunk: two *)
(* halves take the chunk's place and are asked instead.                           *)
Split(kind) ==
  /\ Asking /\ tries = Retries /\ MaySplit(kind)
  /\ work' = SubSeq(work, 1, index - 1) \o Halves(Chunk) \o SubSeq(work, index + 1, Len(work))
  /\ lineage' = lineage \cup {Bounds(Halves(Chunk)[1]), Bounds(Halves(Chunk)[2])}
  /\ cuts' = [l \in 1..Lines |-> IF l \in Chunk.from..Chunk.to THEN cuts[l] + 1 ELSE cuts[l]]
  /\ tries' = 0
  /\ UNCHANGED <<at, budget, repacks, index, answers, failed, cause, refused>>

(* Any other invalid answer, an abort or a transport error ends the mapping. *)
GiveUp(kind) ==
  /\ Asking /\ ~MaySplit(kind) /\ (kind # "transport" => tries = Retries) /\ Fail(kind)
  /\ UNCHANGED <<budget, repacks, work, index, tries, answers, failed, lineage, refused, cuts>>

(* The provider says that the request is too large for its context.        *)
ContextError ==
  /\ Asking
  /\ failed' = Chunk /\ refused' = refused \cup {Size(Chunk)}
  /\ \/ /\ repacks < Repacks /\ budget > 1
        /\ repacks' = repacks + 1 /\ budget' \in 1..(budget - 1) /\ at' = "build" /\ UNCHANGED cause
     \/ /\ repacks = Repacks \/ budget = 1
        /\ Fail("context") /\ UNCHANGED <<repacks, budget>>
  /\ UNCHANGED <<work, index, tries, answers, lineage, cuts>>

Said == {answers[i].said : i \in 1..Len(answers)}
Named == Said \cap Types

(* A packet without a type takes the one another packet of its entity has, or the *)
(* only one that is configured.                                                   *)
TypeOf(said) ==
  IF said # None THEN said
  ELSE IF Named # {} THEN CHOOSE t \in Named : TRUE
  ELSE IF Cardinality(Types) = 1 THEN CHOOSE t \in Types : TRUE ELSE None

(* buildEvidenceCoverage: every final chunk has answers, and no other chunk. *)
Complete == {answers[i].chunk : i \in 1..Len(answers)} = {Bounds(work[i]) : i \in 1..Len(work)}

(* The mapping is complete: the types of an entity must agree, and every final *)
(* chunk must have its answer.                                                 *)
Finish ==
  /\ at = "ask" /\ index > Len(work)
  /\ \/ Cardinality(Named) > 1 /\ Fail("types") /\ UNCHANGED answers
     \/ Cardinality(Named) <= 1 /\ ~Complete /\ Fail("coverage") /\ UNCHANGED answers
     \/ /\ Cardinality(Named) <= 1 /\ Complete /\ at' = "done" /\ UNCHANGED cause
        /\ answers' = [i \in 1..Len(answers) |-> [answers[i] EXCEPT !.said = TypeOf(@)]]
  /\ UNCHANGED <<budget, repacks, work, index, tries, failed, lineage, refused, cuts>>

Kinds == {"output limit", "chunk local", "other", "transport"}

Next ==
  \/ Build \/ Repair \/ ContextError \/ Finish
  \/ \E said \in Says : Answer(said)
  \/ \E kind \in Kinds : Split(kind) \/ GiveUp(kind)

(* Every request ends, with an answer or an error: see NativeRequest.      *)
Spec == Init /\ [][Next]_vars /\ WF_vars(Next)

-----------------------------------------------------------------------------
TypeOK ==
  /\ at \in {"build", "ask", "done", "failed"} /\ (at = "failed" <=> cause # None)
  /\ budget \in 1..Budget /\ repacks \in 0..Repacks /\ tries \in 0..Retries
  /\ work \in Seq(Work) /\ Len(work) <= Lines /\ index \in 1..(Len(work) + 1)
  /\ failed \in Work \cup {NoWork} /\ lineage \subseteq [from : 1..Lines, to : 1..Lines]

(* Every line of the source was in the chunk of exactly one answer that is used:    *)
(* cutting a chunk, renumbering the rest and starting over neither skip a chunk nor *)
(* use an answer twice (the loop over activeWorkItems changes the list it walks).   *)
EveryLineOnce ==
  at = "done" =>
    \A l \in 1..Lines : Cardinality({i \in 1..Len(answers) : l \in answers[i].chunk.from..answers[i].chunk.to}) = 1

(* The final assertion of the coverage never fires.                        *)
NoLateFailure == cause # "coverage"

(* "a derived child cannot split again" (docs: the retry reliability design, R10), *)
(* not even after the source was divided anew by a context error.                  *)
CutOnce == \A l \in 1..Lines : cuts[l] <= 1

(* What the provider refused is not sent again, nor anything as large.     *)
NeverAsLarge == at = "ask" /\ index <= Len(work) => \A size \in refused : Size(Chunk) < size

(* The packets of an entity have one type, so that the reducer can join them. *)
OneType ==
  at = "done" =>
    Cardinality({answers[i].said : i \in 1..Len(answers)} \ {NoEvidence}) <= 1

(* The mapping ends.                                                       *)
Pending == at \notin {"done", "failed"}
=============================================================================
