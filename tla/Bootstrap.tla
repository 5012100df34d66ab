----------------------------- MODULE Bootstrap -----------------------------
(***************************************************************************)
(* The bootstrap of a domain (prepareDomainBootstrap in                    *)
(* src/phases/init.ts, splitBootstrapPayload in                            *)
(* src/phases/ingest-evidence.ts): the evidence of the first source is     *)
(* split into groups, every group is sent to the model, and the answers    *)
(* are merged to the domain's entity types.  When the split does not fit   *)
(* the prompt, the budget is widened: the schema leaves the prompt, then   *)
(* the reserve for the output is reduced.  A taxonomy that is rejected is  *)
(* asked for once more, group by group, with a repair instruction.         *)
(*                                                                         *)
(* A candidate is the sequence of the sizes of its facts; the order of the *)
(* facts tells them apart.                                                 *)
(***************************************************************************)
EXTENDS Naturals, Integers, Sequences, FiniteSets, FiniteSetsExt, SequencesExt

CONSTANTS
  MaxCandidates, \* bound: entities in the evidence
  MaxFacts,      \* bound: facts of an entity
  Sizes,         \* sizes of a fact
  Payload,       \* the payload budget with the settings as they are
  Schema,        \* what the schema takes in the prompt
  Output,        \* what can be reclaimed from the output reserve, 0 without a known window
  Overhead,      \* what every group carries besides its candidates
  Worst,         \* worstCaseGroupOverhead
  Repair,        \* MAX_TAXONOMY_REPAIR_TOKENS
  MinChunk,      \* MIN_BOOTSTRAP_CHUNK_TOKENS
  MaxEvidence,   \* MAX_BOOTSTRAP_EVIDENCE_TOKENS
  MaxRequests,   \* MAX_BOOTSTRAP_REQUESTS
  Types,         \* entity types
  Existing,      \* those the domain has
  Retries        \* structuredRetries

BootstrapAssumption ==
  /\ {MaxCandidates, MaxFacts, Payload, Schema, Output, Overhead, Worst, Repair, MinChunk,
      MaxEvidence, MaxRequests, Retries} \subseteq Nat
  /\ Sizes \subseteq Nat \ {0} /\ Overhead <= Worst /\ Existing \subseteq Types
  /\ MaxRequests > 0 /\ MinChunk > 0

-----------------------------------------------------------------------------
(* Budgets: whether the schema is in the prompt and the output reserve is whole. *)
Configured == [schema |-> TRUE, output |-> TRUE]

PayloadOf(b) ==
  Payload + (IF b.schema THEN 0 ELSE Schema) + (IF b.output THEN 0 ELSE Output)

SplitBudget(b) == PayloadOf(b) - Repair

PerGroup(b) == SplitBudget(b) - Worst

(* maxBootstrapGroupsFor                                                   *)
Ceiling(b) ==
  LET per == Max({1, PerGroup(b)}) IN Max({1, Min({MaxRequests, (MaxEvidence + per - 1) \div per})})

(* widenBootstrapBudget: one lever after the other until the payload fits. *)
Widen(b, required) ==
  LET bare == [b EXCEPT !.schema = FALSE] IN
  IF PayloadOf(b) >= required THEN b
  ELSE IF b.schema /\ PayloadOf(bare) >= required THEN bare
  ELSE IF Output > 0 THEN [bare EXCEPT !.output = FALSE] ELSE bare

Planning == Widen(Configured, Worst + MinChunk + Repair)

-----------------------------------------------------------------------------
(* The split                                                               *)

Sum(s) == FoldLeft(LAMBDA sum, x : sum + x.size, 0, s)
PartSize(c) == 1 + Sum(c.facts)
GroupSize(g) == Overhead + FoldLeft(LAMBDA sum, c : sum + PartSize(c), 0, g)

(* A candidate is divided until every part fits an empty group or is one fact. *)
RECURSIVE Parts(_, _)
Parts(c, room) ==
  IF GroupSize(<<c>>) <= room \/ Len(c.facts) <= 1 THEN <<c>>
  ELSE LET half == (Len(c.facts) + 1) \div 2 IN
       Parts([c EXCEPT !.facts = SubSeq(@, 1, half)], room)
       \o Parts([c EXCEPT !.facts = SubSeq(@, half + 1, Len(@))], room)

(* The parts are put into groups in order.                                 *)
Pack(parts, room) ==
  FoldLeft(LAMBDA groups, c :
      IF Last(groups) # <<>> /\ GroupSize(Append(Last(groups), c)) > room THEN Append(groups, <<c>>)
      ELSE Front(groups) \o <<Append(Last(groups), c)>>,
    << <<>> >>, parts)

(* splitBootstrapPayload                                                   *)
Split(cs, room) ==
  IF GroupSize(cs) <= room THEN <<cs>>
  ELSE Pack(FlattenSeq([i \in 1..Len(cs) |-> Parts(cs[i], room)]), room)

Largest(groups) == Max({GroupSize(groups[i]) : i \in 1..Len(groups)})

-----------------------------------------------------------------------------
VARIABLES
  at,          \* "plan", "split", "widen", "check", "ask", "enrich", "done", "failed" or "stopped"
  cause,       \* of a failure
  given,       \* the candidates of the evidence
  full,        \* fullBootstrapEvidence
  budget,
  groups,      \* bootstrapGroups
  attempt,     \* semanticAttempt
  answers,     \* the entity types each group answered, in this attempt
  entry,       \* the domain's entity types
  rows         \* the requests' rows in the sidebar: how often each was ended

vars == <<at, cause, given, full, budget, groups, attempt, answers, entry, rows>>

Candidate(i, sizes) == [key |-> i, facts |-> [f \in 1..Len(sizes) |-> [fact |-> f, size |-> sizes[f]]]]
Evidence ==
  {[i \in 1..Len(cs) |-> Candidate(i, cs[i])] :
     cs \in UNION {[1..n -> UNION {[1..m -> Sizes] : m \in 1..MaxFacts}] : n \in 0..MaxCandidates}}

Init ==
  /\ at = "plan" /\ cause = "" /\ given = <<>> /\ full = <<>> /\ budget = Configured /\ groups = <<>>
  /\ attempt = 0 /\ answers = <<>> /\ entry = {} /\ rows = <<>>

Fail(why) == at' = "failed" /\ cause' = why
SameData == UNCHANGED <<given, full, budget, groups>>
SameAnswers == UNCHANGED <<attempt, answers, entry, rows>>

(* The chunk budget is decided for the widest prompt.                      *)
Plan ==
  /\ at = "plan"
  /\ IF PerGroup(Planning) < MinChunk THEN Fail("chunk") /\ UNCHANGED budget
     ELSE /\ at' = "split" /\ UNCHANGED cause
          /\ budget' = (IF SplitBudget(Configured) >= MinChunk THEN Configured ELSE Planning)
  /\ UNCHANGED <<given, full, groups>> /\ SameAnswers

(* prepareBootstrapEvidenceBundle: the evidence is extracted and split.    *)
Prepared ==
  /\ at = "split"
  /\ \E cs \in Evidence :
       /\ given' = cs /\ groups' = Split(cs, SplitBudget(budget)) /\ full' = FlattenSeq(groups')
  /\ at' = "widen" /\ UNCHANGED <<cause, budget>> /\ SameAnswers

(* The extraction failed, or was aborted.                                  *)
NotPrepared ==
  /\ at = "split"
  /\ \/ Fail("evidence")
     \/ at' = "stopped" /\ UNCHANGED cause
  /\ SameData /\ SameAnswers

Fits(b, gs) == Largest(gs) <= SplitBudget(b) /\ Len(gs) <= Ceiling(b)
Required == Max({Largest(groups), Worst + MinChunk}) + Repair

(* The levers are spent only when the split does not fit, and the evidence is split *)
(* again for the wider budget.                                                      *)
WidenBudget ==
  /\ at = "widen" /\ at' = "check"
  /\ LET wide == Widen(budget, Required) IN
     IF ~Fits(budget, groups) /\ PayloadOf(wide) > PayloadOf(budget)
     THEN budget' = wide /\ groups' = Split(full, SplitBudget(wide))
     ELSE UNCHANGED <<budget, groups>>
  /\ UNCHANGED <<cause, given, full>> /\ SameAnswers

(* Too many groups, or a group that cannot be divided, end the bootstrap.  *)
Check ==
  /\ at = "check"
  /\ IF Len(groups) > Ceiling(budget) THEN Fail("groups")
     ELSE IF Largest(groups) > SplitBudget(budget) THEN Fail("indivisible")
     ELSE at' = "ask" /\ UNCHANGED cause
  /\ SameData /\ SameAnswers

(* A rejected taxonomy: three entities or more and at most one type.       *)
Collapsed(types) == Cardinality({full[i].key : i \in 1..Len(full)}) >= 3 /\ Cardinality(types) <= 1
MergedTypes(as) == Existing \cup UNION {as[i] : i \in 1..Len(as)}

(* The rows of the groups that were answered in this attempt are ended.    *)
EndRows(rs, n) == [i \in 1..Len(rs) |-> IF i > Len(rs) - n THEN rs[i] + 1 ELSE rs[i]]

(* A group answers; its row stays open.  A group whose request fails ends its row *)
(* by itself, and the rows of the others are ended with it.                       *)
Answer(types) ==
  /\ at = "ask" /\ Len(answers) < Len(groups)
  /\ answers' = Append(answers, types) /\ rows' = Append(rows, 0)
  /\ UNCHANGED <<at, cause, attempt, entry>> /\ SameData

RequestFails ==
  /\ at = "ask" /\ Len(answers) < Len(groups)
  /\ rows' = Append(EndRows(rows, Len(answers)), 1)
  /\ \/ Fail("request")
     \/ at' = "stopped" /\ UNCHANGED cause
  /\ UNCHANGED <<attempt, answers, entry>> /\ SameData

AllAnswered == at = "ask" /\ Len(answers) = Len(groups)
RepairFits == \A i \in 1..Len(groups) : GroupSize(groups[i]) + Repair <= PayloadOf(budget)

(* The merged answer is taken; the rows of the attempt are completed.      *)
Accept ==
  /\ AllAnswered /\ ~Collapsed(MergedTypes(answers))
  /\ entry' = MergedTypes(answers) /\ at' = "enrich" /\ rows' = EndRows(rows, Len(answers))
  /\ UNCHANGED <<cause, attempt, answers>> /\ SameData

(* The merged answer is rejected: the rows end as failed, and every group is asked *)
(* again with a repair instruction.                                                *)
Reject ==
  /\ AllAnswered /\ Collapsed(MergedTypes(answers))
  /\ rows' = EndRows(rows, Len(answers))
  /\ IF attempt >= Retries THEN Fail("taxonomy") /\ UNCHANGED <<attempt, answers>>
     ELSE IF ~RepairFits THEN Fail("repair") /\ UNCHANGED <<attempt, answers>>
     ELSE attempt' = attempt + 1 /\ answers' = <<>> /\ UNCHANGED <<at, cause>>
  /\ UNCHANGED entry /\ SameData

(* The evidence gets the types of the domain.                              *)
Enrich ==
  /\ at = "enrich"
  /\ \/ at' \in {"done", "stopped"} /\ UNCHANGED cause
     \/ Fail("enrichment")
  /\ SameData /\ SameAnswers

Next ==
  \/ Plan \/ Prepared \/ NotPrepared \/ WidenBudget \/ Check
  \/ \E types \in SUBSET Types \ {{}} : Answer(types)
  \/ RequestFails \/ Accept \/ Reject \/ Enrich

(* Every request ends: see NativeRequest.                                  *)
Spec == Init /\ [][Next]_vars /\ WF_vars(Next)

-----------------------------------------------------------------------------
TypeOK ==
  /\ at \in {"plan", "split", "widen", "check", "ask", "enrich", "done", "failed", "stopped"}
  /\ (at = "failed" <=> cause # "") /\ attempt \in 0..Retries /\ entry \subseteq Types
  /\ Len(answers) <= Len(groups) /\ \A i \in 1..Len(rows) : rows[i] \in Nat

FactsIn(cs) ==
  FlattenSeq([i \in 1..Len(cs) |-> [f \in 1..Len(cs[i].facts) |-> <<cs[i].key, cs[i].facts[f].fact>>]])

(* "Nothing is ever dropped or truncated": the groups that are asked hold every fact *)
(* of every entity once, also after the second split of what was split before.       *)
EvidenceKept ==
  at \in {"check", "ask", "enrich", "done"} => FactsIn(FlattenSeq(groups)) = FactsIn(given)

(* Every request fits, with the repair instruction that may have to be added, and *)
(* there are no more of them than the model allows.                               *)
RequestsFit == at = "ask" => RepairFits /\ Len(groups) <= Ceiling(budget)

Exhausted == ~budget.schema /\ (Output = 0 \/ ~budget.output)

(* When one fact is too large, the budget could not be widened any more: a second *)
(* split always succeeds when the levers were enough.                             *)
LeversSpent == cause = "indivisible" => Exhausted

(* Every row of the sidebar is ended once, however the bootstrap ends.     *)
RowsEndOnce ==
  /\ \A i \in 1..Len(rows) : rows[i] <= 1
  /\ at \in {"enrich", "done", "failed", "stopped"} => \A i \in 1..Len(rows) : rows[i] = 1

(* No group's types are lost, nor a type the domain had, and a domain of three *)
(* entities does not get a single type.                                        *)
TypesKept ==
  at = "done" =>
    /\ \A i \in 1..Len(answers) : answers[i] \subseteq entry
    /\ Len(answers) = Len(groups) /\ Existing \subseteq entry /\ (Len(given) >= 3 => Cardinality(entry) > 1)

(* The bootstrap ends.                                                     *)
Pending == at \notin {"done", "failed", "stopped"}
=============================================================================
