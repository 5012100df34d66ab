--------------------------- MODULE EvidenceReduce ---------------------------
(***************************************************************************)
(* The reducer of an entity's evidence packets (reduceUntilBounded,        *)
(* reduceBatch and partitionUnits in src/phases/ingest-evidence.ts): while *)
(* the packets do not fit one request together they are joined in batches, *)
(* level by level.  A context error of the provider shrinks the budget and *)
(* divides the batch again.                                                *)
(*                                                                         *)
(* A unit is a packet or what packets were joined to: the ids of its       *)
(* packets in order and a set of facts.  Its size is what it weighs in a   *)
(* request.                                                                *)
(***************************************************************************)
EXTENDS Naturals, Sequences, FiniteSets, FiniteSetsExt, SequencesExt

CONSTANTS
  MaxPackets,    \* bound: packets of the entity
  Contents,      \* the sets of facts a packet may state
  Budgets,       \* the input budgets a run may have
  Base,          \* the size of a request without units
  Output,        \* outputBudgetTokens, in the same measure
  MaxDepth,      \* maxReductionDepth
  Repacks        \* MAX_CONTEXT_REPACKS

ReduceAssumption ==
  /\ {MaxPackets, Base, Output, MaxDepth, Repacks} \subseteq Nat /\ MaxPackets > 0
  /\ IsFiniteSet(Contents) /\ Budgets \subseteq Nat \ {0}

VARIABLES
  given,       \* the packets of the entity
  limit,       \* inputBudgetTokens
  at,          \* "level", "build", "send", "done" or "failed"
  units,       \* the units of this level
  depth,
  batches,     \* the batches of this level that are not reduced yet, the current one first
  reduced,     \* what the batches before it were reduced to
  budget,      \* effectiveInputBudget of the current batch
  repacks,     \* its context errors
  refused,     \* failedReducer: the units of the request that was refused last
  parts,       \* the parts of the batch that are not sent yet
  out          \* what the parts before were reduced to

vars == <<given, limit, at, units, depth, batches, reduced, budget, repacks, refused, parts, out>>

Weight(u) == 1 + Len(u.ids) + Cardinality(u.facts)
Cost(us) == Base + FoldLeft(LAMBDA sum, u : sum + Weight(u), 0, us)

(* evidenceFromUnits                                                       *)
Merged(us) ==
  [ids |-> FlattenSeq([i \in 1..Len(us) |-> us[i].ids]), facts |-> UNION {us[i].facts : i \in 1..Len(us)}]

(* partitionUnits: the longest prefix that fits, again and again; <<>> when a unit *)
(* does not fit by itself.                                                         *)
RECURSIVE Partition(_, _, _)
Partition(us, room, most) ==
  IF us = <<>> \/ Cost(SubSeq(us, 1, 1)) > room THEN <<>>
  ELSE LET end == Max({e \in 1..Min({Len(us), most}) : Cost(SubSeq(us, 1, e)) <= room})
           rest == Partition(SubSeq(us, end + 1, Len(us)), room, most)
       IN IF end = Len(us) THEN <<us>>
          ELSE IF rest = <<>> THEN <<>> ELSE <<SubSeq(us, 1, end)>> \o rest

(* assertReducerOutputFits                                                 *)
OutputFits(bs) == \A i \in 1..Len(bs) : Weight(Merged(bs[i])) <= Output

Packets(n) == [1..n -> Contents]

Init ==
  /\ given \in {[i \in 1..Len(p) |-> [ids |-> <<i>>, facts |-> p[i]]] : p \in UNION {Packets(n) : n \in 1..MaxPackets}}
  /\ limit \in Budgets
  /\ at = "level" /\ units = given /\ depth = 0 /\ batches = <<>> /\ reduced = <<>>
  /\ budget = limit /\ repacks = 0 /\ refused = <<>> /\ parts = <<>> /\ out = <<>>

Fail == at' = "failed"
Same == UNCHANGED <<given, limit>>
SameBatch == UNCHANGED <<budget, repacks, refused, parts, out>>

(* The units are few enough: packets that fit together are joined without a request, *)
(* a single unit is the result.                                                      *)
Bounded == Cost(units) <= limit /\ (depth = 0 \/ Len(units) = 1)

Result ==
  /\ at = "level" /\ Bounded
  /\ at' = "done" /\ units' = <<IF depth = 0 THEN Merged(units) ELSE units[1]>>
  /\ UNCHANGED <<depth, batches, reduced>> /\ SameBatch /\ Same

(* reduceUntilBounded: the units are divided into batches, fewer than there are *)
(* units.                                                                       *)
Level ==
  LET bs == Partition(units, limit, Len(units)) IN
  /\ at = "level" /\ ~Bounded
  /\ IF depth >= MaxDepth \/ bs = <<>> \/ Len(bs) >= Len(units) \/ ~OutputFits(bs)
     THEN Fail /\ UNCHANGED <<batches, budget, repacks, refused>>
     ELSE /\ at' = "build" /\ batches' = bs
          /\ budget' = limit /\ repacks' = 0 /\ refused' = <<>>
  /\ UNCHANGED <<units, depth, reduced, parts, out>> /\ Same

(* The parts of the batch after a context error: smaller ones, and the one with the *)
(* first unit that was refused must be a smaller request.                           *)
Progress(bs) ==
  refused # <<>> =>
    \A i \in 1..Len(bs) :
      (\E j \in 1..Len(bs[i]) : ToSet(bs[i][j].ids) \cap ToSet(refused[1].ids) # {}) => Cost(bs[i]) < Cost(refused)

Most(us) == IF refused = <<>> THEN Len(us) ELSE Len(refused) - 1

(* A mutated form: the parts may be as large as the one refused.           *)
BuildSame ==
  LET bs == Partition(Head(batches), budget, Len(Head(batches))) IN
  /\ at = "build"
  /\ IF bs = <<>> \/ ~OutputFits(bs)
     THEN Fail /\ UNCHANGED <<parts, out>>
     ELSE at' = "send" /\ parts' = bs /\ out' = <<>>
  /\ UNCHANGED <<units, depth, batches, reduced, budget, repacks, refused>> /\ Same

(* build: the batch is divided for the budget in force.                    *)
Build ==
  LET bs == Partition(Head(batches), budget, Most(Head(batches))) IN
  /\ at = "build"
  /\ IF Most(Head(batches)) = 0 \/ bs = <<>> \/ ~OutputFits(bs) \/ ~Progress(bs)
     THEN Fail /\ UNCHANGED <<parts, out>>
     ELSE at' = "send" /\ parts' = bs /\ out' = <<>>
  /\ UNCHANGED <<units, depth, batches, reduced, budget, repacks, refused>> /\ Same

(* The model returns a part joined, exactly as expected.                   *)
Reduce ==
  /\ at = "send" /\ parts # <<>>
  /\ out' = Append(out, Merged(Head(parts))) /\ parts' = Tail(parts)
  /\ UNCHANGED <<at, units, depth, batches, reduced, budget, repacks, refused>> /\ Same

(* It answers something else after the repairs too, or the request fails.  *)
Reject ==
  /\ at = "send" /\ parts # <<>> /\ Fail
  /\ UNCHANGED <<units, depth, batches, reduced>> /\ SameBatch /\ Same

(* The provider refuses the request for its size.                          *)
ContextError ==
  /\ at = "send" /\ parts # <<>>
  /\ refused' = Head(parts)
  /\ IF repacks = Repacks \/ budget = 1
     THEN Fail /\ UNCHANGED <<budget, repacks>>
     ELSE budget' \in 1..(budget - 1) /\ repacks' = repacks + 1 /\ at' = "build"
  /\ UNCHANGED <<units, depth, batches, reduced, parts, out>> /\ Same

(* The next batch, with the budget of the policy again.                    *)
NextBatch ==
  /\ at = "send" /\ parts = <<>> /\ Len(batches) > 1
  /\ reduced' = reduced \o out /\ batches' = Tail(batches) /\ at' = "build"
  /\ budget' = limit /\ repacks' = 0 /\ refused' = <<>>
  /\ UNCHANGED <<units, depth, parts, out>> /\ Same

(* The next level, with fewer units.                                       *)
NextLevel ==
  /\ at = "send" /\ parts = <<>> /\ Len(batches) = 1
  /\ batches' = <<>> /\ reduced' = <<>>
  /\ IF Len(reduced \o out) >= Len(units) THEN Fail /\ UNCHANGED <<units, depth>>
     ELSE at' = "level" /\ units' = reduced \o out /\ depth' = depth + 1
  /\ SameBatch /\ Same

Next == Result \/ Level \/ Build \/ Reduce \/ Reject \/ ContextError \/ NextBatch \/ NextLevel

(* Every request ends, with an answer or an error: see NativeRequest.      *)
Spec == Init /\ [][Next]_vars /\ WF_vars(Next)

-----------------------------------------------------------------------------
(* The states of the reducer; and when requests are being sent there is a batch. *)
TypeOK ==
  /\ at \in {"level", "build", "send", "done", "failed"} /\ depth \in 0..MaxDepth
  /\ budget \in 1..limit /\ repacks \in 0..Repacks
  /\ at \in {"build", "send"} => batches # <<>>

(* Through every level, batch and retry each packet is carried exactly once, in *)
(* order, and no fact is lost or added.                                         *)
Conserved ==
  at \in {"level", "done"} =>
    /\ FlattenSeq([i \in 1..Len(units) |-> units[i].ids]) = [i \in 1..Len(given) |-> i]
    /\ UNION {units[i].facts : i \in 1..Len(units)} = UNION {given[i].facts : i \in 1..Len(given)}

(* No request is larger than the budget that is in force, and none asks for more *)
(* than the model may answer.                                                    *)
RequestsFit ==
  at = "send" /\ parts # <<>> => Cost(Head(parts)) <= budget /\ Weight(Merged(Head(parts))) <= Output

(* The result fits a request.                                              *)
ResultFits == at = "done" => Cost(units) <= limit

(* No refused request is repeated, alone or as part of a larger one.       *)
NotRepeated ==
  at = "send" /\ parts # <<>> /\ refused # <<>> =>
    ~(\E i \in 1..Len(Head(parts)) : Head(parts)[i] = refused[1]) \/ Cost(Head(parts)) < Cost(refused)

(* The reduction ends.                                                     *)
Pending == at \notin {"done", "failed"}
=============================================================================
