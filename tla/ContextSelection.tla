-------------------------- MODULE ContextSelection --------------------------
(***************************************************************************)
(* From the ranked sections of a query to the context of its answer:       *)
(* duplicates are dropped (chunk-dedup.ts), an optional reranker is asked  *)
(* in a race with its timeout and the user's stop, and its scores promote  *)
(* pages within bounds (reranker.ts), and the context takes one section    *)
(* per page before it takes siblings (selectQueryContextChunks).           *)
(*                                                                         *)
(* The sections are 1..N in ranked order, at most rerankerTopN of them, so *)
(* no cut before the context's bites.  What a section is (its page, text,  *)
(* question words, score in the ranking and of the reranker) is chosen     *)
(* when it is first looked at.                                             *)
(***************************************************************************)
EXTENDS Naturals, Sequences, FiniteSets, SequencesExt, FiniteSetsExt, Folds

CONSTANTS N, Bases, Scores, Words, ContextTopN

SelectionAssumption ==
  /\ N \in Nat \ {0} /\ ContextTopN \in Nat \ {0} /\ Words \in Nat
  /\ Bases \in SUBSET Nat /\ Bases # {} /\ Scores \in SUBSET (Nat \ {0})

Sections == 1..N
None == 0

VARIABLES page, text,        \* of every section: its page and its text, as the first section of the same
          base,              \* its score in the ranking
          words,             \* the question words it has
          pc,
          list,              \* the sections in their present order
          enabled, timer, listener, aborted,
          answer,            \* the reranker's scores, or None
          reason,            \* why the ranking stays as it was, or "none"
          context
given == <<page, text, base, words>>
race == <<enabled, timer, listener, aborted>>
vars == <<given, pc, list, race, answer, reason, context>>

Identity == [i \in Sections |-> i]
(* Which of the earlier sections each one shares something with.           *)
Partitions == {f \in [Sections -> Sections] : \A i \in Sections : f[i] <= i /\ f[f[i]] = f[i]}

TypeOK ==
  /\ pc \in {"ranked", "rerank", "waiting", "settled", "done", "stopped"}
  /\ ToSet(list) \subseteq Sections /\ ToSet(context) \subseteq ToSet(list) /\ {enabled, timer, listener, aborted} \subseteq BOOLEAN
  /\ reason \in {"none", "disabled", "missing-model", "timeout", "error", "malformed-response"}
  /\ \A i \in Sections : answer[i] \in Scores \union {None}

Init ==
  /\ page \in Partitions /\ text = Identity
  /\ base \in {b \in [Sections -> Bases] : \A i, j \in Sections : i < j => b[i] >= b[j]}
  /\ words = [i \in Sections |-> {}]
  /\ pc = "ranked" /\ list = [i \in Sections |-> i]
  /\ enabled = FALSE /\ timer = FALSE /\ listener = FALSE /\ aborted = FALSE
  /\ answer = [i \in Sections |-> None] /\ reason = "none" /\ context = <<>>

----------------------------------------------------------------------------
(* Of sections with one text the best is kept, which is the first.         *)
Kept(i) == text'[i] = i

Dedupe ==
  /\ pc = "ranked" /\ pc' = "rerank"
  /\ text' \in Partitions
  /\ list' = SelectSeq(list, Kept)
  /\ UNCHANGED <<page, base, words, race, answer, reason, context>>

(* The reranker is off, has no model, or is asked; a stop already there    *)
(* rejects at once, before any timer is set.                               *)
Request ==
  /\ pc = "rerank"
  /\ \/ enabled' = FALSE /\ reason' \in {"disabled", "missing-model"} /\ pc' = "settled" /\ UNCHANGED <<timer, listener>>
     \/ enabled' = TRUE /\ aborted /\ reason' = "error" /\ pc' = "settled" /\ UNCHANGED <<timer, listener>>
     \/ enabled' = TRUE /\ ~aborted /\ timer' = TRUE /\ listener' = TRUE /\ pc' = "waiting" /\ UNCHANGED reason
  /\ UNCHANGED <<given, list, aborted, answer, context>>

(* The race is over: whoever won, the timer and the listener are removed.  *)
Settle(why) == pc' = "settled" /\ reason' = why /\ timer' = FALSE /\ listener' = FALSE

Abort ==
  /\ pc \in {"ranked", "rerank", "waiting", "settled"} /\ ~aborted /\ aborted' = TRUE
  /\ IF listener THEN Settle("error") ELSE UNCHANGED <<pc, reason, timer, listener>>
  /\ UNCHANGED <<given, list, enabled, answer, context>>

Timeout ==
  /\ pc = "waiting" /\ timer /\ Settle("timeout")
  /\ UNCHANGED <<given, list, enabled, aborted, answer, context>>

----------------------------------------------------------------------------
(* The pages of the list, each with its best scores, in the order of their *)
(* first sections; the answer may leave sections out.                      *)
OfPage(p) == {k \in DOMAIN list : page[list[k]] = p}
PageSeq == SetToSortSeq({page[i] : i \in ToSet(list)}, LAMBDA p, q : Min(OfPage(p)) < Min(OfPage(q)))
PageBase(p) == Max({base[list[k]] : k \in OfPage(p)})
PageScore(p) == Max({answer'[list[k]] : k \in OfPage(p)})

(* A score between the least and the greatest of the answer, as a          *)
(* fraction of Spread; equal ones are all the greatest.                    *)
Answered == {answer'[i] : i \in ToSet(list)} \ {None}
Flat == Max(Answered) = Min(Answered)
Spread == IF Flat THEN 1 ELSE Max(Answered) - Min(Answered)
Normal(p) == IF PageScore(p) = None THEN 0 ELSE IF Flat THEN 1 ELSE PageScore(p) - Min(Answered)

(* 1/place + 0.6 of the normalised score, compared as fractions.           *)
Blended(order) ==
  LET above(k) == 5 * Spread + 3 * k * Normal(order[k])
  IN SetToSortSeq(DOMAIN order, LAMBDA j, k :
       above(j) * k > above(k) * j \/ (above(j) * k = above(k) * j /\ j < k))

(* A page may go one place up, into the first three, when its score is a   *)
(* fifth of the spread above that of the page there and its place in the   *)
(* ranking was earned with nearly the same score (0.95).                   *)
Target(order, k) ==
  IF /\ k > 1 /\ k - 1 <= 3
     /\ Normal(order[k]) >= Normal(order[k - 1]) /\ 5 * (Normal(order[k]) - Normal(order[k - 1])) >= Spread
     /\ 20 * PageBase(order[k]) >= 19 * PageBase(order[k - 1])
  THEN k - 1 ELSE k

(* A mutated form: a page whose place is taken finds none.                 *)
SlotsUnprobed(order) ==
  FoldLeft(LAMBDA slots, k : IF slots[Target(order, k)] = None THEN [slots EXCEPT ![Target(order, k)] = order[k]] ELSE slots,
           [k \in DOMAIN order |-> None], Blended(order))

(* By their blended scores pages take their targets, or the next free one. *)
Slots(order) ==
  LET free(slots, k) == {j \in DOMAIN slots : j >= Target(order, k) /\ slots[j] = None}
  IN FoldLeft(LAMBDA slots, k : IF free(slots, k) = {} THEN slots ELSE [slots EXCEPT ![Min(free(slots, k))] = order[k]],
              [k \in DOMAIN order |-> None], Blended(order))

(* The pages' first sections, then their second ones, and so on; a slot    *)
(* that stayed free is passed over.                                        *)
RoundRobin(pages) ==
  LET turn(k) == Cardinality({j \in DOMAIN list : j < k /\ page[list[j]] = page[list[k]]})
      place(k) == CHOOSE j \in DOMAIN pages : pages[j] = page[list[k]]
      taken == {k \in DOMAIN list : page[list[k]] \in ToSet(pages)}
      ks == SetToSortSeq(taken, LAMBDA j, k : turn(j) < turn(k) \/ (turn(j) = turn(k) /\ place(j) < place(k)))
  IN [k \in DOMAIN ks |-> list[ks[k]]]

(* The request fails, or its answer is no list of scores of candidates.    *)
Fails ==
  /\ pc = "waiting" /\ \E why \in {"error", "malformed-response"} : Settle(why)
  /\ UNCHANGED <<given, list, enabled, aborted, answer, context>>

Answers ==
  /\ pc = "waiting"
  /\ answer' \in {a \in [Sections -> Scores \union {None}] : \A i \in Sections : i \notin ToSet(list) => a[i] = None}
  /\ answer' # [i \in Sections |-> None]
  /\ Settle("none")
  /\ \E order \in {PageSeq} : \E slots \in {Slots(order)} : list' = RoundRobin(slots)
  /\ UNCHANGED <<given, enabled, aborted, context>>

----------------------------------------------------------------------------
Limit == IF ContextTopN < Len(list) THEN ContextTopN ELSE Len(list)
Siblings == Limit \div 3

(* One section per page, the first ones.                                   *)
Anchors ==
  LET firsts == SelectSeq([k \in DOMAIN list |-> k], LAMBDA k : k = Min(OfPage(page[list[k]])))
  IN SubSeq(firsts, 1, IF Len(firsts) < Limit - Siblings THEN Len(firsts) ELSE Limit - Siblings)

(* A question word that no picked section has brings in the first that     *)
(* has it, while there are sibling slots.                                  *)
WithWord(picked, w) ==
  LET have == {k \in DOMAIN list \ ToSet(picked) : w \in words'[list[k]]}
      covered == \E k \in ToSet(picked) : w \in words'[list[k]]
  IN IF have # {} /\ ~covered /\ Len(picked) < Limit /\ Len(picked) < Len(Anchors) + Siblings
     THEN Append(picked, Min(have)) ELSE picked

(* Then siblings of the anchors, then whatever is next.                    *)
Filled(picked) ==
  LET left == SelectSeq([k \in DOMAIN list |-> k], LAMBDA k : k \notin ToSet(picked))
      pages == {page[list[j]] : j \in ToSet(Anchors)}
      anchored(k) == page[list[k]] \in pages
      ordered == SelectSeq(left, anchored) \o SelectSeq(left, LAMBDA k : ~anchored(k))
  IN picked \o SubSeq(ordered, 1, Limit - Len(picked))

Select ==
  /\ pc = "settled"
  /\ IF aborted THEN pc' = "stopped" /\ UNCHANGED <<words, context>>
     ELSE /\ pc' = "done"
          /\ words' \in {w \in [Sections -> SUBSET (1..Words)] : \A i \in Sections : i \notin ToSet(list) => w[i] = {}}
          /\ LET picked == Filled(FoldLeft(WithWord, Anchors, [w \in 1..Words |-> w]))
             IN context' = [k \in DOMAIN picked |-> list[picked[k]]]
  /\ UNCHANGED <<page, text, base, list, race, answer, reason>>

Next == Dedupe \/ Request \/ Abort \/ Timeout \/ Fails \/ Answers \/ Select

(* The run goes on with a settled promise, and the window's timer fires;   *)
(* whether the model answers, fails or is cancelled is not up to it.       *)
Spec == Init /\ [][Next]_vars /\ WF_vars(Dedupe) /\ WF_vars(Request) /\ WF_vars(Timeout) /\ WF_vars(Select)

----------------------------------------------------------------------------
Distinct == {text[i] : i \in Sections}
PagesOf(s) == {page[i] : i \in ToSet(s)}
FirstOf(p) == Min({k \in DOMAIN list : page[list[k]] = p})
Undoubled == SelectSeq(Identity, LAMBDA i : text[i] = i)

(* From the removal of duplicates on, every text is in the list exactly    *)
(* once, whatever the reranker answers (chunk-dedup.ts:11-15; the slots    *)
(* of reranker.ts:273-305 lose no page).                                   *)
NoTextLost ==
  pc # "ranked" => Len(list) = Cardinality(Distinct) /\ {text[i] : i \in ToSet(list)} = Distinct
                   /\ \A i \in ToSet(list), j \in Sections : text[i] = text[j] => base[i] >= base[j]

(* No page rises by more than one place, and a page that another overtakes *)
(* has a lower score from the reranker.                                    *)
PromotionBounded ==
  reason = "none" /\ pc \in {"settled", "done"} =>
    LET first(p) == Min({i \in ToSet(Undoubled) : page[i] = p})
        before == SetToSortSeq(PagesOf(list), LAMBDA p, q : first(p) < first(q))
        after == SetToSortSeq(PagesOf(list), LAMBDA p, q : FirstOf(p) < FirstOf(q))
        best(p) == Max({answer[i] : i \in {j \in ToSet(list) : page[j] = p}})
    IN \A j, k \in DOMAIN after :
         /\ after[j] = before[k] => j + 1 >= k
         /\ j < k /\ first(after[j]) > first(after[k]) => best(after[j]) > best(after[k])

(* Whatever ends the request otherwise leaves the ranking as it was, and   *)
(* the reason told is the one that happened.                               *)
FallbackKeepsOrder ==
  reason # "none" /\ pc = "settled" => list = Undoubled /\ (~enabled <=> reason \in {"disabled", "missing-model"})

(* The race leaves nothing behind: once it is settled there is no timer    *)
(* and no listener (reranker.ts:521-527).                                  *)
RaceCleared == pc \in {"settled", "done", "stopped"} => ~timer /\ ~listener

(* The context has no section twice and is as long as it may be, begins    *)
(* with the first section of the list, and has as many pages as there are  *)
(* anchors to give.                                                        *)
ContextSound ==
  pc = "done" =>
    /\ IsInjective(context) /\ Len(context) = Min({ContextTopN, Len(list)}) /\ context[1] = list[1]
    /\ Cardinality(PagesOf(context)) >= Min({Cardinality(PagesOf(list)), Len(context) - Len(context) \div 3})

(* When there is a slot for siblings, the first question word that only    *)
(* sections beside the anchors have is in the context.                     *)
WordCovered ==
  pc = "done" /\ Siblings > 0 =>
    LET missing == {w \in 1..Words : (\A k \in ToSet(Anchors) : w \notin words[list[k]]) /\ \E i \in ToSet(list) : w \in words[i]}
    IN missing # {} => \E i \in ToSet(context) : Min(missing) \in words[i]

(* The request is always over: an answer, a failure, the stop or the       *)
(* timer settles it, and the query goes on.                                *)
Pending == pc \notin {"done", "stopped"}
=============================================================================
