--------------------------- MODULE RetrievalGraph ---------------------------
(***************************************************************************)
(* How a query widens its seeds along the links of a domain's pages: the   *)
(* cached graph (wiki-graph-cache.ts), the bounded breadth-first walk and  *)
(* the ranking of what it reached (wiki-graph.ts), the relevance floor     *)
(* (retrieval-prune.ts) and the fusion of two rankings (fusion.ts,         *)
(* rrf.ts).                                                                *)
(*                                                                         *)
(* Pages and ghosts (targets of links that are no pages) are numbers,      *)
(* which also order equals.  A graph is its set of links; a page's length  *)
(* is one of two.  Cosines are whole numbers plus one, None where a page   *)
(* has no vector; the ratio of the floor is Ratio tenths.                  *)
(***************************************************************************)
EXTENDS Naturals, Sequences, FiniteSets, SequencesExt, FiniteSetsExt

CONSTANTS NPages, NGhosts, MaxLinks, MaxSeeds, MaxScore, Depth, TopK, Ratio, RrfK,
          MaxEdits, MaxQueries

GraphAssumption ==
  /\ NPages \in Nat \ {0} /\ Ratio \in 0..10
  /\ {NGhosts, MaxLinks, MaxSeeds, MaxScore, Depth, TopK, RrfK, MaxEdits, MaxQueries} \subseteq Nat

Pages == 1..NPages
Ids == 1..(NPages + NGhosts)
None == 0
Graphs == UNION {kSubset(n, Pages \X Ids) : n \in 0..MaxLinks}

VARIABLES links, length,    \* what the pages say now
          edits, queries,
          hidden,           \* an edit left a page with the length the cache knows (history)
          cache,            \* the entries kept: a set of at most one
          pc,
          graph,            \* the graph of this query
          seeds,            \* its seeds, a sequence
          frontier, visited, hop,
          cosine,           \* of every page, or None
          dense,            \* the seeds were ranked by vectors, with no fallback
          selected,         \* the candidates, a sequence
          score,            \* what the ranking gave them
          pruned,
          order             \* the fused order
page == <<links, length>>
walk == <<graph, seeds, frontier, visited, hop>>
ranking == <<cosine, dense, selected, score, pruned, order>>
vars == <<page, edits, queries, hidden, cache, pc, walk, ranking>>

TypeOK ==
  /\ links \in SUBSET (Pages \X Ids) /\ length \in [Pages -> 0..1] /\ hidden \in BOOLEAN
  /\ pc \in {"idle", "walk", "rank", "floor", "fuse", "done"}
  /\ Cardinality(cache) <= 1
  /\ visited \subseteq Ids /\ frontier \subseteq visited /\ hop \in 0..Depth
  /\ ToSet(selected) \subseteq visited /\ pruned \subseteq visited
  /\ dense \in BOOLEAN

Init ==
  /\ links \in Graphs /\ length = [p \in Pages |-> 0]
  /\ edits = 0 /\ queries = 0 /\ hidden = FALSE /\ cache = {} /\ pc = "idle"
  /\ graph = {} /\ seeds = <<>> /\ frontier = {} /\ visited = {} /\ hop = 0
  /\ cosine = [p \in Pages |-> None] /\ dense = FALSE
  /\ selected = <<>> /\ score = [i \in Ids |-> 0] /\ pruned = {} /\ order = <<>>

----------------------------------------------------------------------------
(* Between queries a page is edited in the vault, with another length or   *)
(* with the same one.                                                      *)
Edit ==
  /\ pc = "idle" /\ edits < MaxEdits /\ edits' = edits + 1
  /\ \E p \in Pages, ends \in SUBSET Ids, len \in 0..1 :
       /\ links' = {e \in links : e[1] # p} \union ({p} \X ends)
       /\ links' # links /\ Cardinality(links') <= MaxLinks
       /\ length' = [length EXCEPT ![p] = len]
       /\ hidden' = (hidden \/ \E entry \in cache : entry.length[p] = len)
  /\ UNCHANGED <<queries, cache, pc, walk, ranking>>

(* An operation of the plugin changes pages and drops the entry.           *)
Invalidate ==
  /\ pc = "idle" /\ cache # {} /\ edits < MaxEdits /\ edits' = edits + 1
  /\ links' \in Graphs
  /\ cache' = {} /\ hidden' = FALSE
  /\ UNCHANGED <<length, queries, pc, walk, ranking>>

(* The key of an entry is the lengths of the pages.                        *)
Hit == \E entry \in cache : entry.length = length
Cached == CHOOSE entry \in cache : TRUE

Ask ==
  /\ pc = "idle" /\ queries < MaxQueries /\ queries' = queries + 1
  /\ IF Hit THEN graph' = Cached.graph /\ UNCHANGED <<cache, hidden>>
     ELSE graph' = links /\ cache' = {[length |-> length, graph |-> links]} /\ hidden' = FALSE
  /\ \E n \in 1..MaxSeeds : \E set \in kSubset(n, Ids) : seeds' \in SetToSeqs(set)
  /\ frontier' = ToSet(seeds') /\ visited' = ToSet(seeds') /\ hop' = 0
  /\ pc' = "walk"
  /\ UNCHANGED <<page, edits, ranking>>

(* Links are followed both ways; a target is entered if it is a page.      *)
Neighbours(node) ==
  {e[2] : e \in {d \in graph : d[1] = node /\ d[2] \in Pages}} \union {e[1] : e \in {d \in graph : d[2] = node}}

Reached(nodes) == (UNION {Neighbours(n) : n \in nodes}) \ visited

Hop ==
  /\ pc = "walk" /\ hop < Depth /\ Reached(frontier) # {}
  /\ hop' = hop + 1
  /\ frontier' = Reached(frontier) /\ visited' = visited \union Reached(frontier)
  /\ UNCHANGED <<page, edits, queries, hidden, cache, pc, graph, seeds, ranking>>

Walked ==
  /\ pc = "walk" /\ (hop = Depth \/ Reached(frontier) = {})
  /\ pc' = "rank" /\ UNCHANGED <<page, edits, queries, hidden, cache, walk, ranking>>

----------------------------------------------------------------------------
Others == visited \ ToSet(seeds)
ByScore(ids, given) ==
  SetToSortSeq(ids, LAMBDA a, b : given[a] > given[b] \/ (given[a] = given[b] /\ a < b))
First(s, n) == SubSeq(s, 1, IF Len(s) < n THEN Len(s) ELSE n)

(* What the similarity service lists: no page without a score.             *)
Listed(given) == First(ByScore({i \in Others : given[i] > 0}, given), TopK)

(* The rest is ranked by cosine where there is one and by words elsewhere, *)
(* by words alone when there is no service, and not at all when the        *)
(* service throws or there is no limit.                                    *)
Rank ==
  /\ pc = "rank"
  /\ cosine' \in [Pages -> 0..(MaxScore + 1)]
  /\ dense' \in (IF ToSet(seeds) \subseteq Pages /\ \E p \in Pages : cosine'[p] > 1 THEN BOOLEAN ELSE {FALSE})
  /\ \E words \in 0..1 :
       LET given == [i \in Ids |-> IF i \notin Pages THEN 0 ELSE IF cosine'[i] = None THEN words ELSE cosine'[i] - 1]
           all == SetToSortSeq(Others, LAMBDA a, b : a < b)
       IN \/ TopK > 0 /\ selected' = seeds \o Listed(given) /\ score' = given
          \/ TopK > 0 /\ ~dense' /\ selected' = seeds \o First(ByScore(Others, given), TopK) /\ score' = given
          \/ selected' = seeds \o all
             /\ score' = [i \in Ids |-> IF i \in ToSet(seeds) THEN given[i] ELSE 0]
  /\ pc' = "floor"
  /\ UNCHANGED <<page, edits, queries, hidden, cache, walk, pruned, order>>

(* The anchors of the bar: the best cosine, and the low percentile (five   *)
(* in a hundred, interpolated, in twentieths) of all cosines.              *)
Cosines == ByScore({p \in Pages : cosine[p] # None}, cosine)
Best == cosine[Cosines[1]] - 1
Low20 ==
  LET n == Len(Cosines)
      low == cosine[Cosines[n]] - 1
      next == cosine[Cosines[n - 1]] - 1
  IN IF n = 1 THEN 20 * low ELSE 20 * low + (n - 1) * (next - low)
Bar200 == 10 * Low20 + Ratio * (20 * Best - Low20)
Collapsed == 20 * Best = Low20

Below(i) == i \in Pages /\ cosine[i] # None /\ 200 * (cosine[i] - 1) < Bar200

(* Only when the scales compare: seeds by vectors, and a limited walk.     *)
Floor ==
  /\ pc = "floor" /\ pc' = "fuse"
  /\ pruned' = IF Ratio > 0 /\ dense /\ TopK > 0 /\ ~Collapsed
               THEN {i \in ToSet(selected) \ ToSet(seeds) : Below(i)} ELSE {}
  /\ selected' = SelectSeq(selected, LAMBDA i : i \notin pruned')
  /\ UNCHANGED <<page, edits, queries, hidden, cache, walk, cosine, dense, score, order>>

----------------------------------------------------------------------------
(* The hop of every id: the levels of the same walk.                       *)
Levels ==
  LET level[h \in 0..Depth] ==
        IF h = 0 THEN ToSet(seeds)
        ELSE (UNION {Neighbours(n) : n \in level[h - 1]}) \union level[h - 1]
  IN level
HopOf(i) == Min({h \in 0..Depth : i \in Levels[h]} \union {Depth + 1})
InDegree(i) == Cardinality({e \in graph : e[2] = i})
Place(s, i) == CHOOSE k \in DOMAIN s : s[k] = i

VectorList ==
  SetToSortSeq(ToSet(selected), LAMBDA a, b :
    score[a] > score[b] \/ (score[a] = score[b] /\ Place(selected, a) < Place(selected, b)))
GraphList ==
  LET hops == [i \in Ids |-> HopOf(i)]
  IN SetToSortSeq(ToSet(selected), LAMBDA a, b :
       \/ hops[a] < hops[b]
       \/ hops[a] = hops[b] /\ InDegree(a) > InDegree(b)
       \/ hops[a] = hops[b] /\ InDegree(a) = InDegree(b) /\ Place(selected, a) < Place(selected, b))

(* Reciprocal ranks, 1/(k + i) + 1/(k + j), compared as fractions; equal   *)
(* ones by where they were seen first.                                     *)
Fused(first, second) ==
  LET one == [i \in ToSet(selected) |-> RrfK + Place(first, i)]
      two == [i \in ToSet(selected) |-> RrfK + Place(second, i)]
      above(a, b) == (one[a] + two[a]) * one[b] * two[b]
  IN SetToSortSeq(ToSet(selected), LAMBDA a, b :
       above(a, b) > above(b, a) \/ (above(a, b) = above(b, a) /\ one[a] < one[b]))

Fuse ==
  /\ pc = "fuse" /\ pc' = "done"
  /\ order' = Fused(VectorList, GraphList)
  /\ UNCHANGED <<page, edits, queries, hidden, cache, walk, cosine, dense, selected, score, pruned>>

(* The next query starts afresh.                                           *)
Answered ==
  /\ pc = "done" /\ pc' = "idle"
  /\ graph' = {} /\ seeds' = <<>> /\ frontier' = {} /\ visited' = {} /\ hop' = 0
  /\ cosine' = [p \in Pages |-> None] /\ dense' = FALSE
  /\ selected' = <<>> /\ score' = [i \in Ids |-> 0] /\ pruned' = {} /\ order' = <<>>
  /\ UNCHANGED <<page, edits, queries, hidden, cache>>

Next == Edit \/ Invalidate \/ Ask \/ Hop \/ Walked \/ Rank \/ Floor \/ Fuse \/ Answered
Spec == Init /\ [][Next]_vars

----------------------------------------------------------------------------
(* A chain of links between nodes, in either direction, that enters pages  *)
(* only.                                                                   *)
Chain(w) ==
  \A k \in 1..(Len(w) - 1) : w[k + 1] \in Pages /\ ({<<w[k], w[k + 1]>>, <<w[k + 1], w[k]>>} \intersect graph # {})
Within(i, n) == \E k \in 1..(n + 1) : \E w \in [1..k -> Ids] : w[1] \in ToSet(seeds) /\ w[k] = i /\ Chain(w)

(* The walk finds exactly what a chain of at most Depth links connects     *)
(* with a seed, whoever wrote the links (wiki-graph.ts:26-32).             *)
WithinDepth == pc = "rank" => visited = {i \in Ids : Within(i, Depth)}

(* The hop the fusion counts is the length of the shortest chain.          *)
HopsShortest ==
  pc = "fuse" => \A i \in ToSet(selected) :
    HopOf(i) <= Depth /\ Within(i, HopOf(i)) /\ (HopOf(i) > 0 => ~Within(i, HopOf(i) - 1))

(* The floor drops no seed and no page without a vector, and what it drops *)
(* is less similar than every page with a vector that it keeps; the most   *)
(* similar page is never dropped (retrieval-prune.ts:1-9).                 *)
FloorFair ==
  pc \in {"fuse", "done"} =>
    /\ ToSet(seeds) \subseteq ToSet(selected)
    /\ \A p \in pruned :
         /\ cosine[p] # None /\ cosine[p] - 1 < Best
         /\ \A q \in (ToSet(selected) \intersect Pages) \ ToSet(seeds) : cosine[q] # None => cosine[q] > cosine[p]

(* The fused order lists every candidate once, and what is more similar    *)
(* and nearer than another goes before it (fusion.ts:1-8).                 *)
FusionFair ==
  pc = "done" =>
    /\ Len(order) = Len(selected) /\ ToSet(order) = ToSet(selected)
    /\ \A j, k \in DOMAIN order :
         score[order[j]] > score[order[k]] /\ HopOf(order[j]) < HopOf(order[k]) => j < k

(* The graph of a query is the one the pages spell, unless an edit since   *)
(* it was kept left a page with the length it had then.                    *)
CurrentUnlessHidden == pc # "idle" => graph = links \/ hidden

=============================================================================
