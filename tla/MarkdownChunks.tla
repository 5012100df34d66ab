--------------------------- MODULE MarkdownChunks ---------------------------
(***************************************************************************)
(* The division of a source into chunks for the evidence mapper            *)
(* (src/markdown-chunks.ts) and the search for the largest chunk size      *)
(* whose requests fit (planSourceChunksForEvidence and                     *)
(* findLargestFeasibleBudget in src/phases/ingest-evidence.ts).            *)
(*                                                                         *)
(* A source is a sequence of kinds of lines; a line costs its weight in    *)
(* tokens.  A fence line opens a fenced block or closes it; within a block *)
(* nothing is a heading or a paragraph break, and a chunk that begins or   *)
(* ends inside one is rendered with a fence line of its own.  A division   *)
(* of the source maps the first line of every chunk to the headings above  *)
(* it.  The policies of the ingest leave the overlap of chunks at 0.       *)
(***************************************************************************)
EXTENDS Naturals, Sequences, FiniteSets, FiniteSetsExt, Functions

CONSTANTS
  MaxLines,      \* bound: lines of a source
  Kinds,         \* the kinds of lines that occur
  Budgets,       \* the input budgets a run may have
  Overhead       \* tokens of the mapper's prompt, its repair reserve and its safety

ChunkAssumption ==
  /\ MaxLines \in Nat \ {0} /\ Overhead \in Nat /\ Budgets \subseteq Nat \ {0}
  /\ Kinds \subseteq {"h1", "h2", "text", "blank", "fence"}

(* scanLines: whether a line begins inside a fence, or ends inside one.    *)
FenceBefore(s, i) == Cardinality({j \in 1..(i - 1) : s[j] = "fence"}) % 2 = 1
FenceAfter(s, i) == FenceBefore(s, i + 1)
Heading(s, i) == s[i] \in {"h1", "h2"} /\ ~FenceBefore(s, i)
Blank(s, i) == s[i] = "blank" /\ ~FenceBefore(s, i)

LastOf(S) == IF S = {} THEN 0 ELSE Max(S)

(* The headings above a line: the last one, and the last one of a higher level. *)
HeadingPath(s, i) ==
  LET top == LastOf({j \in 1..i : Heading(s, j) /\ s[j] = "h1"}) IN
  <<top, LastOf({j \in (top + 1)..i : Heading(s, j) /\ s[j] = "h2"})>>

Error == <<>>                  \* a RangeError in place of a division

(* The cost of the lines, a line of text counting double, and of the lines as they *)
(* are rendered.                                                                   *)
Raw(s, from, to) == (to + 1 - from) + Cardinality({i \in from..to : s[i] = "text"})

Cost(s, from, to) ==
  Raw(s, from, to) + (IF FenceBefore(s, from) THEN 1 ELSE 0) + (IF FenceAfter(s, to) THEN 1 ELSE 0)

(* The last line of the chunk that begins at a.                            *)
EndOf(s, div, a) == Min({b \in DOMAIN div : b > a} \cup {Len(s) + 1}) - 1
BlankOnly(s, div, a) == \A i \in a..EndOf(s, div, a) : Blank(s, i)

-----------------------------------------------------------------------------
(* A section begins at every heading; blank lines before the first one belong to *)
(* its section.                                                                  *)
Sections(s) ==
  LET headings == {i \in 1..Len(s) : Heading(s, i)}
      first == IF headings = {} THEN 1 ELSE Min(headings)
      blankPreamble == \A i \in 1..(first - 1) : s[i] = "blank"
  IN [a \in {1} \cup (IF blankPreamble THEN headings \ {first} ELSE headings) |->
        HeadingPath(s, IF a = 1 /\ blankPreamble THEN first ELSE a)]

(* A paragraph ends with the blank lines behind it.                        *)
Paragraphs(s, from, to) ==
  {from} \cup {e + 1 : e \in {e \in from..(to - 1) :
                 /\ Blank(s, e) /\ ~Blank(s, e + 1)
                 /\ \E j \in from..e : ~Blank(s, j)}}

(* The binary search for the last line of a window.                        *)
RECURSIVE LastFitting(_, _, _, _, _, _)
LastFitting(s, budget, from, low, high, best) ==
  IF low > high THEN best
  ELSE LET middle == low + ((high - low) \div 2) IN
       IF Cost(s, from, middle) <= budget
       THEN LastFitting(s, budget, from, middle + 1, high, middle)
       ELSE LastFitting(s, budget, from, low, middle - 1, best)

(* splitLineWindows: the first lines of the windows; 0 stands for the line that is *)
(* too large by itself.                                                            *)
RECURSIVE Windows(_, _, _, _)
Windows(s, budget, from, to) ==
  IF Cost(s, from, from) > budget THEN {0}
  ELSE LET end == LastFitting(s, budget, from, from, to, from) IN
       {from} \cup (IF end = to THEN {} ELSE Windows(s, budget, end + 1, to))

(* The first lines of a part that is kept whole if it fits and else divided. *)
Whole(s, budget, from, to, Divide(_, _)) ==
  IF Cost(s, from, to) <= budget THEN {from} ELSE Divide(from, to)

(* Parts that are only blank join the part before them, or else the one behind. *)
RECURSIVE Coalesce(_, _, _)
Coalesce(s, budget, div) ==
  LET blank == {a \in DOMAIN div : BlankOnly(s, div, a)} IN
  IF blank = {} \/ Cardinality(DOMAIN div) = 1 THEN div
  ELSE LET first == Min(blank)
           before == {a \in DOMAIN div : a < first}
           behind == {a \in DOMAIN div \ blank : a > first}
           next == Min(behind \cup {Len(s) + 1})
           rest == {a \in DOMAIN div : a < first \/ a > next}
       IN IF before # {} /\ Cost(s, Max(before), next - 1) <= budget
          THEN Coalesce(s, budget, Restrict(div, DOMAIN div \ {a \in blank : a < next}))
          ELSE IF behind # {} /\ Cost(s, first, EndOf(s, div, next)) <= budget
          THEN Coalesce(s, budget, [a \in rest \cup {first} |-> IF a = first THEN div[next] ELSE div[a]])
          ELSE Error

(* chunkMarkdownSource: the whole source, or sections, or paragraphs, or windows. *)
Chunk(s, budget) ==
  IF Cost(s, 1, Len(s)) <= budget THEN [a \in {1} |-> HeadingPath(s, 1)]
  ELSE LET sections == Sections(s)
           Window(from, to) == Windows(s, budget, from, to)
           Paragraph(from, to) ==
             LET paragraphs == [a \in Paragraphs(s, from, to) |-> a]
             IN UNION {Whole(s, budget, a, Min({to, EndOf(s, paragraphs, a)}), Window) : a \in DOMAIN paragraphs}
           starts == UNION {Whole(s, budget, a, EndOf(s, sections, a), Paragraph) : a \in DOMAIN sections}
       IN IF 0 \in starts THEN Error
          ELSE Coalesce(s, budget, [a \in starts |-> sections[Max({b \in DOMAIN sections : b <= a})]])

-----------------------------------------------------------------------------
(* The search for the largest chunk size                                   *)

VARIABLES
  src,        \* the source
  input,      \* the input budget of a request
  maxRaw,     \* the budget of a chunk in tokens of its text
  low, high,  \* the interval that is searched
  found,      \* the division of the best size so far, Error without one
  failed,     \* after a context error of the provider: the first and last line of the chunk
  at          \* "search", "done"

vars == <<src, input, maxRaw, low, high, found, failed, at>>

Nothing == <<0, 0>>

(* The prepared request of the mapper for a chunk: its lines, each with a number, *)
(* without its fence lines.                                                       *)
Estimate(s, from, to) == Overhead + Raw(s, from, to) + (to + 1 - from)

Joins(s, from, to) == Cost(s, from, to) <= maxRaw /\ Estimate(s, from, to) <= input

(* packAdjacentMapperChunks: neighbours are joined while they fit.         *)
RECURSIVE Pack(_, _, _)
Pack(s, div, a) ==
  LET next == EndOf(s, div, a) + 1 IN
  IF next > Len(s) THEN div
  ELSE IF Joins(s, a, EndOf(s, div, next)) THEN Pack(s, Restrict(div, DOMAIN div \ {next}), a)
  ELSE Pack(s, div, next)

Feasible(div) == div # Error /\ \A a \in DOMAIN div : Estimate(src, a, EndOf(src, div, a)) <= input
Planned(budget) == LET div == Chunk(src, budget) IN IF div = Error THEN Error ELSE Pack(src, div, 1)

Init ==
  /\ src \in UNION {[1..n -> Kinds] : n \in 1..MaxLines}
  /\ input \in Budgets /\ maxRaw = input
  /\ low = 1 /\ high = maxRaw /\ found = Error /\ failed = Nothing /\ at = "search"

(* One round of the search: too small goes up, too large goes down, and what fits *)
(* is kept while a larger size is tried.                                          *)
Round ==
  LET budget == low + ((high - low) \div 2)  div == Planned(budget) IN
  /\ at = "search" /\ low <= high
  /\ \/ div = Error /\ low' = budget + 1 /\ UNCHANGED <<high, found>>
     \/ div # Error /\ ~Feasible(div) /\ high' = budget - 1 /\ UNCHANGED <<low, found>>
     \/ Feasible(div) /\ low' = budget + 1 /\ found' = div /\ UNCHANGED high
  /\ UNCHANGED <<src, input, maxRaw, failed, at>>

(* After a context error the requests that replace the one that failed must be *)
(* smaller than it.                                                            *)
Progress(div) ==
  failed # Nothing =>
    \A a \in DOMAIN div :
      a <= failed[2] /\ failed[1] <= EndOf(src, div, a) =>
        Estimate(src, a, EndOf(src, div, a)) < Estimate(src, failed[1], failed[2])

Searched ==
  /\ at = "search" /\ low > high /\ at' = "done"
  /\ found' = (IF Progress(found) THEN found ELSE Error)
  /\ UNCHANGED <<src, input, maxRaw, low, high, failed>>

(* rechunkMapperSourceForRetry: the provider found a chunk too large; the request *)
(* budget shrinks, and every chunk must be smaller than the one that failed.      *)
Retry(a) ==
  /\ at = "done" /\ failed = Nothing /\ a \in DOMAIN found
  /\ failed' = <<a, EndOf(src, found, a)>> /\ input' = (input * 3) \div 4
  /\ maxRaw' = Raw(src, a, EndOf(src, found, a)) - 1
  /\ low' = 1 /\ high' = Min({maxRaw', input'}) /\ found' = Error /\ at' = "search"
  /\ UNCHANGED src

Next == Round \/ Searched \/ \E a \in 1..MaxLines : Retry(a)

Spec == Init /\ [][Next]_vars

-----------------------------------------------------------------------------
TypeOK ==
  /\ found = Error \/ (1 \in DOMAIN found /\ DOMAIN found \subseteq 1..Len(src))
  /\ failed = Nothing \/ (failed[1] \in 1..failed[2] /\ failed[2] \in 1..Len(src))
  /\ at = "done" => low > high

(* No request is spent on blank lines.                                     *)
SaysSomething ==
  Cardinality(DOMAIN found) > 1 => \A a \in DOMAIN found : ~BlankOnly(src, found, a)

(* A chunk and its request fit what they were made for, the fence lines included, *)
(* which the division added after it was decided.                                 *)
ChunksFit ==
  \A a \in DOMAIN found :
    Cost(src, a, EndOf(src, found, a)) <= maxRaw /\ Estimate(src, a, EndOf(src, found, a)) <= input

(* The headings a chunk is labelled with are the ones above its first words. *)
LabelledByHeading ==
  Cardinality(DOMAIN found) > 1 =>
    \A a \in DOMAIN found :
      found[a] = HeadingPath(src, Min({i \in a..EndOf(src, found, a) : ~Blank(src, i)}))

(* After a context error no chunk has as much text as the one that was refused, and *)
(* every request that reads its lines again is smaller.                             *)
RetrySmaller ==
  at = "done" /\ failed # Nothing =>
    /\ Progress(found)
    /\ \A a \in DOMAIN found : Raw(src, a, EndOf(src, found, a)) < Raw(src, failed[1], failed[2])

=============================================================================
