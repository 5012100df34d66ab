----------------------------- MODULE LintBatch -----------------------------
(***************************************************************************)
(* How the quality check divides its work (src/phases/lint-batches.ts,     *)
(* packLintWorkBatches and runLintBatchWithSplit in src/phases/lint.ts): a *)
(* page that is too large becomes its sections, a section that is too      *)
(* large windows of lines; the items are packed into batches; a batch      *)
(* whose request or answer fails for its size or for its coverage is       *)
(* divided and both halves are asked.                                      *)
(*                                                                         *)
(* A text is told apart by its lines' sizes; a heading has size 1.         *)
(***************************************************************************)
EXTENDS Naturals, Sequences, FiniteSets, FiniteSetsExt, SequencesExt

CONSTANTS
  Pages,      \* names, numbers from 1 on
  Texts,      \* the pages a run may find: records of a preamble's size and sections;
              \* one without sections is small
  ItemBudget, \* effectiveBudget of buildLintWorkItems
  Budget,     \* inputBudgetTokens
  Related,    \* bound: related sections of a request, of size 1 each
  MaxDeletes  \* bound: deletions in an answer

LintBatchAssumption ==
  /\ Pages \subseteq Nat \ {0} /\ Pages = 1..Cardinality(Pages)
  /\ (\A t \in Texts : t.sections = <<>> => t.preamble <= ItemBudget)
  /\ ItemBudget \in Nat /\ Budget \in Nat \ {0} /\ {Related, MaxDeletes} \subseteq Nat

Repacks == 2  \* MAX_CONTEXT_REPACKS

VARIABLES
  at,       \* "plan", "pack", "build", "send", "merge", "done" or "failed"
  pages,    \* the texts
  items,    \* the work items in order
  batches,  \* those still to be sent
  todo,     \* of the batch being sent: the parts still to be asked, in order
  budget, attempt,   \* of the part being asked
  related,  \* how many related sections are in its request
  covered, deletes,  \* of the parts of the batch that were answered
  checked,  \* items of the batches that were answered
  skipped   \* items of the batches that failed

vars == <<at, pages, items, batches, todo, budget, attempt, related, covered, deletes, checked, skipped>>

Total(s) == FoldLeft(LAMBDA a, b : a + b, 0, s)
SectionSize(s) == 1 + Total(s.lines)
PageSize(t) == t.preamble + Total([i \in DOMAIN t.sections |-> SectionSize(t.sections[i])])

Item(id, lines, size) == [id |-> id, lines |-> lines, size |-> size]

(* The last line of the window that starts at a line: what fits, and one at least. *)
WindowEnd(lines, start) ==
  LET fits(n) == 1 + Total(SubSeq(lines, start, n)) <= ItemBudget
  IN Max({start} \cup {n \in start..Len(lines) : fits(n)})

(* windowSection.                                                          *)
Windows(p, section) ==
  LET lines == section.lines
      next[start \in 1..(Len(lines) + 1)] ==
        IF start > Len(lines) THEN <<>>
        ELSE LET end == WindowEnd(lines, start) IN
             <<Item([page |-> p, head |-> section.head, n |-> <<start, end>>],
                    {<<p, section.at, l>> : l \in start..end}, 1 + Total(SubSeq(lines, start, end)))>>
             \o next[end + 1]
  IN IF lines = <<>> THEN <<Item([page |-> p, head |-> section.head, n |-> <<1, 1>>], {}, 1)>> ELSE next[1]

Lines(p) ==
  {<<p, 0, 0>>} \cup UNION {{<<p, i, l>> : l \in DOMAIN pages[p].sections[i].lines} : i \in DOMAIN pages[p].sections}

(* The items of a section and of a page: the page, its sections, or their windows. *)
OfSection(p, i) ==
  LET section == [pages[p].sections[i] EXCEPT !.at = i] IN
  IF SectionSize(section) <= ItemBudget
  THEN <<Item([page |-> p, head |-> section.head, n |-> <<i>>], {<<p, i, l>> : l \in DOMAIN section.lines}, SectionSize(section))>>
  ELSE Windows(p, section)

OfPage(p) ==
  IF PageSize(pages[p]) <= ItemBudget
  THEN <<Item([page |-> p, head |-> "page", n |-> <<>>], Lines(p), PageSize(pages[p]))>>
  ELSE FlattenSeq([i \in DOMAIN pages[p].sections |-> OfSection(p, i)])

Size(part) == Total([i \in DOMAIN part |-> part[i].size])
Ids(part) == {part[i].id : i \in DOMAIN part}

(* packLintWorkBatches.                                                    *)
Pack(list) ==
  FoldLeft(LAMBDA packed, item :
             IF packed = <<>> THEN <<<<item>> >>
             ELSE IF Size(Append(Last(packed), item)) <= Budget THEN Append(Front(packed), Append(Last(packed), item))
             ELSE Append(packed, <<item>>), <<>>, list)

-----------------------------------------------------------------------------
Init ==
  /\ at = "plan" /\ pages \in [Pages -> Texts] /\ items = <<>> /\ batches = <<>> /\ todo = <<>>
  /\ budget = Budget /\ attempt = 0 /\ related = 0
  /\ covered = <<>> /\ deletes = <<>> /\ checked = <<>> /\ skipped = <<>>

Plan ==
  /\ at = "plan" /\ items' = FlattenSeq([p \in 1..Cardinality(Pages) |-> OfPage(p)])
  /\ at' = "pack"
  /\ UNCHANGED <<pages, batches, todo, budget, attempt, related, covered, deletes, checked, skipped>>

(* validateLintCoverage refuses two items of one name, and with them the check. *)
Cover ==
  /\ at = "pack"
  /\ IF \E i, j \in DOMAIN items : i # j /\ items[i].id = items[j].id
     THEN at' = "failed" /\ UNCHANGED batches
     ELSE at' = "next" /\ batches' = Pack(items)
  /\ UNCHANGED <<pages, items, todo, budget, attempt, related, covered, deletes, checked, skipped>>

(* The batches are sent one after the other.                               *)
NextBatch ==
  /\ at = "next"
  /\ IF batches = <<>> THEN at' = "done" /\ UNCHANGED <<batches, todo>>
     ELSE at' = "build" /\ todo' = <<Head(batches)>> /\ batches' = Tail(batches)
  /\ budget' = Budget /\ attempt' = 0 /\ covered' = <<>> /\ deletes' = <<>>
  /\ UNCHANGED <<pages, items, related, checked, skipped>>

Part == Head(todo)
Half(part) == (Len(part) + 1) \div 2

(* The part is divided.                                                    *)
Split ==
  /\ at' = "build" /\ budget' = Budget /\ attempt' = 0
  /\ todo' = <<SubSeq(Part, 1, Half(Part)), SubSeq(Part, Half(Part) + 1, Len(Part))>> \o Tail(todo)
  /\ UNCHANGED <<covered, deletes, skipped>>

(* The batch is skipped, with what its other parts were answered.          *)
Skip ==
  /\ at' = "next" /\ todo' = <<>> /\ covered' = <<>> /\ deletes' = <<>>
  /\ skipped' = skipped \o covered \o FlattenSeq([i \in DOMAIN todo |-> [j \in DOMAIN todo[i] |-> todo[i][j].id]])
  /\ UNCHANGED <<budget, attempt>>

SplitOrSkip == IF Len(Part) > 1 THEN Split ELSE Skip

(* Related sections are added within a quarter of the budget and dropped until it fits; *)
(* what does not fit without them is too large.                                         *)
Build ==
  /\ at = "build"
  /\ IF Size(Part) > budget THEN SplitOrSkip /\ UNCHANGED related
     ELSE /\ at' = "send"
          /\ \E n \in 0..Related : related' = Min({n, budget \div 4, budget - Size(Part)})
          /\ UNCHANGED <<todo, budget, attempt, covered, deletes, skipped>>
  /\ UNCHANGED <<pages, items, batches, checked>>

(* Pages an answer removes: of the part, each once.                        *)
Deletions(part) ==
  {ds \in SUBSET {part[i].id.page : i \in DOMAIN part} : Cardinality(ds) <= MaxDeletes}

(* The answer passes validateLintBatchOutput; the answers of the parts are joined. *)
Answer ==
  /\ at = "send" /\ todo' = Tail(todo)
  /\ \E ds \in Deletions(Part) :
       /\ covered' = covered \o [i \in DOMAIN Part |-> Part[i].id] /\ deletes' = deletes \o SetToSeq(ds)
       /\ at' = IF Tail(todo) = <<>> THEN "merge" ELSE "build"
  /\ budget' = Budget /\ attempt' = 0
  /\ UNCHANGED <<pages, items, batches, related, checked, skipped>>

(* It leaves out an item, names another one, or has an outdated hash: it is divided; or *)
(* it has another defect, or the request fails: the batch is skipped.                   *)
Refuse == at = "send" /\ (SplitOrSkip \/ Skip) /\ UNCHANGED <<pages, items, batches, related, checked>>

(* The provider finds the prompt too long: a smaller budget, then a division. *)
TooLong ==
  /\ at = "send"
  /\ IF attempt = Repacks \/ budget <= 1 THEN SplitOrSkip
     ELSE /\ at' = "build" /\ attempt' = attempt + 1 /\ budget' = Max({1, (budget * 3) \div 4})
          /\ UNCHANGED <<todo, covered, deletes, skipped>>
  /\ UNCHANGED <<pages, items, batches, related, checked>>

Merge ==
  /\ at = "merge" /\ at' = "next" /\ checked' = checked \o covered
  /\ UNCHANGED <<pages, items, batches, todo, budget, attempt, related, covered, deletes, skipped>>

Next == Plan \/ Cover \/ NextBatch \/ Build \/ Answer \/ Refuse \/ TooLong \/ Merge
Spec == Init /\ [][Next]_vars /\ WF_vars(Next)

-----------------------------------------------------------------------------
TypeOK ==
  /\ at \in {"plan", "pack", "next", "build", "send", "merge", "done", "failed"}
  /\ budget \in 1..Budget /\ attempt \in 0..Repacks /\ related \in 0..Related
  /\ at \in {"build", "send"} => todo # <<>> /\ \A i \in DOMAIN todo : todo[i] # <<>>

(* At the end every item was either checked or skipped, and once: neither the packing *)
(* nor the divisions lose one or ask one twice.                                       *)
EveryItemOnce ==
  at = "done" =>
    /\ Len(checked) + Len(skipped) = Len(items)
    /\ ToSet(checked) \cup ToSet(skipped) = Ids(items)

(* Every line of every section is in exactly one item.                     *)
LinesCovered ==
  at # "plan" =>
    \A p \in Pages : \A line \in Lines(p) :
      line[2] # 0 => Cardinality({i \in DOMAIN items : line \in items[i].lines}) = 1

(* What is sent fits the budget of the attempt with the related sections, and an item *)
(* larger than its budget is a window of one line.                                    *)
RequestFits ==
  /\ at = "send" => Size(Part) + related <= budget
  /\ \A i \in DOMAIN items :
       items[i].size > ItemBudget => Cardinality(items[i].lines) = 1

(* Every check ends.                                                       *)
Pending == at \notin {"done", "failed"}

-----------------------------------------------------------------------------
=============================================================================
