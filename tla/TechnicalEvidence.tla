------------------------- MODULE TechnicalEvidence -------------------------
(***************************************************************************)
(* The technical evidence of a page (src/phases/synthesis-evidence-        *)
(* ledger.ts): the code and the URLs of a source are its ledger; what the  *)
(* model answers for a page is stripped of code and URLs that neither the  *)
(* ledger nor the page had, and what it left out is appended in a section  *)
(* of its own.  The page of one source is what the next one starts from.   *)
(*                                                                         *)
(* A text is a sequence of lines.  A line is one of the constants below:   *)
(* "open" (a fence with an info string) closes no fence, "close" (a bare   *)
(* one) opens a fence outside of one and closes it inside.                 *)
(***************************************************************************)
EXTENDS Naturals, Sequences, FiniteSets, FiniteSetsExt, SequencesExt

CONSTANTS
  Technical,  \* lines that are commands or assignments outside of a fence too
  Urls,       \* lines that hold a URL
  Within,     \* pairs of different lines: the text of the first occurs in the second
  Sources,    \* the texts that are ingested
  Lines,      \* lines an answer is made of
  MaxAnswer,  \* bound: lines of an answer
  MaxRounds   \* bound: sources of one page

EvidenceAssumption ==
  /\ Technical \cap Urls = {} /\ MaxAnswer \in Nat /\ MaxRounds \in Nat
  /\ (Technical \cup Urls) \cap {"open", "close", "head", "sources", "prose", "blank"} = {}

Headings == {"head", "sources", "other"}  \* "head": "## Exact technical evidence"

VARIABLES
  page,    \* the page, <<>> before there is one
  before,  \* the page the last answer was about
  source,  \* the source of the last answer
  round,
  refused  \* whether the last page was refused

vars == <<page, before, source, round, refused>>

-----------------------------------------------------------------------------
(* For every line whether a fence is open before it: openingFence, closesFence. *)
Fenced(text) ==
  LET open[i \in 0..Len(text)] ==
        CASE i = 0 -> FALSE
          [] i > 0 /\ open[i - 1] -> text[i] # "close"
          [] OTHER -> text[i] \in {"open", "close"}
  IN [i \in 1..Len(text) |-> open[i - 1]]

(* Lines of a fence's body, and lines that open one.                       *)
Body(text) == LET f == Fenced(text) IN {i \in 1..Len(text) : f[i] /\ text[i] # "close"}
Opens(text) == LET f == Fenced(text) IN {i \in 1..Len(text) : ~f[i] /\ text[i] \in {"open", "close"}}
Closes(text) == LET f == Fenced(text) IN {i \in 1..Len(text) : f[i] /\ text[i] = "close"}
Outside(text) == (1..Len(text)) \ (Body(text) \cup Opens(text) \cup Closes(text))

(* The runs of consecutive lines of a set.                                 *)
Runs(indexes) ==
  {<<a, b>> \in indexes \X indexes :
     a <= b /\ a..b \subseteq indexes /\ a - 1 \notin indexes /\ b + 1 \notin indexes}

Item(text, at, units, markdown) == [kind |-> "code", line |-> at, units |-> units, markdown |-> markdown]

FencedItems(text) ==
  {LET units == SubSeq(text, r[1], r[2])
       opening == text[Max({i \in Opens(text) : i < r[1]})]
   IN Item(text, r[1], units, <<opening>> \o units \o <<"close">>) :
     r \in Runs({i \in Body(text) : text[i] # "blank"})}

TechnicalItems(text) ==
  {LET units == SubSeq(text, r[1], r[2])
   IN Item(text, r[1], units, <<"open">> \o units \o <<"close">>) :
     r \in Runs({i \in Outside(text) : text[i] \in Technical})}

UrlItems(text) ==
  {[Item(text, i, <<text[i]>>, <<text[i]>>) EXCEPT !.kind = "url"] :
     i \in {j \in Outside(text) : text[j] \in Urls}}

(* extractLedger, in the order of the lines.                               *)
Ledger(text) ==
  SetToSortSeq(FencedItems(text) \cup TechnicalItems(text) \cup UrlItems(text), LAMBDA a, b : a.line < b.line)

(* findMissingSynthesisEvidence: white space is folded, then the text is searched as *)
(* a whole; a single line may be found inside a longer one.                          *)
FoundIn(units, text) ==
  LET corpus == SelectSeq(text, LAMBDA l : l # "blank") IN
  \/ \E i \in 0..Len(corpus) : i + Len(units) <= Len(corpus) /\ SubSeq(corpus, i + 1, i + Len(units)) = units
  \/ Len(units) = 1 /\ \E l \in ToSet(corpus) : <<units[1], l>> \in Within

Missing(ledger, text) == SelectSeq(ledger, LAMBDA item : ~FoundIn(item.units, text))

-----------------------------------------------------------------------------
(* allowedEvidence: the units of the ledger and of the page.               *)
AllowedCode(ledger, existing) ==
  UNION {ToSet(item.units) : item \in {i \in ToSet(ledger \o Ledger(existing)) : i.kind = "code"}}
AllowedUrls(ledger, existing) ==
  Urls \cap (ToSet(existing) \cup UNION {ToSet(item.units) : item \in ToSet(ledger)})

(* The lines that hold something neither the ledger nor the page had.      *)
Unsupported(text, code, urls) ==
  {i \in Body(text) : text[i] # "blank" /\ text[i] \notin code} \cup {i \in Outside(text) : text[i] \in Urls \ urls}

(* The fences of which nothing is left; the last line of an open one does not count. *)
EmptyFences(text, removed) ==
  UNION {LET closing == {i \in Closes(text) : i > start}
             end == IF closing = {} THEN Len(text) ELSE Min(closing)
         IN IF \E i \in (start + 1)..(end - 1) : i \notin removed /\ text[i] # "blank" THEN {} ELSE start..end :
           start \in Opens(text)}

Keep(text, indexes) ==
  LET take[i \in 0..Len(text)] ==
        IF i = 0 THEN <<>> ELSE IF i \in indexes THEN Append(take[i - 1], text[i]) ELSE take[i - 1]
  IN take[Len(text)]

(* Blank lines are folded.                                                 *)
Fold(text) == Keep(text, {i \in 1..Len(text) : text[i] # "blank" \/ i = 1 \/ text[i - 1] # "blank"})

(* sanitizeUnsupportedEvidence: unsupported code is removed with its line, a URL *)
(* leaves the rest of its line.                                                  *)
Sanitized(text, code, urls) ==
  LET unsupported == Unsupported(text, code, urls)
      removed == unsupported \cap Body(text)
      rest == [i \in 1..Len(text) |-> IF i \in unsupported \ removed THEN "prose" ELSE text[i]]
  IN IF unsupported = {} THEN text
     ELSE Fold(Keep(rest, (1..Len(text)) \ (removed \cup EmptyFences(text, removed))))

(* headingIndexes, and the first of them.                                  *)
HeadingLines(text) == {i \in Outside(text) : text[i] \in Headings}
First(indexes, otherwise) == IF indexes = {} THEN otherwise ELSE Min(indexes)
NextHeading(text, at) == First({i \in HeadingLines(text) : i > at}, Len(text) + 1)

(* existingEvidenceSection.                                                *)
Section(text) ==
  LET starts == {i \in HeadingLines(text) : text[i] = "head"} IN
  IF starts = {} THEN <<>> ELSE SubSeq(text, Min(starts) + 1, NextHeading(text, Min(starts)) - 1)

(* dedupeEvidenceItems.                                                    *)
Deduped(items) ==
  Keep(items, {i \in 1..Len(items) : \A j \in 1..(i - 1) : items[j].units # items[i].units})

Block(items) == FoldLeft(LAMBDA text, item : text \o <<"blank">> \o item.markdown, <<>>, items) \o <<"blank">>

TrimEnd(text) == SubSeq(text, 1, Max({0} \cup {i \in 1..Len(text) : text[i] # "blank"}))

Insert(text, at, lines) == SubSeq(text, 1, at - 1) \o lines \o SubSeq(text, at, Len(text))

(* appendEvidenceSection: at the end of the section there is, else in a section before *)
(* the sources or at the end.                                                          *)
AppendSection(text, items) ==
  LET starts == {i \in HeadingLines(text) : text[i] = "head"}
      sources == First({i \in HeadingLines(text) : text[i] = "sources"}, Len(text) + 1)
  IN IF items = <<>> THEN text
     ELSE TrimEnd(Fold(IF starts # {} THEN Insert(text, NextHeading(text, Min(starts)), Block(items))
                       ELSE Insert(text, sources, <<"head">> \o Block(items))))

(* What the page's section held and what the source holds, as far as it is missing. *)
ToAppend(text, existing, ledger) ==
  Deduped(Missing(Ledger(Section(existing)), text) \o Missing(ledger, text))

(* reconcileSynthesisEvidence.                                             *)
Reconcile(text, existing, ledger) ==
  LET kept == Sanitized(text, AllowedCode(ledger, existing), AllowedUrls(ledger, existing))
  IN AppendSection(kept, ToAppend(kept, existing, ledger))

-----------------------------------------------------------------------------
Answers == UNION {[1..n -> Lines] : n \in 1..MaxAnswer}

Init == page = <<>> /\ before = <<>> /\ source = <<>> /\ round = 0 /\ refused = FALSE

(* A source is ingested into the page.  The page is refused when something of the *)
(* ledger is still missing.                                                       *)
Ingest ==
  /\ round < MaxRounds /\ round' = round + 1
  /\ \E s \in Sources, text \in Answers :
       LET result == Reconcile(text, page, Ledger(s)) IN
       /\ source' = s /\ before' = page
       /\ refused' = (Missing(Ledger(s), result) # <<>>)
       /\ page' = IF refused' THEN page ELSE result

Next == Ingest
Spec == Init /\ [][Next]_vars

-----------------------------------------------------------------------------
Is(text, units) == \E i \in 0..Len(text) : i + Len(units) <= Len(text) /\ SubSeq(text, i + 1, i + Len(units)) = units

(* Everything the source's ledger holds is in the page, in the order it had. *)
EvidencePresent == ~refused => \A item \in ToSet(Ledger(source)) : Is(SelectSeq(page, LAMBDA l : l # "blank"), item.units)

(* Code in a fence of the page, and a URL anywhere, was in the source or in the page *)
(* before: the model cannot add one.                                                 *)
NothingInvented ==
  \A i \in 1..Len(page) :
    page[i] \in Urls \/ (i \in Body(page) /\ page[i] \notin Headings \cup {"blank", "open"}) =>
      page[i] \in ToSet(source) \cup ToSet(before)

(* What the evidence section of the page held is in the page still, whatever the *)
(* model wrote: the evidence of earlier sources survives a rewrite.              *)
SectionKept ==
  \A item \in ToSet(Ledger(Section(before))) : Is(SelectSeq(page, LAMBDA l : l # "blank"), item.units)

(* No answer makes the reconciliation refuse the page: what is appended is found. *)
NeverRefused == ~refused

-----------------------------------------------------------------------------
=============================================================================
