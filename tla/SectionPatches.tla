--------------------------- MODULE SectionPatches ---------------------------
(***************************************************************************)
(* Patches of a page's sections (applyPagePatch in src/section-            *)
(* patches.ts): the model saw a page, the page may have been edited since, *)
(* and the patches it answers with add sections, append to them, or        *)
(* replace those it was shown as a whole.                                  *)
(*                                                                         *)
(* A page is a sequence of lines.  A line is one of a few kinds; that a    *)
(* line is followed by "\r\n", or the last one by nothing, is left out.    *)
(***************************************************************************)
EXTENDS Naturals, Sequences, FiniteSets, FiniteSetsExt, SequencesExt

CONSTANTS
  Pages,       \* pages, as sequences of lines
  Edited(_),   \* what a page may be when the patches arrive
  Contents,    \* of the patches
  MaxPatches   \* bound: patches of an answer

SectionPatchesAssumption == MaxPatches \in Nat

Blank == ""
Fence == "~~~"
Dashes == "---"
Code == "    x"
Item == "- x"
Headings == {"## a", "## b"}
None == 0 - 1

VARIABLES
  seen,      \* the page the model was shown
  granted,   \* ReplaceSectionAuthority of the sections it was shown as a whole
  page,      \* currentPage
  patches, turn,
  content,   \* so far
  changed,   \* changedHeadings
  outcome,   \* "checking", "applying", "ok", "throws" or a reason
  replaced   \* history: spans that were replaced

vars == <<seen, granted, page, patches, turn, content, changed, outcome, replaced>>
given == <<seen, granted, page, patches>>

(* contentHash has 32 bits: here two texts of one length have one hash.    *)
Hash(text) == Len(text)

(* leadingFrontmatterEnd: the number of lines of a frontmatter that is closed. *)
FrontmatterLines(text) ==
  LET closing == {i \in 2..Len(text) : text[i] = Dashes}
  IN IF text # <<>> /\ text[1] = Dashes /\ closing # {} THEN Min(closing) ELSE 0

Scan(text, first) ==
  FoldLeft(LAMBDA s, i :
      IF text[i] = Fence THEN [s EXCEPT !.fenced = ~@]
      ELSE IF s.fenced \/ text[i] \notin Headings THEN s
      ELSE [s EXCEPT !.starts = Append(@, i)],
    [starts |-> <<>>, fenced |-> FALSE], [k \in 1..(Len(text) - first) |-> first + k])

(* scanPatchablePage: a section ends with its last line that is not blank. *)
Sections(text) ==
  LET starts == Scan(text, FrontmatterLines(text)).starts
      upTo(n) == IF n = Len(starts) THEN Len(text) ELSE starts[n + 1] - 1
      end(n) == Max({i \in starts[n]..upTo(n) : text[i] # Blank})
  IN [n \in DOMAIN starts |->
       [key |-> text[starts[n]], ordinal |-> n - 1, start |-> starts[n], end |-> end(n),
        span |-> SubSeq(text, starts[n], end(n))]]

(* hasTopLevelH2OutsideFences: a fence that is not closed hides no heading. *)
HoldsHeading(text) ==
  FoldLeft(LAMBDA s, i :
      IF text[i] = Fence THEN [s EXCEPT !.fenced = ~@, !.inside = FALSE]
      ELSE IF text[i] \notin Headings THEN s
      ELSE IF s.fenced THEN [s EXCEPT !.inside = TRUE] ELSE [s EXCEPT !.outside = TRUE],
    [fenced |-> FALSE, inside |-> FALSE, outside |-> FALSE], [k \in DOMAIN text |-> k])
TopLevelHeading(text) == LET s == HoldsHeading(text) IN s.outside \/ (s.fenced /\ s.inside)

(* validateSectionPatches.                                                 *)
Valid(patch) ==
  /\ \E i \in DOMAIN patch.content : patch.content[i] # Blank
  /\ ~TopLevelHeading(patch.content)
AllValid ==
  /\ \A i \in DOMAIN patches : Valid(patches[i])
  /\ \A i, j \in DOMAIN patches : patches[i].heading = patches[j].heading => i = j

Matches(sections, heading) == {n \in DOMAIN sections : sections[n].key = heading}

(* resolveExistingSection: the ordinal decides, then the heading if it is the only one, *)
(* then the hash.  {0} stands for the exception, {} for undefined.                      *)
Resolve(sections, p) ==
  LET matches == Matches(sections, p.heading)
      hashed == {n \in matches : Hash(sections[n].span) = p.hash}
  IN IF p.operation = "replace" /\ p.ordinal # None
     THEN {n \in matches : sections[n].ordinal = p.ordinal}
     ELSE IF Cardinality(matches) <= 1 THEN matches
     ELSE IF p.operation = "replace" /\ Cardinality(hashed) = 1 THEN hashed
     ELSE {0}

(* findReplaceAuthority.                                                   *)
Authorized(p, section) ==
  \E a \in granted :
    /\ a.key = section.key /\ a.ordinal = section.ordinal /\ (p.ordinal # None => a.ordinal = p.ordinal)
    /\ Hash(a.span) = p.hash /\ a.span = section.span

-----------------------------------------------------------------------------
(* contentBlocks: paragraphs, and what belongs to a fence or to a list as one block. *)
Blocks(text) ==
  LET continued(i) ==
        LET later == {j \in i..Len(text) : text[j] # Blank} IN later # {} /\ text[Min(later)] = Code
      step(s, i) ==
        IF s.fenced \/ text[i] = Fence
        THEN [s EXCEPT !.block = Append(@, text[i]), !.fenced = IF text[i] = Fence THEN ~@ ELSE @]
        ELSE IF text[i] # Blank \/ (Item \in ToSet(s.block) /\ continued(i + 1))
        THEN [s EXCEPT !.block = Append(@, text[i])]
        ELSE [s EXCEPT !.blocks = IF s.block = <<>> THEN @ ELSE Append(@, s.block), !.block = <<>>]
      all == FoldLeft(step, [blocks |-> <<>>, block |-> <<>>, fenced |-> FALSE], [k \in DOMAIN text |-> k])
  IN IF all.block = <<>> THEN all.blocks ELSE Append(all.blocks, all.block)

Structural(block) == ToSet(block) \cap {Fence, Item, Code} # {}
(* normalizeContentItem drops the indentation.                             *)
Plain(line) == IF line = Code THEN "x" ELSE line
PlainBlock(block) == [i \in DOMAIN block |-> Plain(block[i])]

(* appendableContent: of a fence, list or code block all or nothing, of a paragraph the *)
(* lines that the section does not hold yet.                                            *)
Additions(section, text) ==
  LET old == Blocks(Tail(section.span))
      known == [lines |-> UNION {ToSet(PlainBlock(old[i])) : i \in DOMAIN old},
                paragraphs |-> {PlainBlock(old[i]) : i \in DOMAIN old},
                blocks |-> {b \in ToSet(old) : Structural(b)},
                added |-> <<>>]
      fresh(s, block) ==
        FoldLeft(LAMBDA done, l : IF Plain(l) \in s.lines \/ l \in ToSet(done) THEN done ELSE Append(done, l), <<>>, block)
      step(s, block) ==
        IF Structural(block)
        THEN IF block \in s.blocks THEN s
             ELSE [s EXCEPT !.blocks = @ \cup {block}, !.added = Append(@, block),
                            !.lines = @ \cup (ToSet(PlainBlock(block)) \ {Blank})]
        ELSE LET new == fresh(s, block)
             IN IF PlainBlock(block) \in s.paragraphs THEN s
                ELSE IF new = <<>> \/ PlainBlock(new) \in s.paragraphs
                THEN [s EXCEPT !.lines = @ \cup ToSet(new)]
                ELSE [s EXCEPT !.lines = @ \cup ToSet(new), !.paragraphs = @ \cup {PlainBlock(new)},
                               !.added = Append(@, new)]
      added == FoldLeft(step, known, Blocks(text)).added
  IN FoldLeft(LAMBDA done, b : IF done = <<>> THEN b ELSE done \o <<Blank>> \o b, <<>>, added)

-----------------------------------------------------------------------------
Separated(text) == IF text = <<>> \/ Last(text) = Blank THEN text ELSE Append(text, Blank)
(* trimOuterBlankLines and finishWithOneTrailingNewline.                   *)
Inked(text) == {i \in DOMAIN text : text[i] # Blank}
Trimmed(text) == IF Inked(text) = {} THEN <<>> ELSE SubSeq(text, Min(Inked(text)), Max(Inked(text)))
Finished(text) == IF Inked(text) = {} THEN <<>> ELSE SubSeq(text, 1, Max(Inked(text)))

Granted(s) == [key |-> s.key, ordinal |-> s.ordinal, span |-> s.span]
Patch ==
  [operation : {"add", "append"}, heading : Headings, content : Contents, hash : {None}, ordinal : {None}]
  \cup {[operation |-> "replace", heading |-> s.key, content |-> c, hash |-> Hash(s.span), ordinal |-> o] :
          s \in ToSet(Sections(seen)), c \in Contents, o \in {None, 0, 1}}

Init ==
  /\ seen \in Pages /\ page \in Edited(seen)
  /\ \E S \in SUBSET ToSet(Sections(seen)) : granted = {Granted(s) : s \in S}
  /\ patches \in UNION {[1..n -> Patch] : n \in 1..MaxPatches}
  /\ turn = 1 /\ content = page /\ changed = <<>> /\ outcome = "checking" /\ replaced = {}

Ends(reason) == outcome' = reason /\ UNCHANGED <<turn, content, changed, replaced>>

(* A replacement must be of a section that was shown, as the page is now.  *)
Preflight(p) ==
  LET at == Resolve(Sections(page), p)
  IN IF p.operation = "add" THEN "ok"
     ELSE IF at = {0} THEN "throws"
     ELSE IF p.operation = "append" THEN "ok"
     ELSE IF at = {} THEN "heading_missing"
     ELSE IF \A n \in at : ~Authorized(p, Sections(page)[n]) THEN "replace_context_missing" ELSE "ok"

Check ==
  /\ outcome = "checking"
  /\ LET failing == {i \in DOMAIN patches : Preflight(patches[i]) # "ok"}
     IN Ends(IF ~AllValid THEN "throws"
             ELSE IF Hash(page) # Hash(seen) THEN "page_hash_mismatch"
             ELSE IF failing # {} THEN Preflight(patches[Min(failing)]) ELSE "applying")
  /\ UNCHANGED given

Current == patches[turn]
Turn(operation) == outcome = "applying" /\ turn <= Len(patches) /\ Current.operation = operation
Onwards == turn' = turn + 1 /\ UNCHANGED outcome

Add ==
  /\ Turn("add")
  /\ IF Matches(Sections(content), Current.heading) # {} THEN Ends("heading_exists")
     ELSE /\ content' = Separated(content) \o <<Current.heading>> \o Trimmed(Current.content)
          /\ changed' = Append(changed, Current.heading) /\ Onwards /\ UNCHANGED replaced
  /\ UNCHANGED given

Before(section) == SubSeq(content, 1, section.start - 1)
Until(section) == SubSeq(content, 1, section.end)
After(section) == SubSeq(content, section.end + 1, Len(content))

AppendTo ==
  /\ Turn("append")
  /\ LET at == Resolve(Sections(content), Current)
     IN IF at \in {{}, {0}} THEN Ends(IF at = {} THEN "heading_missing" ELSE "throws")
        ELSE LET section == Sections(content)[Min(at)]
                 addition == Additions(section, Current.content)
             IN /\ IF addition = <<>> THEN UNCHANGED <<content, changed>>
                   ELSE /\ content' = Separated(Until(section)) \o addition \o After(section)
                        /\ changed' = Append(changed, Current.heading)
                /\ Onwards /\ UNCHANGED replaced
  /\ UNCHANGED given

(* A mutated form: all that follows the heading is replaced.               *)
ReplaceRest ==
  /\ Turn("replace") /\ Onwards
  /\ LET section == Sections(content)[Min(Resolve(Sections(content), Current) \cup {1})]
     IN content' = Before(section) \o <<Current.heading>> \o Trimmed(Current.content)
  /\ changed' = Append(changed, Current.heading) /\ UNCHANGED <<given, replaced>>
Replace ==
  /\ Turn("replace")
  /\ LET at == Resolve(Sections(content), Current)
     IN IF at \in {{}, {0}} THEN Ends(IF at = {} THEN "heading_missing" ELSE "throws")
        ELSE LET section == Sections(content)[Min(at)]
                 replacement == <<Current.heading>> \o Trimmed(Current.content)
             IN IF ~Authorized(Current, section) THEN Ends("replace_context_missing")
                ELSE /\ content' = Before(section) \o replacement \o After(section)
                     /\ changed' = IF replacement = section.span THEN changed ELSE Append(changed, Current.heading)
                     /\ replaced' = replaced \cup {Granted(section)} /\ Onwards
  /\ UNCHANGED given

Finish ==
  /\ outcome = "applying" /\ turn > Len(patches) /\ outcome' = "ok" /\ content' = Finished(content)
  /\ UNCHANGED <<given, turn, changed, replaced>>

Next == Check \/ Add \/ AppendTo \/ Replace \/ Finish
Spec == Init /\ [][Next]_vars

-----------------------------------------------------------------------------
TypeOK ==
  /\ outcome \in {"checking", "applying", "ok", "throws", "page_hash_mismatch", "replace_context_missing",
                  "heading_exists", "heading_missing"}
  /\ turn \in 1..(MaxPatches + 1) /\ ToSet(changed) \subseteq Headings /\ Len(changed) < turn + 1

Touched == {patches[i].heading : i \in DOMAIN patches}
Others(text) == SelectSeq([n \in DOMAIN Sections(text) |-> [key |-> Sections(text)[n].key, span |-> Sections(text)[n].span]],
                          LAMBDA s : s.key \notin Touched)

(* Sections no patch names are the same sections with the same text, in the same order, *)
(* even when the page was edited in between.                                            *)
UntouchedKept == outcome = "ok" => Others(content) = Others(page)

(* A replaced section had, when it was replaced, the very text the model was shown, though *)
(* another text may have its hash.                                                         *)
ReplacedAsShown == replaced \subseteq granted

(* The headings of the page are those it had and those that were added, each added one *)
(* once and at the end.                                                                *)
HeadingsAdded ==
  LET keys(text) == [n \in DOMAIN Sections(text) |-> Sections(text)[n].key]
      added == SelectSeq(patches, LAMBDA p : p.operation = "add")
  IN outcome = "ok" =>
       /\ keys(content) = keys(page) \o [i \in DOMAIN added |-> added[i].heading]
       /\ \A i \in DOMAIN added : added[i].heading \notin ToSet(keys(page))

(* What is reported as changed changed, and nothing else did.              *)
ChangedTruthful == outcome = "ok" => (changed = <<>>) = (content = Finished(page))

(* A paragraph's line that a section holds is not appended to it again.    *)
Count(l, text) == Cardinality({i \in DOMAIN text : text[i] = l})
LinesOnce ==
  outcome = "ok" =>
    \A i \in DOMAIN patches : LET p == patches[i] IN
      p.operation = "append" /\ (\A b \in ToSet(Blocks(p.content)) : ~Structural(b)) =>
        \A old \in ToSet(Sections(page)), new \in ToSet(Sections(content)) :
          old.key = p.heading /\ new.key = p.heading =>
            \A l \in ToSet(p.content) \ {Blank} : Count(l, new.span) <= Max({1, Count(l, old.span)})

=============================================================================
