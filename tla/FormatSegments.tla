--------------------------- MODULE FormatSegments ---------------------------
(***************************************************************************)
(* A note too long for one request is formatted in pieces                  *)
(* (src/phases/format-segments.ts; formatSegmentRecursive and              *)
(* runSegmentedFormatting in src/phases/format.ts): its body is cut at the *)
(* headings and, where a section is still too long, between lines; every   *)
(* piece is a request of its own, a piece that does not fit is cut         *)
(* further, and the formatted pieces are put together again.  A line has   *)
(* length 1; a "rule" is a block between two --- lines that looks like     *)
(* frontmatter, and counts as a line.                                      *)
(***************************************************************************)
EXTENDS Naturals, Sequences, FiniteSets, FiniteSetsExt, SequencesExt

CONSTANTS
  Kinds,      \* of lines: some of "text", "head" (##), "back" and "tilde" (fences), "info" (```ts), "rule"
  MaxLines,   \* bound: lines of a note's body
  MaxSizes,   \* initialMaxMarkdownChars
  Budgets     \* length of a piece that fits the input budget

FormatSegmentsAssumption ==
  /\ Kinds \subseteq {"text", "head", "back", "tilde", "info", "rule"}
  /\ MaxLines \in Nat /\ MaxSizes \subseteq Nat \ {0} /\ Budgets \subseteq Nat \ {0}

VARIABLES
  at,       \* "segment", "sending", "again", "joined", "failed"
  front,    \* whether the note has frontmatter
  lines,    \* its body
  most,     \* initialMaxMarkdownChars
  budget,
  todo,     \* pieces to format, the first being at work: lines from..to, maxMarkdownChars, top segment
  adds,     \* whether the model puts frontmatter before what it formats
  outputs,  \* pieces formatted: lines from..to, top segment
  why       \* why it failed

vars == <<at, front, lines, most, budget, adds, todo, outputs, why>>
note == <<front, lines, most, budget, adds>>

-----------------------------------------------------------------------------
(* The fence that is open before line i, for i up to one past the end.     *)
Opens(kind) == IF kind = "info" THEN "back" ELSE IF kind \in {"back", "tilde"} THEN kind ELSE "none"
Fence(text) ==
  LET open[i \in 1..(Len(text) + 1)] ==
        IF i = 1 THEN "none"
        ELSE IF open[i - 1] = "none" THEN Opens(text[i - 1])
        ELSE IF text[i - 1] = open[i - 1] THEN "none" ELSE open[i - 1]
  IN open

(* The ranges of 1..n that begin at the given lines, moved by from - 1.    *)
Ranges(starts, n, from) ==
  LET s == SelectSeq([i \in 1..n |-> i], LAMBDA i : i \in starts) IN
  [k \in 1..Len(s) |->
     [from |-> from + s[k] - 1, to |-> from + (IF k = Len(s) THEN n ELSE s[k + 1] - 1) - 1]]

(* sectionBlocks: a piece begins at every heading outside the fences.      *)
Sections(from, to) ==
  LET text == SubSeq(lines, from, to)
      open == Fence(text)
  IN Ranges({1} \cup {i \in 1..Len(text) : text[i] = "head" /\ open[i] = "none"}, Len(text), from)

(* atomicLineUnits: a line, or a fenced block with its fences.             *)
Units(from, to) ==
  LET text == SubSeq(lines, from, to)
      open == Fence(text)
  IN Ranges({i \in 1..Len(text) : open[i] = "none"}, Len(text), from)

Length(range) == range.to - range.from + 1

(* lineWindows: as many units as fit, at least one.                        *)
Windows(range, max) ==
  FoldLeft(LAMBDA windows, unit :
             IF windows # <<>> /\ unit.to - Last(windows).from + 1 <= max
             THEN [windows EXCEPT ![Len(windows)].to = unit.to]
             ELSE Append(windows, unit),
           <<>>, Units(range.from, range.to))

(* splitMarkdownBody: the sections, those that are too long in windows.    *)
Split(from, to, max) ==
  LET sections == Sections(from, to)
  IN FlattenSeq([k \in 1..Len(sections) |->
       IF Length(sections[k]) <= max THEN <<sections[k]>> ELSE Windows(sections[k], max)])

Half(max) == Max({1, max \div 2})

(* segmentFormatInput and its second call in runSegmentedFormatting: a note *)
(* that would be one segment is cut at half its length instead.  (A note of *)
(* one character stays whole; here a note has two lines at least.)          *)
NoteLength == Len(lines) + (IF front THEN 1 ELSE 0)
FirstSegments ==
  Split(1, Len(lines), IF NoteLength <= most THEN Half(NoteLength) ELSE most)

Pieces(ranges, max, top) ==
  [k \in 1..Len(ranges) |->
     [from |-> ranges[k].from, to |-> ranges[k].to, max |-> max, top |-> IF top = 0 THEN k ELSE top]]

Init ==
  /\ at = "segment" /\ front \in BOOLEAN /\ adds \in BOOLEAN /\ most \in MaxSizes /\ budget \in Budgets
  /\ \E n \in 1..MaxLines : lines \in [1..n -> Kinds]
  /\ NoteLength >= 2 /\ (lines[1] = "rule" => front)
  /\ todo = Pieces(FirstSegments, most, 0) /\ outputs = <<>> /\ why = "none"

-----------------------------------------------------------------------------
Piece == Head(todo)

(* splitFormatSegment with half the bound that cut the piece; a piece that *)
(* stays one ends the run.                                                 *)
Children == LET max == Half(Piece.max) IN
  IF Length(Piece) <= max THEN <<[from |-> Piece.from, to |-> Piece.to]>> ELSE Split(Piece.from, Piece.to, max)

Narrower(reason) ==
  IF Len(Children) > 1
  THEN /\ todo' = Pieces(Children, Half(Piece.max), Piece.top) \o Tail(todo)
       /\ at' = "segment" /\ UNCHANGED why
  ELSE at' = "failed" /\ why' = reason /\ UNCHANGED todo

Prepare ==
  /\ at = "segment" /\ todo # <<>>
  /\ IF Length(Piece) > budget THEN Narrower("budget") ELSE at' = "sending" /\ UNCHANGED <<todo, why>>
  /\ UNCHANGED <<note, outputs>>

(* A complete frame with the piece's identifier.                           *)
Formatted ==
  /\ at \in {"sending", "again"} /\ at' = "segment"
  /\ outputs' = Append(outputs, [from |-> Piece.from, to |-> Piece.to, top |-> Piece.top])
  /\ todo' = Tail(todo)
  /\ UNCHANGED <<note, why>>

(* The answer is cut off.                                                  *)
Cut == at = "sending" /\ Narrower("output") /\ UNCHANGED <<note, outputs>>

(* The provider says the request is too long, the first or the second time. *)
TooLong == at \in {"sending", "again"} /\ Narrower("context") /\ UNCHANGED <<note, outputs>>

(* An answer out of shape is asked for once more; the longer request may not *)
(* fit, and the second answer may be no better.                              *)
Malformed ==
  /\ \/ at = "sending" /\ at' = "again" /\ UNCHANGED why
     \/ at \in {"sending", "again"} /\ at' = "failed" /\ why' = "shape"
  /\ UNCHANGED <<note, outputs, todo>>

(* Another failure of the request, or the user's stop before the next one (a *)
(* stopped request counts as formatted, with its own lines).                 *)
Broken ==
  /\ at \in {"segment", "sending", "again"} /\ todo # <<>>
  /\ at' = "failed" /\ why' = "request"
  /\ UNCHANGED <<note, outputs, todo>>

(* reassembleFormatSegments, where every piece is there.                   *)
Join ==
  /\ at = "segment" /\ todo = <<>> /\ at' = "joined"
  /\ UNCHANGED <<note, outputs, todo, why>>

Next == Prepare \/ Formatted \/ Cut \/ TooLong \/ Malformed \/ Broken \/ Join
Spec == Init /\ [][Next]_vars /\ WF_vars(Next)

-----------------------------------------------------------------------------
(* The text of an output: the model keeps the lines and may add frontmatter. *)
Text(o) == (IF adds THEN <<"added">> ELSE <<>>) \o SubSeq(lines, o.from, o.to)
Segment(top) == FlattenSeq([k \in 1..Len(outputs) |-> IF outputs[k].top = top THEN Text(outputs[k]) ELSE <<>>])

(* stripModelAddedLeadingYamlFrontmatter: the block the source begins with stays. *)
WithoutAdded(text, source) ==
  IF source = "rule" /\ text # <<>> /\ Head(text) = "rule" THEN text
  ELSE IF text # <<>> /\ Head(text) \in {"added", "rule"} THEN Tail(text) ELSE text

Tops == {outputs[k].top : k \in DOMAIN outputs}
FirstLine(top) == lines[Min({outputs[k].from : k \in {j \in DOMAIN outputs : outputs[j].top = top}})]
(* The formatted note: the source's own frontmatter before the segments.   *)
Whole ==
  (IF front THEN <<"front">> ELSE <<>>)
  \o FlattenSeq([t \in 1..Cardinality(Tops) |-> WithoutAdded(Segment(t), FirstLine(t))])

-----------------------------------------------------------------------------
TypeOK ==
  /\ at \in {"segment", "sending", "again", "joined", "failed"} /\ most \in MaxSizes
  /\ \A k \in DOMAIN todo : todo[k].from \in 1..Len(lines) /\ todo[k].to \in todo[k].from..Len(lines)
  /\ \A k \in DOMAIN outputs : outputs[k].to \in outputs[k].from..Len(lines)

(* The pieces formatted and the pieces to come are the lines of the body, in *)
(* order, each once, whatever was cut again or sent again.                   *)
Covered ==
  LET ranges == [k \in 1..(Len(outputs) + Len(todo)) |->
                   LET piece == IF k <= Len(outputs) THEN outputs[k] ELSE todo[k - Len(outputs)]
                   IN [from |-> piece.from, to |-> piece.to]]
  IN /\ ranges # <<>> /\ ranges[1].from = 1 /\ Last(ranges).to = Len(lines)
     /\ \A k \in 1..(Len(ranges) - 1) : ranges[k + 1].from = ranges[k].to + 1

(* No request begins or ends inside a fenced block of the note, although every *)
(* cut looks at its own lines only ("line-window segmentation never cuts       *)
(* through fenced code blocks").                                               *)
FencesWhole == LET open == Fence(lines) IN \A k \in DOMAIN todo : open[todo[k].from] = "none"

(* When the model keeps the lines, the note has them all and no others: no *)
(* block of the source is taken for added frontmatter.                     *)
LinesKept ==
  at = "joined" =>
    SelectSeq(Whole, LAMBDA line : line # "added") = (IF front THEN <<"front">> ELSE <<>>) \o lines

(* Every run comes to an end: what is cut is cut smaller.                  *)
Pending == at \notin {"joined", "failed"}

-----------------------------------------------------------------------------
=============================================================================
