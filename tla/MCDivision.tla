----------------------------- MODULE MCDivision -----------------------------
(***************************************************************************)
(* The parts that divide what is too large for one request.  A behaviour   *)
(* is a behaviour of one part, chosen at the start; its variables are s1,  *)
(* s2, ... in the order of its module.                                     *)
(***************************************************************************)
EXTENDS Naturals, Sequences, FiniteSets

VARIABLES
  part,  \* the part at work, chosen at the start
  s1, s2, s3, s4, s5, s6, s7, s8, s9, s10, s11, s12  \* its variables, in the order of its module

vars == <<part, s1, s2, s3, s4, s5, s6, s7, s8, s9, s10, s11, s12>>

(* The variables a part with fewer leaves alone, from a number on.         *)
Off12 == s12 = "off"
Off11 == s11 = "off" /\ Off12
Off10 == s10 = "off" /\ Off11
Off9 == s9 = "off" /\ Off10
Off8 == s8 = "off" /\ Off9
Off7 == s7 = "off" /\ Off8
Idle12 == <<s12>>
Idle11 == <<s11, Idle12>>
Idle10 == <<s10, Idle11>>
Idle9 == <<s9, Idle10>>
Idle8 == <<s8, Idle9>>
Idle7 == <<s7, Idle8>>

Chunks == INSTANCE MarkdownChunks WITH
  MaxLines <- 5, Kinds <- {"h1", "h2", "text", "blank", "fence"}, Budgets <- {6, 8, 10, 12}, Overhead <- 2,
  src <- s1, input <- s2, maxRaw <- s3, low <- s4, high <- s5, found <- s6, failed <- s7, at <- s8

Map == INSTANCE EvidenceMap WITH
  Lines <- 4, Budget <- 4, Retries <- 1, Repacks <- 2, Types <- {"t1", "t2"},
  Says <- {"no evidence", "none", "t1", "t2"},
  at <- s1, budget <- s2, repacks <- s3, work <- s4, index <- s5, tries <- s6, answers <- s7,
  failed <- s8, lineage <- s9, cause <- s10, refused <- s11, cuts <- s12

Cuts == INSTANCE EvidenceMap WITH
  Lines <- 7, Budget <- 4, Retries <- 1, Repacks <- 2, Types <- {}, Says <- {"none"},
  at <- s1, budget <- s2, repacks <- s3, work <- s4, index <- s5, tries <- s6, answers <- s7,
  failed <- s8, lineage <- s9, cause <- s10, refused <- s11, cuts <- s12

Reduce == INSTANCE EvidenceReduce WITH
  MaxPackets <- 4, Contents <- {{"f1"}, {"f2"}, {"f1", "f2", "f3"}}, Budgets <- {8, 10, 12},
  Base <- 1, Output <- 9, MaxDepth <- 3, Repacks <- 2,
  given <- s1, limit <- s2, at <- s3, units <- s4, depth <- s5, batches <- s6, reduced <- s7,
  budget <- s8, repacks <- s9, refused <- s10, parts <- s11, out <- s12

Boot == INSTANCE Bootstrap WITH
  MaxCandidates <- 3, MaxFacts <- 2, Sizes <- {1, 6, 11}, Payload <- 8, Schema <- 2, Output <- 2,
  Overhead <- 1, Worst <- 2, Repair <- 1, MinChunk <- 2, MaxEvidence <- 16, MaxRequests <- 3,
  Types <- {"t1", "t2"}, Existing <- {"t1"}, Retries <- 1,
  at <- s1, cause <- s2, given <- s3, full <- s4, budget <- s5, groups <- s6, attempt <- s7,
  answers <- s8, entry <- s9, rows <- s10

Synth == INSTANCE Synthesis WITH
  N <- 3, Targets <- {2}, SamePath <- {}, NoPath <- {}, Retries <- 1,
  at <- s1, cause <- s2, todo <- s3, outputs <- s4, attempt <- s5, asked <- s6

Same == INSTANCE Synthesis WITH
  N <- 3, Targets <- {2}, SamePath <- {1, 3}, NoPath <- {}, Retries <- 1,
  at <- s1, cause <- s2, todo <- s3, outputs <- s4, attempt <- s5, asked <- s6


(* Pages of up to two sections of up to three lines.                       *)
Sections(heads) ==
  {[head |-> h, lines |-> ls, at |-> 0] : h \in heads, ls \in {<<>>, <<1>>, <<4, 1>>, <<1, 1, 2>>}}
Page(before, sections) == [preamble |-> before, sections |-> sections]
Pages ==
  {Page(1, <<>>)} \cup {Page(1, <<s>>) : s \in Sections({"x"})}
    \cup {Page(1, <<s, t>>) : s \in Sections({"x"}), t \in Sections({"y"})}
Lint == INSTANCE LintBatch WITH
  Pages <- {1, 2}, Texts <- Pages, ItemBudget <- 3, Budget <- 5, Related <- 1, MaxDeletes <- 0,
  at <- s1, pages <- s2, items <- s3, batches <- s4, todo <- s5, budget <- s6, attempt <- s7,
  related <- s8, covered <- s9, deletes <- s10, checked <- s11, skipped <- s12

Segments == INSTANCE FormatSegments WITH
  Kinds <- {"text", "head", "back", "info", "rule"}, MaxLines <- 4, MaxSizes <- {2, 6}, Budgets <- {1, 3},
  at <- s1, front <- s2, lines <- s3, most <- s4, budget <- s5, todo <- s6, adds <- s7,
  outputs <- s8, why <- s9


ASSUME DivisionAssumption ==
  /\ Chunks!ChunkAssumption /\ Map!MapAssumption /\ Cuts!MapAssumption /\ Reduce!ReduceAssumption
  /\ Boot!BootstrapAssumption /\ Synth!SynthesisAssumption
  /\ Same!SynthesisAssumption /\ Lint!LintBatchAssumption /\ Segments!FormatSegmentsAssumption

Init ==
  \/ part = "chunks" /\ Chunks!Init /\ Off9
  \/ part = "map" /\ Map!Init
  \/ part = "cuts" /\ Cuts!Init
  \/ part = "reduce" /\ Reduce!Init
  \/ part = "bootstrap" /\ Boot!Init /\ Off11
  \/ part = "synthesis" /\ Synth!Init /\ Off7
  \/ part = "samepath" /\ Same!Init /\ Off7
  \/ part = "lint" /\ Lint!Init
  \/ part = "segments" /\ Segments!Init /\ Off10

DoChunks == part = "chunks" /\ Chunks!Next /\ UNCHANGED <<part, Idle9>>
DoMap == part = "map" /\ Map!Next /\ UNCHANGED part
DoCuts == part = "cuts" /\ Cuts!Next /\ UNCHANGED part
DoReduce == part = "reduce" /\ Reduce!Next /\ UNCHANGED part
DoBoot == part = "bootstrap" /\ Boot!Next /\ UNCHANGED <<part, Idle11>>
DoSynth == part = "synthesis" /\ Synth!Next /\ UNCHANGED <<part, Idle7>>
DoSame == part = "samepath" /\ Same!Next /\ UNCHANGED <<part, Idle7>>
DoLint == part = "lint" /\ Lint!Next /\ UNCHANGED part
DoSegments == part = "segments" /\ Segments!Next /\ UNCHANGED <<part, Idle10>>

Next ==
  DoChunks \/ DoMap \/ DoCuts \/ DoReduce \/ DoBoot \/ DoSynth \/ DoSame \/ DoLint \/ DoSegments

Spec == Init /\ [][Next]_vars

-----------------------------------------------------------------------------
(* Whatever is divided, refused, divided again and joined, nothing is lost and       *)
(* nothing is there twice: the lines of a source in the chunks and in the answers    *)
(* that are used (with no request for blank lines alone, each labelled with the      *)
(* headings above it), the facts of the evidence in the reduction, the groups of the *)
(* bootstrap, the entities of the synthesis and the pages it writes, the items of a  *)
(* lint batch and the lines of a note that is formatted.                             *)
NoPartLost ==
  /\ part = "chunks" => Chunks!TypeOK /\ Chunks!SaysSomething /\ Chunks!LabelledByHeading
  /\ part = "map" => Map!TypeOK /\ Map!EveryLineOnce /\ Map!NoLateFailure /\ Map!OneType
  /\ part = "reduce" => Reduce!TypeOK /\ Reduce!Conserved
  /\ part = "bootstrap" => Boot!TypeOK /\ Boot!EvidenceKept /\ Boot!TypesKept
  /\ part = "synthesis" => Synth!TypeOK /\ Synth!EveryEntity /\ Synth!NoLateRefusal
  /\ part = "samepath" => Same!EveryEntity /\ Same!OwnPagesOnce
  /\ part = "lint" => Lint!TypeOK /\ Lint!EveryItemOnce /\ Lint!LinesCovered
  /\ part = "segments" => Segments!TypeOK /\ Segments!Covered /\ Segments!FencesWhole /\ Segments!LinesKept

(* Every request fits the budget in force when it is sent, what was refused is never  *)
(* sent again as large, no line is cut twice, the budgets are widened before a source *)
(* is refused, and the number of requests and of ended rows stays in its bounds.      *)
RequestsFit ==
  /\ part = "chunks" => Chunks!ChunksFit /\ Chunks!RetrySmaller
  /\ part = "map" => Map!NeverAsLarge
  /\ part = "cuts" => Cuts!CutOnce /\ Cuts!NeverAsLarge
  /\ part = "reduce" => Reduce!RequestsFit /\ Reduce!ResultFits /\ Reduce!NotRepeated
  /\ part = "bootstrap" => Boot!RequestsFit /\ Boot!LeversSpent /\ Boot!RowsEndOnce
  /\ part = "synthesis" => Synth!RequestsBounded
  /\ part = "lint" => Lint!RequestFits
=============================================================================
