----------------------------- MODULE MCAnswers -----------------------------
(***************************************************************************)
(* How a question is answered from a domain: the vectors of its pages, the *)
(* graph of their links, the choice of the sections, the run and the       *)
(* correction of its answer.  A behaviour is a behaviour of one part,      *)
(* chosen at the start; its variables are s1, s2, ... in the order of its  *)
(* module.                                                                 *)
(***************************************************************************)
EXTENDS Naturals, Sequences, FiniteSets

CONSTANT NoPage  \* model value

VARIABLES
  part,  \* the part at work, chosen at the start
  s1, s2, s3, s4, s5, s6, s7, s8, s9, s10, s11, s12, s13, s14, s15, s16, s17, s18  \* its variables, in the order of its module

vars == <<part, s1, s2, s3, s4, s5, s6, s7, s8, s9, s10, s11, s12, s13, s14, s15, s16, s17, s18>>

(* The variables a part with fewer leaves alone, from a number on.         *)
Off18 == s18 = "off"
Off17 == s17 = "off" /\ Off18
Off16 == s16 = "off" /\ Off17
Off15 == s15 = "off" /\ Off16
Off14 == s14 = "off" /\ Off15
Off13 == s13 = "off" /\ Off14
Off12 == s12 = "off" /\ Off13
Off11 == s11 = "off" /\ Off12
Off10 == s10 = "off" /\ Off11
Off9 == s9 = "off" /\ Off10
Off8 == s8 = "off" /\ Off9
Idle18 == <<s18>>
Idle17 == <<s17, Idle18>>
Idle16 == <<s16, Idle17>>
Idle15 == <<s15, Idle16>>
Idle14 == <<s14, Idle15>>
Idle13 == <<s13, Idle14>>
Idle12 == <<s12, Idle13>>
Idle11 == <<s11, Idle12>>
Idle10 == <<s10, Idle11>>
Idle9 == <<s9, Idle10>>
Idle8 == <<s8, Idle9>>

-----------------------------------------------------------------------------
(* Targets of links: selected pages and others, tickets of which one number holds the *)
(* other's, of which one resolves.                                                    *)
Stems == {"wiki_83", "note_183", "wiki_7", "short_83", "short_7", "nowhere"}
Id(prefix, digits) == [prefix |-> prefix, digits |-> digits]
Ids == [s \in Stems \ {"nowhere"} |->
  CASE s = "wiki_83" -> Id("dwm", <<8, 3>>) [] s = "note_183" -> Id("dwm", <<1, 8, 3>>)
    [] s = "short_83" -> Id("", <<8, 3>>) [] OTHER -> Id("dg", <<7>>)]

-----------------------------------------------------------------------------
(* Two bodies that share a text; two refreshes.                            *)
Vectors == INSTANCE EmbeddingRefresh WITH
  Pids <- {"a", "b"}, Bodies <- {{"intro"}, {"intro", "facts"}}, Models <- {"m"}, Jobs <- {"j1", "j2"},
  MaxChanges <- 1, MaxAttempts <- 1,
  file <- s1, page <- s2, chunk <- s3, queue <- s4, inflight <- s5, job <- s6, changes <- s7

Models == INSTANCE EmbeddingRefresh WITH
  Pids <- {"a"}, Bodies <- {{"intro"}, {"intro", "facts"}}, Models <- {"m", "n"}, Jobs <- {"j1", "j2"},
  MaxChanges <- 1, MaxAttempts <- 1,
  file <- s1, page <- s2, chunk <- s3, queue <- s4, inflight <- s5, job <- s6, changes <- s7

Graph == INSTANCE RetrievalGraph WITH
  NPages <- 3, NGhosts <- 0, MaxLinks <- 3, MaxSeeds <- 2, MaxScore <- 0, Depth <- 2, TopK <- 1,
  Ratio <- 6, RrfK <- 1, MaxEdits <- 0, MaxQueries <- 1,
  links <- s1, length <- s2, edits <- s3, queries <- s4, hidden <- s5, cache <- s6, pc <- s7,
  graph <- s8, seeds <- s9, frontier <- s10, visited <- s11, hop <- s12, cosine <- s13,
  dense <- s14, selected <- s15, score <- s16, pruned <- s17, order <- s18

Fusion == INSTANCE RetrievalGraph WITH
  NPages <- 3, NGhosts <- 0, MaxLinks <- 2, MaxSeeds <- 1, MaxScore <- 2, Depth <- 2, TopK <- 2,
  Ratio <- 6, RrfK <- 1, MaxEdits <- 0, MaxQueries <- 1,
  links <- s1, length <- s2, edits <- s3, queries <- s4, hidden <- s5, cache <- s6, pc <- s7,
  graph <- s8, seeds <- s9, frontier <- s10, visited <- s11, hop <- s12, cosine <- s13,
  dense <- s14, selected <- s15, score <- s16, pruned <- s17, order <- s18

Cache == INSTANCE RetrievalGraph WITH
  NPages <- 2, NGhosts <- 1, MaxLinks <- 2, MaxSeeds <- 1, MaxScore <- 0, Depth <- 1, TopK <- 0,
  Ratio <- 0, RrfK <- 1, MaxEdits <- 2, MaxQueries <- 3,
  links <- s1, length <- s2, edits <- s3, queries <- s4, hidden <- s5, cache <- s6, pc <- s7,
  graph <- s8, seeds <- s9, frontier <- s10, visited <- s11, hop <- s12, cosine <- s13,
  dense <- s14, selected <- s15, score <- s16, pruned <- s17, order <- s18

Context == INSTANCE ContextSelection WITH
  N <- 4, Bases <- {18, 19}, Scores <- {1, 7}, Words <- 0, ContextTopN <- 3,
  page <- s1, text <- s2, base <- s3, words <- s4, pc <- s5, list <- s6, enabled <- s7, timer <- s8,
  listener <- s9, aborted <- s10, answer <- s11, reason <- s12, context <- s13

Worded == INSTANCE ContextSelection WITH
  N <- 4, Bases <- {1}, Scores <- {}, Words <- 2, ContextTopN <- 3,
  page <- s1, text <- s2, base <- s3, words <- s4, pc <- s5, list <- s6, enabled <- s7, timer <- s8,
  listener <- s9, aborted <- s10, answer <- s11, reason <- s12, context <- s13

Query == INSTANCE QueryRun WITH
  MaxDomains <- 3, ThresholdIsZero <- FALSE,
  cross <- s1, domains <- s2, at <- s3, pc <- s4, aborted <- s5, described <- s6, vectors <- s7,
  source <- s8, fallback <- s9, reason <- s10, life <- s11, asked <- s12, closed <- s13,
  pool <- s14, found <- s15, errors <- s16, said <- s17

Correction == INSTANCE QueryCorrection WITH
  Stems <- Stems, Known <- {"wiki_83", "note_183", "wiki_7"}, Ids <- Ids, Wiki <- {"wiki_83", "wiki_7"}, Retries <- 1,
  at <- s1, stopped <- s2, answer <- s3, shown <- s4, corrected <- s5, row <- s6, repair <- s7,
  lost <- s8

ASSUME AnswersAssumption ==
  /\ Vectors!RefreshAssumption /\ Models!RefreshAssumption /\ Graph!GraphAssumption
  /\ Fusion!GraphAssumption /\ Cache!GraphAssumption /\ Context!SelectionAssumption
  /\ Worded!SelectionAssumption /\ Query!QueryAssumption /\ Correction!QueryCorrectionAssumption

Init ==
  \/ part = "vectors" /\ Vectors!Init /\ Off8
  \/ part = "models" /\ Models!Init /\ Off8
  \/ part = "graph" /\ Graph!Init
  \/ part = "fusion" /\ Fusion!Init
  \/ part = "cache" /\ Cache!Init
  \/ part = "context" /\ Context!Init /\ Off14
  \/ part = "words" /\ Worded!Init /\ Off14
  \/ part = "query" /\ Query!Init /\ Off18
  \/ part = "correction" /\ Correction!Init /\ Off9

DoVectors == part = "vectors" /\ Vectors!Next /\ UNCHANGED <<part, Idle8>>
DoModels == part = "models" /\ Models!Next /\ UNCHANGED <<part, Idle8>>
DoGraph == part = "graph" /\ Graph!Next /\ UNCHANGED part
DoFusion == part = "fusion" /\ Fusion!Next /\ UNCHANGED part
DoCache == part = "cache" /\ Cache!Next /\ UNCHANGED part
DoContext == part = "context" /\ Context!Next /\ UNCHANGED <<part, Idle14>>
DoWorded == part = "words" /\ Worded!Next /\ UNCHANGED <<part, Idle14>>
DoQuery == part = "query" /\ Query!Next /\ UNCHANGED <<part, Idle18>>
DoCorrection == part = "correction" /\ Correction!Next /\ UNCHANGED <<part, Idle9>>

Next ==
  DoVectors \/ DoModels \/ DoGraph \/ DoFusion \/ DoCache \/ DoContext \/ DoWorded \/ DoQuery \/
  DoCorrection

Spec == Init /\ [][Next]_vars

-----------------------------------------------------------------------------
(* What is found is what the vault spells: the graph of a query is the one of the pages, *)
(* the walk finds every page a chain of links reaches and counts the shortest, no floor  *)
(* drops a page that is more similar than one it keeps, the reranker and the removal of  *)
(* duplicates lose no text, and the context is as full as it may be.                     *)
RetrievalSound ==
  /\ part = "vectors" => Vectors!TypeOK /\ Vectors!SerialWrites
  /\ part = "models" => Models!SerialWrites
  /\ part = "graph" => Graph!TypeOK /\ Graph!WithinDepth /\ Graph!HopsShortest
  /\ part = "fusion" => Fusion!FloorFair /\ Fusion!FusionFair
  /\ part = "cache" => Cache!CurrentUnlessHidden /\ Cache!WithinDepth /\ Cache!HopsShortest
  /\ part = "context" => /\ Context!TypeOK /\ Context!NoTextLost /\ Context!PromotionBounded
                         /\ Context!FallbackKeepsOrder /\ Context!RaceCleared
  /\ part = "words" => Worded!ContextSound /\ Worded!WordCovered

(* What is answered is what was asked and found: every domain with seeds is in the pool,   *)
(* every call has one end, the end is told once, and a completed answer holds no technical *)
(* text without support and no broken link without a mark, on the view as in the result.   *)
AnswerTrue ==
  /\ part = "query" => /\ Query!TypeOK /\ Query!SeedCallsClosed /\ Query!ModelAskedSparingly
                       /\ Query!PoolComplete /\ Query!EndTold
  /\ part = "correction" => /\ Correction!TypeOK /\ Correction!CompletedGrounded
                            /\ Correction!CompletedLinked /\ Correction!ShownIsReturned
                            /\ Correction!MarksTrue /\ Correction!RowsClosed

(* No slower refresh and no other operation brings vectors of an older body back or takes  *)
(* those of a page it did not read, and after a stop nothing is told and nothing replaced. *)
NothingStale ==
  [][/\ part = "vectors" => Vectors!FreshChunks /\ Vectors!RemovedAsRead /\ Vectors!RemovedWholly
     /\ part = "models" => Models!FreshChunks /\ Models!RemovedAsRead
     /\ part = "query" => Query!StopSilences
     /\ part = "correction" => Correction!ReplacedOnce]_vars
=============================================================================
