------------------------------ MODULE MCEnds ------------------------------
(***************************************************************************)
(* That what is begun is over at last.  A behaviour is a behaviour of one  *)
(* part, chosen at the start; its variables are s1, s2, ... in the order   *)
(* of its module.  Each part is fair to the steps its code takes by        *)
(* itself, and to nothing else: no edit, click, answer of the network,     *)
(* crash or failure need ever happen.                                      *)
(***************************************************************************)
EXTENDS Naturals, Sequences, FiniteSets

CONSTANT NoValue  \* model value

VARIABLES
  part,  \* the part at work, chosen at the start
  s1, s2, s3, s4, s5, s6, s7, s8, s9, s10, s11, s12, s13, s14, s15, s16, s17, s18, s19, s20, s21,
  s22, s23, s24, s25, s26  \* its variables, in the order of its module

vars == <<part, s1, s2, s3, s4, s5, s6, s7, s8, s9, s10, s11, s12, s13, s14, s15, s16, s17, s18, s19, s20,
          s21, s22, s23, s24, s25, s26>>

(* The variables a part with fewer leaves alone, from a number on.         *)
Off26 == s26 = "off"
Off25 == s25 = "off" /\ Off26
Off24 == s24 = "off" /\ Off25
Off23 == s23 = "off" /\ Off24
Off22 == s22 = "off" /\ Off23
Off21 == s21 = "off" /\ Off22
Off20 == s20 = "off" /\ Off21
Off19 == s19 = "off" /\ Off20
Off18 == s18 = "off" /\ Off19
Off17 == s17 = "off" /\ Off18
Off16 == s16 = "off" /\ Off17
Off15 == s15 = "off" /\ Off16
Off14 == s14 = "off" /\ Off15
Off13 == s13 = "off" /\ Off14
Off12 == s12 = "off" /\ Off13
Off11 == s11 = "off" /\ Off12
Off10 == s10 = "off" /\ Off11
Off9 == s9 = "off" /\ Off10
Off8 == s8 = "off" /\ Off9
Off7 == s7 = "off" /\ Off8
Idle26 == <<s26>>
Idle25 == <<s25, Idle26>>
Idle24 == <<s24, Idle25>>
Idle23 == <<s23, Idle24>>
Idle22 == <<s22, Idle23>>
Idle21 == <<s21, Idle22>>
Idle20 == <<s20, Idle21>>
Idle19 == <<s19, Idle20>>
Idle18 == <<s18, Idle19>>
Idle17 == <<s17, Idle18>>
Idle16 == <<s16, Idle17>>
Idle15 == <<s15, Idle16>>
Idle14 == <<s14, Idle15>>
Idle13 == <<s13, Idle14>>
Idle12 == <<s12, Idle13>>
Idle11 == <<s11, Idle12>>
Idle10 == <<s10, Idle11>>
Idle9 == <<s9, Idle10>>
Idle8 == <<s8, Idle9>>
Idle7 == <<s7, Idle8>>

-----------------------------------------------------------------------------
Files == {"source", "page", "index", "orphan"}

Delete == INSTANCE DeleteTransaction WITH
  Path <- Files, Source <- "source", Index <- "index", Log <- "index", ToRebuild <- {"page"},
  ToDelete <- {"orphan"}, Backlinks <- {"index"}, Writable <- {"page"}, Rejected <- {"orphan"},
  Content <- {"old", "new"}, Foreign <- {"foreign"}, Absent <- "absent", Initial <- [p \in Files |-> "old"],
  Hash <- {"h1", "h2"}, Gone <- "gone", None <- NoValue, Remaining <- 1, ClosedWindows <- FALSE,
  MaxMutations <- 2, MaxEdits <- 1, MaxCrashes <- 1, MaxFaults <- 0,
  vault <- s1, journal <- s2, metadata <- s3, pc <- s4, mode <- s5, stage <- s6, todo <- s7,
  left <- s8, planned <- s9, mem <- s10, raw <- s11, change <- s12, trustworthy <- s13,
  failing <- s14, cursor <- s15, rollbackError <- s16, journalError <- s17, snapshot <- s18,
  aborted <- s19, dirty <- s20, published <- s21, edits <- s22, crashes <- s23, faults <- s24

Initial == INSTANCE InitRun WITH
  Source <- {1, 2}, NoDomain <- NoValue, MaxVersion <- 1, MaxRuns <- 1, MaxFaults <- 1, MaxCrashes <- 0,
  domain <- s1, pages <- s2, content <- s3, mode <- s4, dry <- s5, pc <- s6, todo <- s7, file <- s8,
  mem <- s9, processed <- s10, prepared <- s11, retried <- s12, pending <- s13, after <- s14,
  state <- s15, aborted <- s16, timedOut <- s17, result <- s18, target <- s19, began <- s20,
  derived <- s21, known <- s22, lost <- s23, faults <- s24, crashes <- s25, runs <- s26

Wipe == INSTANCE WipeTransaction WITH
  File <- {"index", "page"}, Folder <- {"top", "sub"}, Top <- "top",
  Above <- [x \in {"index", "page", "top", "sub"} |->
  IF x = "page" THEN {"top", "sub"} ELSE {"top"} \ {x}],
  Absent <- "absent", Original <- "original", Foreign <- "foreign", NoTree <- NoValue,
  ProbesFail <- FALSE, MaxFaults <- 1, MaxWrites <- 1,
  root <- s1, quarantine <- s2, recovery <- s3, txn <- s4, pc <- s5, attempted <- s6,
  renameError <- s7, snapshot <- s8, removed <- s9, todo <- s10, aborted <- s11, result <- s12,
  away <- s13, base <- s14, lateFault <- s15, foreign <- s16, faults <- s17, writes <- s18

Native == INSTANCE NativeRequest WITH
  MaxRetries <- 2, MaxStartRetries <- 1, IdleTimeout <- TRUE, MaxChunks <- 2,
  Errors <- {{"connection"}, {"connection", "permanent_tls"}, {"retryable_http", "retry_header"},
  {"abort"}, {"connection", "abort"}},
  transport <- s1, pc <- s2, attempt <- s3, race <- s4, timer <- s5, aborted <- s6, firstSeen <- s7,
  meaningful <- s8, buffered <- s9, arrived <- s10, finishing <- s11, rows <- s12, active <- s13,
  live <- s14, received <- s15

Transport == INSTANCE TransportFetch WITH
  MaxChunks <- 2,
  setup <- s1, pc <- s2, aborted <- s3, settled <- s4, response <- s5, source <- s6, agent <- s7,
  recorded <- s8, pull <- s9, terminal <- s10, chunks <- s11, trace <- s12

Structured == INSTANCE StructuredOutput WITH
  MaxRetries <- 1, Window <- 20, BasePrompt <- 3, InputBudget <- 10, RepairBudget <- 10,
  OutputBudget <- 8, CompactThreshold <- 99, ReplySizes <- {6},
  call <- s1, pc <- s2, attempt <- s3, retryLimit <- s4, mode <- s5, callMode <- s6, extra <- s7,
  maxTokens <- s8, inputBudget <- s9, prompt <- s10, style <- s11, reply <- s12, tokens <- s13,
  consumed <- s14, aborted <- s15, row <- s16, active <- s17, past <- s18

Context == INSTANCE ModelContext WITH
  Runs <- {"r1", "r2"}, Keys <- {"k1"}, Windows <- {16384}, Default <- 8192,
  MaxSamples <- 0, Caps <- {0},
  read <- s1, stored <- s2, cache <- s3, task <- s4, setting <- s5, pc <- s6, key <- s7,
  configured <- s8, got <- s9, aborted <- s10

Query == INSTANCE QueryRequest WITH
  Optional <- <<1, 2>>, Required <- 2, Budgets <- {3, 8},
  at <- s1, stopped <- s2, native <- s3, chat <- s4, budget <- s5, attempt <- s6, eligible <- s7,
  packed <- s8, usage <- s9, consumed <- s10, row <- s11, rows <- s12, outcome <- s13, requests <- s14,
  speaking <- s15, rejections <- s16, learned <- s17

Format == INSTANCE FormatRun WITH
  Tokens <- {"t1", "t2"}, Far <- {"t2"}, MaxEmbeds <- 1, MaxPieces <- 2, MaxCuts <- 1,
  at <- s1, stopped <- s2, images <- s3, embeds <- s4, why <- s5, stream <- s6, row <- s7,
  reply <- s8, segmented <- s9, checked <- s10, left <- s11, cuts <- s12, kept <- s13, note <- s14,
  told <- s15

Pdf == INSTANCE PdfRecognition WITH
  MaxPages <- 3, Fixed <- 1, Reserved <- 2, Budgets <- {3, 5}, Windows <- {2, 4}, Costs <- {1, 2},
  at <- s1, stopped <- s2, cost <- s3, window <- s4, counts <- s5, configured <- s6, budget <- s7,
  rendered <- s8, pending <- s9, size <- s10, first <- s11, repacks <- s12, refusedSig <- s13,
  resized <- s14, records <- s15, row <- s16, refused <- s17, why <- s18

Run == INSTANCE Ingest WITH
  Pages <- {"p1", "p2"}, Dedup <- TRUE, NoPage <- NoValue, MaxEdits <- 0,
  page <- s1, idx <- s2, source <- s3, run <- s4, aborted <- s5, edits <- s6, slipped <- s7,
  deletedByUser <- s8

Lint == INSTANCE LintRun WITH
  Pages <- {"a", "b"}, Types <- {"common", "rare"}, Notes <- {"n"}, Gone <- NoValue,
  TypeOf <- [p \in {"a", "b"} |-> IF p = "b" THEN "rare" ELSE "common"],
  Batches <- <<{<<"a", 1>>}, {<<"a", 2>>, <<"b", 1>>}>>,
  Vaults <- {[p \in {"a", "b"} |->
  [links |-> {"a", "b"} \ {p}, aliased |-> {}, notes |-> {"n"}, patched |-> {}, valid |-> valid]] :
  valid \in BOOLEAN},
  Faults <- {"write"},
  pc <- s1, disk <- s2, mem <- s3, listed <- s4, index <- s5, articles <- s6, types <- s7,
  useLlm <- s8, batch <- s9, patches <- s10, deletes <- s11, written <- s12, refs <- s13,
  decided <- s14, halfway <- s15, unsynced <- s16

Chat == INSTANCE LintChat WITH
  Pages <- {"a", "b"}, Size <- 2, Budgets <- {3, 5}, MaxOlder <- 1, MaxPatches <- 2,
  at <- s1, stopped <- s2, budget <- s3, limit <- s4, explicit <- s5, active <- s6, schema <- s7,
  older <- s8, attempt <- s9, kept <- s10, patches <- s11, turn <- s12, written <- s13,
  indexed <- s14, applying <- s15, succeeded <- s16, failed <- s17, pending <- s18, phases <- s19,
  late <- s20

Map == INSTANCE EvidenceMap WITH
  Lines <- 4, Budget <- 4, Retries <- 1, Repacks <- 2, Types <- {}, Says <- {"no evidence", "none"},
  at <- s1, budget <- s2, repacks <- s3, work <- s4, index <- s5, tries <- s6, answers <- s7,
  failed <- s8, lineage <- s9, cause <- s10, refused <- s11, cuts <- s12

Reduce == INSTANCE EvidenceReduce WITH
  MaxPackets <- 3, Contents <- {{"f1"}, {"f1", "f2", "f3"}}, Budgets <- {8},
  Base <- 1, Output <- 9, MaxDepth <- 3, Repacks <- 2,
  given <- s1, limit <- s2, at <- s3, units <- s4, depth <- s5, batches <- s6, reduced <- s7,
  budget <- s8, repacks <- s9, refused <- s10, parts <- s11, out <- s12

Boot == INSTANCE Bootstrap WITH
  MaxCandidates <- 2, MaxFacts <- 1, Sizes <- {1, 6, 11}, Payload <- 8, Schema <- 2, Output <- 2,
  Overhead <- 1, Worst <- 2, Repair <- 1, MinChunk <- 2, MaxEvidence <- 16, MaxRequests <- 3,
  Types <- {"t1", "t2"}, Existing <- {"t1"}, Retries <- 1,
  at <- s1, cause <- s2, given <- s3, full <- s4, budget <- s5, groups <- s6, attempt <- s7,
  answers <- s8, entry <- s9, rows <- s10

Synth == INSTANCE Synthesis WITH
  N <- 3, Targets <- {2}, SamePath <- {}, NoPath <- {}, Retries <- 1,
  at <- s1, cause <- s2, todo <- s3, outputs <- s4, attempt <- s5, asked <- s6

Batch == INSTANCE LintBatch WITH
  Pages <- {1, 2}, ItemBudget <- 3, Budget <- 5, Related <- 1, MaxDeletes <- 0,
  Texts <- {[preamble |-> 1, sections |-> <<[head |-> "x", lines |-> <<1, 1, 2>>, at |-> 0]>>],
  [preamble |-> 1, sections |-> <<[head |-> "x", lines |-> <<>>, at |-> 0],
  [head |-> "y", lines |-> <<1, 1>>, at |-> 0]>>]},
  at <- s1, pages <- s2, items <- s3, batches <- s4, todo <- s5, budget <- s6, attempt <- s7,
  related <- s8, covered <- s9, deletes <- s10, checked <- s11, skipped <- s12

Segments == INSTANCE FormatSegments WITH
  Kinds <- {"text", "head", "back"}, MaxLines <- 3, MaxSizes <- {2}, Budgets <- {1, 3},
  at <- s1, front <- s2, lines <- s3, most <- s4, budget <- s5, todo <- s6, adds <- s7,
  outputs <- s8, why <- s9

Vectors == INSTANCE EmbeddingRefresh WITH
  Pids <- {"a"}, Bodies <- {{"intro"}, {"intro", "facts"}}, NoPage <- NoValue, Models <- {"m"},
  Jobs <- {"r1", "r2"}, MaxChanges <- 1, MaxAttempts <- 1,
  file <- s1, page <- s2, chunk <- s3, queue <- s4, inflight <- s5, job <- s6, changes <- s7

Choice == INSTANCE ContextSelection WITH
  N <- 2, Bases <- {1}, Scores <- {1, 2}, Words <- 1, ContextTopN <- 2,
  page <- s1, text <- s2, base <- s3, words <- s4, pc <- s5, list <- s6, enabled <- s7, timer <- s8,
  listener <- s9, aborted <- s10, answer <- s11, reason <- s12, context <- s13

Answer == INSTANCE QueryRun WITH
  MaxDomains <- 2, ThresholdIsZero <- FALSE,
  cross <- s1, domains <- s2, at <- s3, pc <- s4, aborted <- s5, described <- s6, vectors <- s7,
  source <- s8, fallback <- s9, reason <- s10, life <- s11, asked <- s12, closed <- s13,
  pool <- s14, found <- s15, errors <- s16, said <- s17

Correction == INSTANCE QueryCorrection WITH
  Stems <- {"page", "nowhere"}, Known <- {"page"}, Wiki <- {"page"}, Retries <- 1,
  Ids <- [s \in {"page"} |-> [prefix |-> "dwm", digits |-> <<7>>]],
  at <- s1, stopped <- s2, answer <- s3, shown <- s4, corrected <- s5, row <- s6, repair <- s7,
  lost <- s8

Store == INSTANCE DomainStore WITH
  N <- 2, Callers <- {"r1"}, MaxChanges <- 2, MaxCrashes <- 1, TmpBeside <- FALSE,
  meta <- s1, tmp <- s2, legacy <- s3, call <- s4, begun <- s5, crashes <- s6, kept <- s7,
  deleted <- s8, gone <- s9, old <- s10

Layout == INSTANCE StorageMigration WITH
  N <- 1, Layouts <- {"plain"}, MaxCrashes <- 2, MaxFaults <- 0, MaxEdits <- 1,
  oldReg <- s1, oldFiles <- s2, reg <- s3, files <- s4, meta <- s5, index <- s6, log <- s7,
  pend <- s8, backed <- s9, at <- s10, todo <- s11, held <- s12, crashes <- s13, faults <- s14,
  edits <- s15, had <- s16

Pages == INSTANCE PageMigration WITH
  N <- 1, Links <- {"a"}, Histories <- {}, Various <- {}, MaxCrashes <- 1, MaxFaults <- 0,
  page <- s1, flags <- s2, at <- s3, todo <- s4, crashes <- s5, faults <- s6, failed <- s7,
  first <- s8

Dispatch == INSTANCE RunDispatch WITH
  Runs <- {"r1", "r2"}, QuickClicks <- FALSE, MaxEvents <- 1, HistoryLimit <- 1, NoRun <- "none",
  run <- s1, current <- s2, label <- s3, view <- s4, history <- s5, graph <- s6, unlabelled <- s7

Init ==
  \/ part = "delete" /\ Delete!Init /\ Off25
  \/ part = "init" /\ Initial!Init
  \/ part = "wipe" /\ Wipe!Init /\ Off19
  \/ part = "native" /\ Native!Init /\ Off16
  \/ part = "transport" /\ Transport!Init /\ Off13
  \/ part = "structured" /\ Structured!Init /\ Off19
  \/ part = "context" /\ Context!Init /\ Off11
  \/ part = "query" /\ Query!Init /\ Off18
  \/ part = "format" /\ Format!Init /\ Off16
  \/ part = "pdf" /\ Pdf!Init /\ Off19
  \/ part = "ingest" /\ Run!Init /\ Off9
  \/ part = "lint" /\ Lint!Init /\ Off17
  \/ part = "chat" /\ Chat!Init /\ Off21
  \/ part = "map" /\ Map!Init /\ Off13
  \/ part = "reduce" /\ Reduce!Init /\ Off13
  \/ part = "bootstrap" /\ Boot!Init /\ Off11
  \/ part = "synthesis" /\ Synth!Init /\ Off7
  \/ part = "batches" /\ Batch!Init /\ Off13
  \/ part = "segments" /\ Segments!Init /\ Off10
  \/ part = "vectors" /\ Vectors!Init /\ Off8
  \/ part = "sections" /\ Choice!Init /\ Off14
  \/ part = "answer" /\ Answer!Init /\ Off18
  \/ part = "correction" /\ Correction!Init /\ Off9
  \/ part = "store" /\ Store!Init /\ Off11
  \/ part = "layout" /\ Layout!Init /\ Off17
  \/ part = "pages" /\ Pages!Init /\ Off9
  \/ part = "dispatch" /\ Dispatch!Init /\ Off8

DoDelete == part = "delete" /\ Delete!Next /\ UNCHANGED <<part, Idle25>>
DoInitial == part = "init" /\ Initial!Next /\ UNCHANGED part
DoWipe == part = "wipe" /\ Wipe!Next /\ UNCHANGED <<part, Idle19>>
DoNative == part = "native" /\ Native!Next /\ UNCHANGED <<part, Idle16>>
DoTransport == part = "transport" /\ Transport!Next /\ UNCHANGED <<part, Idle13>>
DoStructured == part = "structured" /\ Structured!Next /\ UNCHANGED <<part, Idle19>>
DoContext == part = "context" /\ Context!Next /\ UNCHANGED <<part, Idle11>>
DoQuery == part = "query" /\ Query!Next /\ UNCHANGED <<part, Idle18>>
DoFormat == part = "format" /\ Format!Next /\ UNCHANGED <<part, Idle16>>
DoPdf == part = "pdf" /\ Pdf!Next /\ UNCHANGED <<part, Idle19>>
DoRun == part = "ingest" /\ Run!Next /\ UNCHANGED <<part, Idle9>>
DoLint == part = "lint" /\ Lint!Next /\ UNCHANGED <<part, Idle17>>
DoChat == part = "chat" /\ Chat!Next /\ UNCHANGED <<part, Idle21>>
DoMap == part = "map" /\ Map!Next /\ UNCHANGED <<part, Idle13>>
DoReduce == part = "reduce" /\ Reduce!Next /\ UNCHANGED <<part, Idle13>>
DoBoot == part = "bootstrap" /\ Boot!Next /\ UNCHANGED <<part, Idle11>>
DoSynth == part = "synthesis" /\ Synth!Next /\ UNCHANGED <<part, Idle7>>
DoBatch == part = "batches" /\ Batch!Next /\ UNCHANGED <<part, Idle13>>
DoSegments == part = "segments" /\ Segments!Next /\ UNCHANGED <<part, Idle10>>
DoVectors == part = "vectors" /\ Vectors!Next /\ UNCHANGED <<part, Idle8>>
DoChoice == part = "sections" /\ Choice!Next /\ UNCHANGED <<part, Idle14>>
DoAnswer == part = "answer" /\ Answer!Next /\ UNCHANGED <<part, Idle18>>
DoCorrection == part = "correction" /\ Correction!Next /\ UNCHANGED <<part, Idle9>>
DoStore == part = "store" /\ Store!Next /\ UNCHANGED <<part, Idle11>>
DoLayout == part = "layout" /\ Layout!Next /\ UNCHANGED <<part, Idle17>>
DoPages == part = "pages" /\ Pages!Next /\ UNCHANGED <<part, Idle9>>
DoDispatch == part = "dispatch" /\ Dispatch!Next /\ UNCHANGED <<part, Idle8>>

Next ==
  DoDelete \/ DoInitial \/ DoWipe \/ DoNative \/ DoTransport \/ DoStructured \/ DoContext \/
  DoQuery \/ DoFormat \/ DoPdf \/ DoRun \/ DoLint \/ DoChat \/ DoMap \/ DoReduce \/ DoBoot \/
  DoSynth \/ DoBatch \/ DoSegments \/ DoVectors \/ DoChoice \/ DoAnswer \/ DoCorrection \/
  DoStore \/ DoLayout \/ DoPages \/ DoDispatch

-----------------------------------------------------------------------------
(* What every part does by itself; where several steps of a part are awaited apart *)
(* from each other, the second of them, the third, and so on.                      *)
Work1 ==
  \/ part = "delete" /\ Delete!Running /\ UNCHANGED <<part, Idle25>>
  \/ part = "init" /\ Initial!Run /\ UNCHANGED part
  \/ part = "wipe" /\ (Wipe!Forward \/ Wipe!Back) /\ UNCHANGED <<part, Idle19>>
  \/ part = "native" /\ Native!Continues /\ UNCHANGED <<part, Idle16>>
  \/ part = "transport" /\ Transport!Continues /\ UNCHANGED <<part, Idle13>>
  \/ DoStructured
  \/ part = "context" /\ Context!ReadDone("r1") /\ UNCHANGED <<part, Idle11>>
  \/ part = "query" /\ Query!Progress /\ UNCHANGED <<part, Idle18>>
  \/ part = "format" /\ Format!Work /\ UNCHANGED <<part, Idle16>>
  \/ part = "pdf" /\ Pdf!Work /\ UNCHANGED <<part, Idle19>>
  \/ part = "ingest" /\ Run!Proceed /\ UNCHANGED <<part, Idle9>>
  \/ DoLint
  \/ part = "chat" /\ Chat!Work /\ UNCHANGED <<part, Idle21>>
  \/ DoMap
  \/ DoReduce
  \/ DoBoot
  \/ DoSynth
  \/ DoBatch
  \/ DoSegments
  \/ part = "vectors" /\ Vectors!Transform /\ UNCHANGED <<part, Idle8>>
  \/ part = "sections" /\ Choice!Dedupe /\ UNCHANGED <<part, Idle14>>
  \/ part = "answer" /\ Answer!Step /\ UNCHANGED <<part, Idle18>>
  \/ part = "correction" /\ Correction!Progress /\ UNCHANGED <<part, Idle9>>
  \/ part = "store" /\ Store!Proceed("r1") /\ UNCHANGED <<part, Idle11>>
  \/ part = "layout" /\ Layout!Migration /\ UNCHANGED <<part, Idle17>>
  \/ part = "pages" /\ Pages!Loading /\ UNCHANGED <<part, Idle9>>
  \/ part = "dispatch" /\ Dispatch!Proceed("r1") /\ UNCHANGED <<part, Idle8>>
Work2 ==
  \/ part = "native" /\ Native!DelayOver /\ UNCHANGED <<part, Idle16>>
  \/ part = "transport" /\ Transport!AbortedSettles /\ UNCHANGED <<part, Idle13>>
  \/ part = "context" /\ Context!WriteDone("r1") /\ UNCHANGED <<part, Idle11>>
  \/ part = "vectors" /\ Vectors!Store /\ UNCHANGED <<part, Idle8>>
  \/ part = "sections" /\ Choice!Request /\ UNCHANGED <<part, Idle14>>
  \/ part = "dispatch" /\ Dispatch!Proceed("r2") /\ UNCHANGED <<part, Idle8>>
Work3 ==
  \/ part = "native" /\ (Native!Ask \/ Native!Leave) /\ UNCHANGED <<part, Idle16>>
  \/ part = "transport" /\ Transport!BufferSettles /\ UNCHANGED <<part, Idle13>>
  \/ part = "context" /\ Context!ReadDone("r2") /\ UNCHANGED <<part, Idle11>>
  \/ part = "vectors" /\ Vectors!Work("r1") /\ UNCHANGED <<part, Idle8>>
  \/ part = "sections" /\ Choice!Timeout /\ UNCHANGED <<part, Idle14>>
Work4 ==
  \/ part = "context" /\ Context!WriteDone("r2") /\ UNCHANGED <<part, Idle11>>
  \/ part = "vectors" /\ Vectors!Work("r2") /\ UNCHANGED <<part, Idle8>>
  \/ part = "sections" /\ Choice!Select /\ UNCHANGED <<part, Idle14>>
Work5 ==
  \/ part = "context" /\ Context!Probe("k1") /\ UNCHANGED <<part, Idle11>>
Work6 ==
  \/ part = "context" /\ Context!ProbeDone("k1") /\ UNCHANGED <<part, Idle11>>

(* A timer that is set and cleared fires when it is set again and again.   *)
Timer == part = "native" /\ Native!TimerFires /\ UNCHANGED <<part, Idle16>>

Spec == Init /\ [][Next]_vars
  /\ WF_vars(Work1)
  /\ WF_vars(Work2)
  /\ WF_vars(Work3)
  /\ WF_vars(Work4)
  /\ WF_vars(Work5)
  /\ WF_vars(Work6)
  /\ SF_vars(Timer)

-----------------------------------------------------------------------------
(* What is begun and not over, of the first and of the second run, call or refresh. *)
Busy(i) ==
  \/ i = 1 /\ part = "delete" /\ Delete!Pending
  \/ i = 1 /\ part = "init" /\ Initial!Pending
  \/ i = 1 /\ part = "wipe" /\ Wipe!Pending
  \/ i = 1 /\ part = "native" /\ Native!Pending
  \/ i = 1 /\ part = "transport" /\ Transport!Pending
  \/ i = 1 /\ part = "structured" /\ Structured!Pending
  \/ i = 1 /\ part = "query" /\ Query!Pending
  \/ i = 1 /\ part = "format" /\ Format!Pending
  \/ i = 1 /\ part = "pdf" /\ Pdf!Pending
  \/ i = 1 /\ part = "ingest" /\ Run!Pending
  \/ i = 1 /\ part = "lint" /\ Lint!Pending
  \/ i = 1 /\ part = "chat" /\ Chat!Pending
  \/ i = 1 /\ part = "map" /\ Map!Pending
  \/ i = 1 /\ part = "reduce" /\ Reduce!Pending
  \/ i = 1 /\ part = "bootstrap" /\ Boot!Pending
  \/ i = 1 /\ part = "synthesis" /\ Synth!Pending
  \/ i = 1 /\ part = "batches" /\ Batch!Pending
  \/ i = 1 /\ part = "segments" /\ Segments!Pending
  \/ i = 1 /\ part = "sections" /\ Choice!Pending
  \/ i = 1 /\ part = "answer" /\ Answer!Pending
  \/ i = 1 /\ part = "correction" /\ Correction!Pending
  \/ i = 1 /\ part = "layout" /\ Layout!Pending
  \/ i = 1 /\ part = "pages" /\ Pages!Pending
  \/ \E r \in {IF i = 1 THEN "r1" ELSE "r2"} :
       \/ part = "context" /\ Context!Pending(r)
       \/ part = "vectors" /\ Vectors!Pending(r)
       \/ part = "store" /\ i = 1 /\ Store!Pending(r)
       \/ part = "dispatch" /\ Dispatch!Pending(r)

(* Every deletion, init, wipe, request, run, refresh, call and migration comes to its *)
(* end, whatever is edited, stopped, refused, cut, closed or failed on the way.       *)
EverythingEnds == \A i \in {1, 2} : Busy(i) ~> ~Busy(i)
=============================================================================
