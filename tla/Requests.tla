------------------------------- MODULE Requests ------------------------------
(***************************************************************************)
(* The requests to a model, from the HTTP exchange up to the calls of a    *)
(* query, a format run and a recognition of pages.  A behaviour is a       *)
(* behaviour of one part, chosen at the start; its variables are s1, s2,   *)
(* ... in the order of its module.                                         *)
(***************************************************************************)
EXTENDS Naturals, Sequences, FiniteSets

CONSTANTS
  Retries, StartRetries, IdleTimeout, Errors, MaxAnswers,   \* of NativeRequest
  MaxReads,                           \* of TransportFetch
  Repairs, CallWindow, CallPrompt, CallInput, CallRepair, CallOutput, Compact, ReplySizes,  \* of StructuredOutput
  Runs, Keys, ModelWindows, Default, MaxSamples, Caps,      \* of ModelContext
  Optional, Required, AnswerBudgets,  \* of QueryRequest
  Tokens, Far, MaxEmbeds, MaxPieces, MaxCuts,               \* of FormatRun
  MaxPages, Fixed, Reserved, PdfBudgets, PdfWindows, Costs  \* of PdfRecognition

VARIABLES
  part,  \* the part at work, chosen at the start
  s1, s2, s3, s4, s5, s6, s7, s8, s9, s10, s11, s12, s13, s14, s15, s16, s17, s18  \* its variables, in the order of its module

vars == <<part, s1, s2, s3, s4, s5, s6, s7, s8, s9, s10, s11, s12, s13, s14, s15, s16, s17, s18>>

(* The variables a part with fewer leaves alone, from a number on.         *)
Off18 == s18 = "off"
Off17 == s17 = "off" /\ Off18
Off16 == s16 = "off" /\ Off17
Off15 == s15 = "off" /\ Off16
Off14 == s14 = "off" /\ Off15
Off13 == s13 = "off" /\ Off14
Off12 == s12 = "off" /\ Off13
Off11 == s11 = "off" /\ Off12
Idle18 == <<s18>>
Idle17 == <<s17, Idle18>>
Idle16 == <<s16, Idle17>>
Idle15 == <<s15, Idle16>>
Idle14 == <<s14, Idle15>>
Idle13 == <<s13, Idle14>>
Idle12 == <<s12, Idle13>>
Idle11 == <<s11, Idle12>>

Native == INSTANCE NativeRequest WITH
  MaxRetries <- Retries, MaxStartRetries <- StartRetries, MaxChunks <- MaxAnswers,
  transport <- s1, pc <- s2, attempt <- s3, race <- s4, timer <- s5, aborted <- s6, firstSeen <- s7,
  meaningful <- s8, buffered <- s9, arrived <- s10, finishing <- s11, rows <- s12, active <- s13,
  live <- s14, received <- s15

Transport == INSTANCE TransportFetch WITH
  MaxChunks <- MaxReads,
  setup <- s1, pc <- s2, aborted <- s3, settled <- s4, response <- s5, source <- s6, agent <- s7,
  recorded <- s8, pull <- s9, terminal <- s10, chunks <- s11, trace <- s12

Structured == INSTANCE StructuredOutput WITH
  MaxRetries <- Repairs, Window <- CallWindow, BasePrompt <- CallPrompt, InputBudget <- CallInput,
  RepairBudget <- CallRepair, OutputBudget <- CallOutput, CompactThreshold <- Compact,
  call <- s1, pc <- s2, attempt <- s3, retryLimit <- s4, mode <- s5, callMode <- s6, extra <- s7,
  maxTokens <- s8, inputBudget <- s9, prompt <- s10, style <- s11, reply <- s12, tokens <- s13,
  consumed <- s14, aborted <- s15, row <- s16, active <- s17, past <- s18

Context == INSTANCE ModelContext WITH
  Windows <- ModelWindows,
  read <- s1, stored <- s2, cache <- s3, task <- s4, setting <- s5, pc <- s6, key <- s7,
  configured <- s8, got <- s9, aborted <- s10

Query == INSTANCE QueryRequest WITH
  Budgets <- AnswerBudgets,
  at <- s1, stopped <- s2, native <- s3, chat <- s4, budget <- s5, attempt <- s6, eligible <- s7,
  packed <- s8, usage <- s9, consumed <- s10, row <- s11, rows <- s12, outcome <- s13, requests <- s14,
  speaking <- s15, rejections <- s16, learned <- s17

Format == INSTANCE FormatRun WITH
  at <- s1, stopped <- s2, images <- s3, embeds <- s4, why <- s5, stream <- s6, row <- s7,
  reply <- s8, segmented <- s9, checked <- s10, left <- s11, cuts <- s12, kept <- s13, note <- s14,
  told <- s15

Pdf == INSTANCE PdfRecognition WITH
  Budgets <- PdfBudgets, Windows <- PdfWindows,
  at <- s1, stopped <- s2, cost <- s3, window <- s4, counts <- s5, configured <- s6, budget <- s7,
  rendered <- s8, pending <- s9, size <- s10, first <- s11, repacks <- s12, refusedSig <- s13,
  resized <- s14, records <- s15, row <- s16, refused <- s17, why <- s18

(* Three units of context, for the instance that is checked.                    *)
OptionalUnits == <<1, 3, 2>>

ASSUME RequestsAssumption ==
  /\ Native!BoundsAssumption /\ Transport!ChunksAssumption /\ Structured!SizesAssumption
  /\ Context!WindowsAssumption /\ Query!QueryRequestAssumption
  /\ Format!FormatRunAssumption /\ Pdf!PdfRecognitionAssumption

Init ==
  \/ part = "native" /\ Native!Init /\ Off16
  \/ part = "transport" /\ Transport!Init /\ Off13
  \/ part = "structured" /\ Structured!Init
  \/ part = "context" /\ Context!Init /\ Off11
  \/ part = "query" /\ Query!Init /\ Off18
  \/ part = "format" /\ Format!Init /\ Off16
  \/ part = "pdf" /\ Pdf!Init

DoNative == part = "native" /\ Native!Next /\ UNCHANGED <<part, Idle16>>
DoTransport == part = "transport" /\ Transport!Next /\ UNCHANGED <<part, Idle13>>
DoStructured == part = "structured" /\ Structured!Next /\ UNCHANGED part
DoContext == part = "context" /\ Context!Next /\ UNCHANGED <<part, Idle11>>
DoQuery == part = "query" /\ Query!Next /\ UNCHANGED <<part, Idle18>>
DoFormat == part = "format" /\ Format!Next /\ UNCHANGED <<part, Idle16>>
DoPdf == part = "pdf" /\ Pdf!Next /\ UNCHANGED part

Next ==
  DoNative \/ DoTransport \/ DoStructured \/ DoContext \/ DoQuery \/ DoFormat \/ DoPdf

Spec == Init /\ [][Next]_vars

-----------------------------------------------------------------------------
(* Over retries, fallbacks, repacks and pieces, what is handed on is one answer, whole *)
(* and in order: the chunks of the last attempt without a gap, the text of the request *)
(* that is returned and of no other, every page of a document once, and the tokens of  *)
(* the note in what is shown as the formatted note.                                    *)
OneAnswer ==
  /\ part = "native" => Native!TypeOK /\ Native!OneAttemptInOrder /\ Native!ReturnsEverything
  /\ part = "query" => Query!TypeOK /\ Query!OneVoice
  /\ part = "format" => Format!TypeOK /\ Format!TokensKept
  /\ part = "pdf" => Pdf!TypeOK /\ Pdf!PagesOnce

(* What the user is shown of the requests is true: the view's reducer refuses no event  *)
(* of the executor and of a structured call, one row at most is open, a row is closed   *)
(* when its request is over, the trace of an exchange tells one story, and a format run *)
(* that is not stopped says how it ended.                                               *)
RowsTrue ==
  /\ part = "native" => Native!RowsAccepted /\ Native!RowsSettled
  /\ part = "transport" => Transport!TypeOK /\ Transport!OneStory
  /\ part = "structured" => Structured!TypeOK /\ Structured!RowsAccepted /\ Structured!OneOpenRow
  /\ part = "query" => Query!RowsClosed
  /\ part = "format" => Format!RowsClosed /\ Format!EndTold
  /\ part = "pdf" => Pdf!RowsClosed

(* No request exceeds the window it was made for, whatever limit was raised or learned *)
(* on the way, and after a refusal a smaller one follows.                              *)
WithinWindow ==
  /\ part = "structured" => Structured!BasePromptFits
  /\ part = "context" => Context!BudgetFits
  /\ part = "query" => Query!RequestFits /\ Query!StrictSubset
  /\ part = "pdf" => Pdf!NeverRefusedAgain

(* When an exchange is over nothing of it is left: no request on the network, no body, *)
(* no dispatcher; and no call joins a probe of the server that nobody carries.         *)
NothingLeftOpen ==
  /\ part = "native" => Native!NoOrphanRequest
  /\ part = "transport" => Transport!NothingLeftOpen
  /\ part = "context" => Context!TypeOK /\ Context!OneProbe /\ Context!ProbeHasCaller

(* What was stopped or corrected stays so: no chunk, value or request after an abort, no *)
(* whole note after pieces, and no window wider than the one a refusal taught.           *)
StopsObeyed ==
  [][/\ part = "transport" => Transport!NothingAfterAbort
     /\ part = "structured" => Structured!AbortPreventsReturn
     /\ part = "context" => Context!LearnedHolds
     /\ part = "format" => Format!PiecesOnly
     /\ part = "pdf" => Pdf!NoLateRequest]_vars
=============================================================================
