--------------------------- MODULE PdfRecognition ---------------------------
(***************************************************************************)
(* The recognition of an attached PDF (analyzePdf and callVisionLlm in     *)
(* src/phases/attachment-analyzer.ts, batchPdfPages and                    *)
(* validateRecognitionCoverage in src/phases/vision-recognition.ts): the   *)
(* pages are rendered and sent in batches as the budget allows.  A batch   *)
(* the provider finds too long is sent in smaller ones with a smaller      *)
(* budget, a single page once more with a smaller picture; after two such  *)
(* repacks the attachment is given up.  An image or a drawing is a PDF of  *)
(* one page without a second rendering.                                    *)
(***************************************************************************)
EXTENDS Naturals, Sequences, FiniteSets, FiniteSetsExt, SequencesExt

CONSTANTS
  MaxPages,    \* bound: pages
  Fixed,       \* fixedEstimatedTokens
  Reserved,    \* mediaReservationTokens
  Budgets,     \* inputBudgetTokens
  Windows,     \* what the provider really takes
  Costs        \* what a page really costs; its smaller picture costs 1

PdfRecognitionAssumption ==
  /\ MaxPages \in Nat /\ {Fixed, Reserved} \subseteq Nat \ {0}
  /\ Budgets \subseteq Nat \ {0} /\ Windows \subseteq Nat \ {0} /\ Costs \subseteq Nat \ {0}

VARIABLES
  at,         \* "render", "batch", "next", "ask", "repair", "resize", "described", "failed"
  stopped,    \* the signal
  cost,       \* of the pages, in order
  window, counts,   \* of the provider, and whether its refusal tells the numbers
  configured, \* resolved.inputBudgetTokens
  budget,     \* effectiveInputBudget
  rendered,   \* pages rendered
  pending,    \* pages to send, in order: <<page, whether it is resized>>
  size, first,      \* pages of a batch, and the first pending page of the batch at work
  repacks,
  refusedSig, \* failedSignature: the last batch refused, <<>> before
  resized,    \* resizedPages
  records,    \* the pages recognised, in order
  row,        \* the phase of the request's lifecycle, "none" when it is closed
  refused,    \* history: all batches refused
  why         \* why it failed

vars == <<at, stopped, cost, window, counts, configured, budget, rendered, pending, size, first,
          repacks, refusedSig, resized, records, row, refused, why>>
provider == <<cost, window, counts, configured>>
recovery == <<budget, repacks, refusedSig, resized, refused>>
packing == <<pending, size, first>>

Pages == DOMAIN cost

Init ==
  /\ at = "render" /\ stopped = FALSE
  /\ \E n \in 1..MaxPages : cost \in [1..n -> Costs]
  /\ window \in Windows /\ counts \in BOOLEAN /\ configured \in Budgets /\ budget = configured
  /\ rendered = 0 /\ pending = <<>> /\ size = 0 /\ first = 1
  /\ repacks = 0 /\ refusedSig = <<>> /\ resized = {} /\ records = <<>>
  /\ row = "none" /\ refused = {} /\ why = "none"

Fail(reason) == at' = "failed" /\ why' = reason

(* The signal is asked before and after every await; it ends the work.     *)
Stop ==
  /\ ~stopped /\ at \notin {"described", "failed"} /\ stopped' = TRUE
  /\ UNCHANGED <<at, provider, recovery, packing, rendered, records, row, why>>

Aborted ==
  /\ stopped /\ at \in {"render", "batch", "next", "resize"} /\ Fail("stopped")
  /\ UNCHANGED <<stopped, provider, recovery, packing, rendered, records, row>>

(* A page is rendered; this may fail.                                      *)
Render ==
  /\ at = "render" /\ ~stopped
  /\ \/ /\ rendered' = rendered + 1 /\ UNCHANGED why
        /\ IF rendered' = Len(cost)
           THEN at' = "batch" /\ pending' = [p \in Pages |-> <<p, FALSE>>]
           ELSE UNCHANGED <<at, pending>>
     \/ Fail("render") /\ UNCHANGED <<rendered, pending>>
  /\ UNCHANGED <<stopped, provider, recovery, size, first, records, row>>

(* batchPdfPages: as many pages as fit are a batch, the last has what is left. *)
PagesPerBatch == IF budget < Fixed THEN 0 ELSE (budget - Fixed) \div Reserved
BatchAt(k, pages) == SubSeq(pending, k, Min({k + pages - 1, Len(pending)}))

(* The batch at work, and batches.slice(batchIndex).flat(): the pages from its first on. *)
Batch == BatchAt(first, size)
Remaining == SubSeq(pending, first, Len(pending))

(* What a batch costs: the fixed part and what each page counts for.       *)
Weight(page) == IF page[2] THEN 1 ELSE cost[page[1]]
Cost(batch) == Fixed + Cardinality(UNION {{k} \X (1..Weight(batch[k])) : k \in DOMAIN batch})

(* shrinkInputBudget: in proportion to the numbers of the refusal, or by a quarter. *)
Shrunk(batch) ==
  Max({1, Min({budget - 1,
    IF counts THEN (budget * window * 9) \div (Cost(batch) * 10) ELSE (budget * 3) \div 4})})

(* The head of the loop: the pages are packed; when the first batch is the one *)
(* that was refused, the budget is made smaller and they are packed again.     *)
Pack ==
  /\ at = "batch" /\ ~stopped
  /\ IF PagesPerBatch = 0
     THEN Fail(IF refusedSig = <<>> THEN "budget" ELSE "context") /\ UNCHANGED <<size, first, budget, repacks>>
     ELSE IF refusedSig # <<>> /\ BatchAt(1, PagesPerBatch) = refusedSig
     THEN /\ UNCHANGED <<size, first>>
          /\ IF repacks >= 2 THEN Fail("context") /\ UNCHANGED <<budget, repacks>>
             ELSE budget' = Shrunk(BatchAt(1, PagesPerBatch)) /\ repacks' = repacks + 1 /\ UNCHANGED <<at, why>>
     ELSE at' = "next" /\ first' = 1 /\ size' = PagesPerBatch /\ UNCHANGED <<budget, repacks, why>>
  /\ UNCHANGED <<stopped, provider, refusedSig, resized, refused, pending, rendered, records, row>>

(* callVisionLlm: the request with its row; the signal is asked before.    *)
Ask ==
  /\ at = "next" /\ first <= Len(pending) /\ ~stopped
  /\ at' = "ask" /\ row' = "waiting"
  /\ UNCHANGED <<stopped, provider, recovery, packing, rendered, records, why>>

(* The request fails for another reason than its length, or because it is  *)
(* stopped; a repair may not fit the budget with its added words.          *)
Broken ==
  /\ at \in {"ask", "repair"} /\ row' = "none" /\ Fail(IF stopped THEN "stopped" ELSE "request")
  /\ UNCHANGED <<stopped, provider, recovery, packing, rendered, records>>

(* The batch fits the window of the provider, and an answer comes; from here to *)
(* the next request nothing waits.                                              *)
Answer == at \in {"ask", "repair"} /\ Cost(Batch) <= window

StoppedAnswer ==
  /\ Answer /\ stopped /\ row' = "none" /\ Fail("stopped")
  /\ UNCHANGED <<stopped, provider, recovery, packing, rendered, records>>

(* The provider refuses the batch for its length: twice the rest is packed again *)
(* with a smaller budget, a single page resized first.                           *)
Refused ==
  /\ at \in {"ask", "repair"} /\ Cost(Batch) > window /\ row' = "none"
  /\ refused' = refused \cup {Batch} /\ refusedSig' = Batch
  /\ IF repacks >= 2 \/ (Len(Batch) = 1 /\ Batch[1][1] \in resized)
     THEN Fail("context") /\ UNCHANGED <<pending, budget, repacks, resized>>
     ELSE /\ UNCHANGED why /\ repacks' = repacks + 1 /\ budget' = Shrunk(Batch)
          /\ pending' = Remaining
          /\ IF Len(Batch) = 1 THEN at' = "resize" /\ resized' = resized \cup {Batch[1][1]}
             ELSE at' = "batch" /\ UNCHANGED resized
  /\ UNCHANGED <<stopped, provider, size, first, rendered, records>>

(* The page is rendered smaller; this may fail.                            *)
Resize ==
  /\ at = "resize" /\ ~stopped
  /\ \/ at' = "batch" /\ pending' = [pending EXCEPT ![1] = <<@[1], TRUE>>] /\ UNCHANGED why
     \/ Fail("render") /\ UNCHANGED pending
  /\ UNCHANGED <<stopped, provider, recovery, size, first, rendered, records, row>>

(* The answer has one record of every page of the batch and no other, in any *)
(* order; the row is closed as completed.                                    *)
Records ==
  /\ Answer /\ ~stopped /\ row' = "none" /\ at' = "next" /\ first' = first + size
  /\ \E pages \in [1..Len(Batch) -> Pages] :
       /\ ToSet(pages) = {Batch[k][1] : k \in DOMAIN Batch}
       /\ records' = records \o pages
  /\ UNCHANGED <<stopped, provider, recovery, pending, size, rendered, why>>

(* An answer without such records closes its row and is asked for once more, as a *)
(* request of its own; the second time it is the end.                             *)
Malformed ==
  /\ Answer /\ ~stopped
  /\ IF at = "ask" THEN at' = "repair" /\ row' = "waiting" /\ UNCHANGED why ELSE Fail("shape") /\ row' = "none"
  /\ UNCHANGED <<stopped, provider, recovery, packing, rendered, records>>

(* After the last batch: a record of every page of the document.           *)
Described ==
  /\ at = "next" /\ first > Len(pending) /\ ~stopped
  /\ IF Len(records) = Len(cost) /\ ToSet(records) = Pages THEN at' = "described" /\ UNCHANGED why ELSE Fail("coverage")
  /\ UNCHANGED <<stopped, provider, recovery, packing, rendered, records, row>>

Work ==
  \/ Aborted \/ Render \/ Pack \/ Ask \/ StoppedAnswer \/ Broken \/ Refused \/ Resize
  \/ Records \/ Malformed \/ Described
Next == Stop \/ Work
Spec == Init /\ [][Next]_vars /\ WF_vars(Work)

-----------------------------------------------------------------------------
(* Every variable has its type; pages are recognised, packed and resized only *)
(* among the rendered ones, with at most two repacks (analyzePdf).            *)
TypeOK ==
  /\ at \in {"render", "batch", "next", "ask", "repair", "resize", "described", "failed"}
  /\ {stopped, counts} \subseteq BOOLEAN /\ window \in Windows /\ configured \in Budgets
  /\ cost \in Seq(Costs) /\ Len(cost) \in 1..MaxPages
  /\ budget \in 1..configured /\ rendered \in 0..Len(cost) /\ repacks \in 0..2
  /\ {pending, refusedSig} \subseteq Seq(Pages \X BOOLEAN) /\ size \in Nat /\ first \in Nat \ {0}
  /\ resized \subseteq Pages /\ records \in Seq(Pages) /\ refused \subseteq Seq(Pages \X BOOLEAN)
  /\ row \in {"none", "waiting"} /\ why \in {"none", "stopped", "render", "budget", "context", "request", "shape", "coverage"}

(* No page is recognised twice and none is lost on the way: before every request *)
(* the pages with a record and the pages still to send are all pages of the      *)
(* document, each once, however often the rest was packed again (analyzePdf).    *)
AllOnce(left) ==
  /\ Len(records) + Len(left) = Len(cost)
  /\ Pages = ToSet(records) \cup {left[k][1] : k \in DOMAIN left}
PagesOnce == at \in {"next", "ask", "repair"} => AllOnce(Remaining)

(* A batch the provider has found too long is never sent again as it is: its *)
(* pages go in smaller batches, or smaller themselves (analyzePdf).          *)
NeverRefusedAgain == at = "ask" => Batch \notin refused

(* When the recognition ends, no row of a request is left open (callVisionLlm). *)
RowsClosed == at \in {"described", "failed"} => row = "none"

(* After the signal no request is sent, neither for the next batch nor to repair *)
(* an answer nor with a smaller page (analyzePdf, callVisionLlm).                *)
NoLateRequest == stopped /\ at' # at => at' \notin {"ask", "repair"}

(* With the rendering and the provider answering, the recognition comes to an end *)
(* (analyzePdf).                                                                  *)
Pending == at \notin {"described", "failed"}

-----------------------------------------------------------------------------
(* The inductive invariant.  The row of a request is open while it is awaited *)
(* only; before the pages are packed, those still to send are all of them.    *)
RowAwaited == at \notin {"ask", "repair"} => row = "none"

ToGo ==
  /\ at = "render" => rendered < Len(cost) /\ records = <<>>
  /\ at \in {"batch", "resize"} => pending # <<>> /\ AllOnce(pending)
  /\ at \in {"next", "ask", "repair"} => size > 0
  /\ at \in {"ask", "repair"} => first <= Len(pending)

(* The pages to send are the last ones of the document, in order; a smaller *)
(* one is the first of them.                                                *)
InTurn ==
  \A k \in DOMAIN pending :
    /\ pending[k][1] = Len(cost) - Len(pending) + k
    /\ pending[k][2] => k = 1 /\ pending[k][1] \in resized

(* Batches that were refused began with the first page to send or earlier.  *)
Past ==
  /\ at = "render" => refused = {}
  /\ at \notin {"described", "failed"} =>
       \A batch \in refused :
         batch # <<>> /\ batch[1][1] <= pending[1][1] /\ (batch[1][2] => batch[1][1] \in resized)

(* Those that begin as the next batch does are longer than it: before the   *)
(* pages are packed, the last one of them is a beginning of what is to be   *)
(* sent which the budget does not exceed any more.                          *)
Again == {batch \in refused : batch[1] = pending[1]}
Longer ==
  /\ at = "batch" => \A batch \in Again :
       /\ refusedSig = SubSeq(pending, 1, Len(refusedSig)) /\ Len(refusedSig) \in 1..Len(batch)
       /\ Len(refusedSig) \in 1..Len(pending)
       /\ PagesPerBatch <= Len(refusedSig) \/ Len(refusedSig) = Len(pending)
  /\ at \in {"next", "ask", "repair"} =>
       size = PagesPerBatch /\ (first = 1 => \A batch \in Again : Len(batch) > size)
  /\ at = "resize" => /\ pending[1][1] \in resized
                      /\ \A batch \in refused : batch[1] # <<pending[1][1], TRUE>>

Paged == TypeOK /\ PagesOnce /\ RowAwaited /\ ToGo
Inv == Paged /\ InTurn /\ Past /\ Longer
=============================================================================
