------------------------------- MODULE Ingest -------------------------------
(***************************************************************************)
(* The ingest of one source into a domain (runIngest in                    *)
(* src/phases/ingest.ts), outside of a transaction: evidence, retrieval,   *)
(* synthesis, preparation of the page changes with the merge of near       *)
(* duplicates, the writes, the deletion of duplicates, the index, and the  *)
(* links written back into the source.  Every await is a step: the user    *)
(* edits, creates or deletes pages and edits the source in between, every  *)
(* call may fail, and Cancel may come at any time.                         *)
(*                                                                         *)
(* A page is the set of what it says: "tech" is the technical evidence of  *)
(* the source, "text" older knowledge, "mine" what the user writes during  *)
(* the run, and "resource" says that its frontmatter names the source.     *)
(***************************************************************************)
EXTENDS Naturals, FiniteSets, Functions, TLAPS

CONSTANTS
  Pages,      \* governed paths of the domain
  Dedup,      \* dedupOnIngest, with a threshold above zero
  NoPage,     \* model value: there is no such file
  MaxEdits    \* bound: edits of the user during the run

Said == {"tech", "text", "mine", "resource"}

PagesAssumption ==
  /\ IsFiniteSet(Pages) /\ Dedup \in BOOLEAN /\ MaxEdits \in Nat
  /\ NoPage \notin Pages /\ \A c \in SUBSET Said : NoPage # c

VARIABLES
  page,       \* the files
  idx,        \* the index: the page each record was made from, NoPage without one
  source,     \* the source: its body (a version) and its list of articles
  run,        \* what runIngest has in its variables, and where it is
  aborted,    \* the signal
  edits, slipped, deletedByUser   \* history: number of edits; what was edited since
                                  \* the run last compared it; pages the user deleted

vars == <<page, idx, source, run, aborted, edits, slipped, deletedByUser>>

Empty == [p \in {} |-> NoPage]
Exists(files, p) == files[p] # NoPage
Existing(files) == {p \in Pages : Exists(files, p)}

(* A page whose resource list names the source (hasCurrentSourceResource). *)
OfSource(files) == {p \in Existing(files) : "resource" \in files[p]}

(* duplicateEvidenceIsRepresented: everything but the resource list of a page *)
(* with some knowledge is in the canonical page.                              *)
Represented(canonical, duplicate) ==
  duplicate \ {"resource"} # {} /\ duplicate \ {"resource"} \subseteq canonical

Init ==
  /\ page \in [Pages -> {NoPage, {"tech"}, {"tech", "resource"}}]
  /\ idx \in {page, [p \in Pages |-> NoPage]}
  /\ source = [body |-> 1, links |-> {}]
  /\ run = [at |-> "read", body |-> 0, pages |-> page, acts |-> Empty, fresh |-> <<>>,
            routed |-> {}, prep |-> Empty, dels |-> Empty, written |-> {}, item |-> NoPage, seen |-> NoPage,
            removed |-> NoPage, files |-> page, life |-> "none", outcome |-> "none"]
  /\ aborted = FALSE /\ edits = 0 /\ slipped = {} /\ deletedByUser = {}

disk == <<page, idx, source>>
world == <<aborted, edits, deletedByUser>>

(* A way out of the function: the outcome, and in the finally block the rows of *)
(* the lifecycle trace that are open are settled.                               *)
End(outcome) ==
  run' = [run EXCEPT !.at = "end", !.outcome = outcome,
                     !.life = IF @ \in {"none", "completed"} THEN @
                              ELSE IF aborted THEN "cancelled" ELSE "failed"]

Goes(to) == run' = [run EXCEPT !.at = to]
Fails(outcome) == End(outcome) /\ UNCHANGED <<disk, world, slipped>>

-----------------------------------------------------------------------------
(* Reading                                                                 *)

ReadSource ==
  /\ run.at = "read"
  /\ \/ run' = [run EXCEPT !.at = "load", !.body = source.body] /\ UNCHANGED <<disk, world, slipped>>
     \/ Fails("read")

(* The strict read of every page, and the index made to agree with it.     *)
LoadPages ==
  /\ run.at = "load"
  /\ \/ /\ run' = [run EXCEPT !.at = "evidence", !.pages = page] /\ idx' = page
        /\ UNCHANGED <<page, source, world, slipped>>
     \/ Fails("context")

(* Evidence prepared by Init is taken when domain, path and body agree; otherwise *)
(* the model is asked.                                                            *)
Evidence ==
  /\ run.at = "evidence"
  /\ \/ Goes("retrieve") /\ UNCHANGED <<disk, world, slipped>>
     \/ Fails("evidence")

(* Candidate pages are found by similarity, then read, with the sources' names. *)
Retrieve ==
  /\ run.at = "retrieve"
  /\ \/ Goes("synthesize") /\ UNCHANGED <<disk, world, slipped>>
     \/ Fails("embedding") \/ Fails("context")

(* What the model may ask for: at most two changes of distinct paths; the routing *)
(* and the path guard have refused every other one.                               *)
Plans == UNION {[S -> {{"tech"}, {"text"}}] : S \in {T \in SUBSET Pages : Cardinality(T) <= 2}}

Synthesize ==
  /\ run.at = "synthesize"
  /\ \/ \E plan \in Plans :
          /\ ~aborted \/ plan = Empty
          /\ run' = [run EXCEPT !.at = "prepare", !.acts = plan, !.routed = DOMAIN plan,
                                !.life = IF plan = Empty THEN "none" ELSE "validating"]
          /\ UNCHANGED <<disk, world, slipped>>
     \/ Fails("synthesis") \/ Fails("context") \/ Fails("patch")

-----------------------------------------------------------------------------
(* Preparation of one page change after the other, against the file as it is now *)

Rest(p) == Restrict(run.acts, DOMAIN run.acts \ {p})

(* The content that will be written: what the synthesis adds, and the source in *)
(* the resource list; a second change of the same page is refused.              *)
Settle(p, path, old, new, dels) ==
  IF path \in DOMAIN run.prep THEN Fails("patch")
  ELSE /\ run' = [run EXCEPT !.at = "prepare", !.acts = Rest(p), !.fresh = <<>>,
                             !.prep = [q \in DOMAIN @ \cup {path} |->
                                         IF q = path THEN [old |-> old, new |-> new \cup {"resource"}] ELSE @[q]],
                             !.dels = dels]
       /\ UNCHANGED <<disk, world, slipped>>

(* The duplicate merge is deferred: the change is dropped, the run goes on. *)
Deferred(p, dels) ==
  /\ run' = [run EXCEPT !.at = "prepare", !.acts = Rest(p), !.fresh = <<>>, !.dels = dels]
  /\ UNCHANGED <<disk, world, slipped>>

(* The model is asked to write the patch anew for the page as it was just read. *)
Asks(p, target, kind) ==
  /\ run' = [run EXCEPT !.at = "regenerate", !.fresh = <<p, target, page[target], kind>>]
  /\ UNCHANGED <<disk, world, slipped>>

(* A created page without exactly one title leaves the function by an exception. *)
PrepareCreate(p) ==
  /\ run.at = "prepare" /\ p \in DOMAIN run.acts /\ ~Exists(run.pages, p)
  /\ \/ Exists(page, p) /\ Fails("patch")
     \/ ~Exists(page, p) /\ Settle(p, p, NoPage, run.acts[p], run.dels)
     \/ ~Exists(page, p) /\ Fails("thrown")
     \/ /\ Dedup /\ ~Exists(page, p)
        /\ \E target \in Existing(run.pages) :
             IF Exists(page, target) THEN Asks(p, target, "merge") ELSE Deferred(p, run.dels)

PreparePatch(p) ==
  /\ run.at = "prepare" /\ p \in DOMAIN run.acts /\ Exists(run.pages, p)
  /\ \/ ~Exists(page, p) /\ Fails("patch")
     \/ Exists(page, p) /\ Settle(p, p, page[p], page[p] \cup run.acts[p], run.dels)
     \/ Exists(page, p) /\ Asks(p, p, "patch")

(* Near duplicates of the new page that the merged page represents are noted for *)
(* deletion with what they say now.                                              *)
Noted(target, merged) ==
  {d \in Existing(run.pages) \ (run.routed \cup {target}) :
     Exists(page, d) /\ Represented(merged, page[d])}

WithDeletes(D, target) ==
  [d \in D \cup DOMAIN run.dels |-> IF d \in D THEN [canonical |-> target, text |-> page[d]] ELSE run.dels[d]]

(* Any failure of the merge defers it, the abort too; what was noted stays noted. *)
Merge ==
  /\ run.at = "regenerate" /\ run.fresh[4] = "merge"
  /\ LET p == run.fresh[1] target == run.fresh[2]
         merged == run.fresh[3] \cup run.acts[p] IN
       \/ Deferred(p, run.dels)
       \/ /\ ~aborted
          /\ \E D \in SUBSET Noted(target, merged) :
               \/ Settle(p, target, run.fresh[3], merged, WithDeletes(D, target))
               \/ Deferred(p, WithDeletes(D, target))

Regenerate ==
  /\ run.at = "regenerate" /\ run.fresh[4] = "patch"
  /\ LET p == run.fresh[1] IN
       \/ ~aborted /\ Settle(p, p, run.fresh[3], run.fresh[3] \cup run.acts[p], run.dels)
       \/ Fails("patch")

(* What represents the source: pages that are left alone as they were read, and *)
(* the prepared ones.                                                           *)
Represents ==
  UNION ({run.pages[p] : p \in OfSource(run.pages) \ (DOMAIN run.prep \cup DOMAIN run.dels)}
         \cup {run.prep[p].new : p \in DOMAIN run.prep})

(* Aliases and links are repaired, and no technical evidence may be missing. *)
Cover ==
  /\ run.at = "prepare" /\ run.acts = Empty
  /\ \/ "tech" \in Represents /\ Goes("write") /\ UNCHANGED <<disk, world, slipped>>
     \/ Fails("context") \/ Fails("patch")

-----------------------------------------------------------------------------
(* Writing                                                                 *)

(* A mutated form: the page is only compared for being there.              *)
CheckPageBlind(p) ==
  /\ run.at = "write" /\ p \in DOMAIN run.prep \ run.written
  /\ ~aborted /\ (run.prep[p].old = NoPage) = ~Exists(page, p)
  /\ run' = [run EXCEPT !.at = "put", !.item = p, !.life = IF @ = "validating" THEN "applying" ELSE @]
  /\ slipped' = slipped \ {p} /\ UNCHANGED <<disk, world>>

(* The page must be what it was prepared from; a cancel at the head of the loop *)
(* leaves the function by an exception.                                         *)
CheckPage(p) ==
  /\ run.at = "write" /\ p \in DOMAIN run.prep \ run.written
  /\ \/ /\ ~aborted /\ page[p] = run.prep[p].old
        /\ run' = [run EXCEPT !.at = "put", !.item = p, !.life = IF @ = "validating" THEN "applying" ELSE @]
        /\ slipped' = slipped \ {p} /\ UNCHANGED <<disk, world>>
     \/ ~aborted /\ Fails("write")
     \/ aborted /\ Fails("thrown")

PutPage ==
  /\ run.at = "put"
  /\ \/ /\ ~aborted
        /\ page' = [page EXCEPT ![run.item] = run.prep[run.item].new]
        /\ run' = [run EXCEPT !.at = "write", !.written = @ \cup {run.item}]
        /\ UNCHANGED <<idx, source, world, slipped>>
     \/ Fails("write")

Written == run.at = "write" /\ run.written = DOMAIN run.prep

(* A duplicate that says what it said, and that the canonical page on disk *)
(* represents, leaves the index, if that works.                            *)
RemoveRecord(d) ==
  LET doomed == run.dels[d] IN
  /\ Written /\ d \in DOMAIN run.dels
  /\ \/ /\ page[d] = doomed.text /\ Exists(page, doomed.canonical)
        /\ Represented(page[doomed.canonical], page[d])
        /\ run' = [run EXCEPT !.at = "recheck", !.item = d, !.seen = page[doomed.canonical], !.removed = idx[d]]
        /\ idx' = [idx EXCEPT ![d] = NoPage]
        /\ UNCHANGED <<page, source, world, slipped>>
     \/ Fails("write")

Canonical == run.dels[run.item].canonical

Recheck ==
  /\ run.at = "recheck"
  /\ \/ page[run.item] = run.dels[run.item].text /\ page[Canonical] = run.seen /\ Goes("remove")
     \/ Goes("restore")
  /\ slipped' = slipped \ {run.item, Canonical} /\ UNCHANGED <<disk, world>>

RemoveFile ==
  /\ run.at = "remove"
  /\ \/ /\ page' = [page EXCEPT ![run.item] = NoPage]
        /\ run' = [run EXCEPT !.at = "write", !.dels = Restrict(@, DOMAIN @ \ {run.item})]
     \/ Goes("restore") /\ UNCHANGED page
  /\ UNCHANGED <<idx, source, world, slipped>>

(* After a failure the records come back when the page is still there; a failure *)
(* of this call leaves the function by an exception.                             *)
Restore ==
  /\ run.at = "restore"
  /\ \/ Exists(page, run.item) /\ idx' = [idx EXCEPT ![run.item] = run.removed] /\ End("write")
     \/ Exists(page, run.item) /\ End("thrown") /\ UNCHANGED idx
     \/ ~Exists(page, run.item) /\ End("write") /\ UNCHANGED idx
  /\ UNCHANGED <<page, source, world, slipped>>

-----------------------------------------------------------------------------
(* Index, embeddings, and the source                                       *)

Reconcile ==
  /\ Written /\ run.dels = Empty
  /\ \/ idx' = page /\ Goes("embed") /\ UNCHANGED <<page, source, world, slipped>>
     \/ Fails("index")

Embed ==
  /\ run.at = "embed"
  /\ \/ Goes("final") /\ UNCHANGED <<disk, world, slipped>>
     \/ Fails("embedding")

FinalReconcile ==
  /\ run.at = "final"
  /\ \/ idx' = page /\ run' = [run EXCEPT !.at = "backlink", !.files = page]
        /\ UNCHANGED <<page, source, world, slipped>>
     \/ Fails("index")

ReadBack ==
  /\ run.at = "backlink"
  /\ \/ /\ source.body = run.body
        /\ Goes("putback") /\ slipped' = slipped \ {"source"} /\ UNCHANGED <<disk, world>>
     \/ Fails("backlink")

(* The source is written whole, then the log, which may fail, and the result. *)
PutBack ==
  /\ run.at = "putback"
  /\ \/ /\ source' = [body |-> run.body, links |-> OfSource(run.files)]
        /\ run' = [run EXCEPT !.at = "end", !.outcome = "ok", !.life = IF @ = "none" THEN @ ELSE "completed"]
        /\ UNCHANGED <<page, idx, world, slipped>>
     \/ Fails("backlink")

Proceed ==
  \/ ReadSource \/ LoadPages \/ Evidence \/ Retrieve \/ Synthesize
  \/ \E p \in Pages : PrepareCreate(p) \/ PreparePatch(p) \/ CheckPage(p) \/ RemoveRecord(p)
  \/ Merge \/ Regenerate \/ Cover \/ PutPage \/ Recheck \/ RemoveFile \/ Restore
  \/ Reconcile \/ Embed \/ FinalReconcile \/ ReadBack \/ PutBack

-----------------------------------------------------------------------------
(* The user, who also creates a page that was not there when the run began. *)
EditPage(p) ==
  /\ run.at # "end" /\ edits < MaxEdits /\ edits' = edits + 1
  /\ \/ /\ Exists(page, p) \/ ~Exists(run.pages, p)
        /\ page' = [page EXCEPT ![p] = IF @ = NoPage THEN {"mine"} ELSE @ \cup {"mine"}]
        /\ UNCHANGED deletedByUser
     \/ /\ Exists(page, p) /\ page' = [page EXCEPT ![p] = NoPage]
        /\ deletedByUser' = deletedByUser \cup {p}
  /\ slipped' = slipped \cup {p} /\ UNCHANGED <<idx, source, run, aborted>>

EditSource ==
  /\ run.at # "end" /\ edits < MaxEdits /\ edits' = edits + 1
  /\ source' = [source EXCEPT !.body = @ + 1]
  /\ slipped' = slipped \cup {"source"} /\ UNCHANGED <<page, idx, run, aborted, deletedByUser>>

Cancel == run.at # "end" /\ ~aborted /\ aborted' = TRUE /\ UNCHANGED <<disk, run, edits, slipped, deletedByUser>>

Next == Proceed \/ (\E p \in Pages : EditPage(p)) \/ EditSource \/ Cancel

(* Every await of the run comes back; nobody is bound to edit or to cancel. *)
Spec == Init /\ [][Next]_vars /\ WF_vars(Proceed)

-----------------------------------------------------------------------------
Contents == (SUBSET Said) \cup {NoPage}

(* Types, and rows of the trace that are open exactly while the run is.    *)
TypeOK ==
  /\ page \in [Pages -> Contents] /\ idx \in [Pages -> Contents]
  /\ source.links \subseteq Pages /\ DOMAIN run.prep \subseteq Pages /\ DOMAIN run.dels \subseteq Pages
  /\ run.life \in (IF run.at = "end" THEN {"none", "completed", "failed", "cancelled"}
                                     ELSE {"none", "validating", "applying"})
  /\ run.at = "end" => (run.life = "completed" => run.outcome = "ok")

(* No step of the run loses what a page says, the user's latest words included: a *)
(* page is replaced by one that says more, and removed when its canonical page    *)
(* says it all. What was edited after the last comparison is the exception.       *)
WordsKept ==
  edits' = edits => \A p \in Existing(page) \ slipped :
       \/ Exists(page', p) /\ page[p] \subseteq page'[p]
       \/ /\ ~Exists(page', p) /\ p \in DOMAIN run.dels
          /\ \/ run.dels[p].canonical \in slipped
             \/ page[p] \ {"resource"} \subseteq page[run.dels[p].canonical]

(* A page that was there at the start and is there at the end has its record, *)
(* whatever failed in between, save when the restoration itself failed.       *)
RecordsKept ==
  run.at = "end" /\ run.outcome \notin {"thrown", "read", "context"} =>
    \A p \in Existing(run.pages) \ deletedByUser : Exists(page, p) => Exists(idx, p)

(* A source that counts as ingested has its technical evidence in a page, also    *)
(* when duplicates were merged and changes were dropped, and in one that names it *)
(* unless the run removed a page it wrote: the target of a merge, which a merge   *)
(* that was given up had noted as a duplicate.                                    *)
IngestedIsThere ==
  run.outcome = "ok" /\ deletedByUser = {} =>
    \E p \in Existing(page) :
       /\ "tech" \in page[p]
       /\ "resource" \in page[p] \/ \E q \in run.written : ~Exists(page, q)

(* An edit of the source during the run is not written over, and the run does not *)
(* count as an ingest of it.                                                      *)
SourceKept ==
  edits' = edits /\ source' # source => source.body = run.body \/ "source" \in slipped

(* The articles a source lists are there, duplicates that were merged are not. *)
ArticlesExist == run.outcome = "ok" => source.links \subseteq Existing(page) \cup deletedByUser

(* After a cancel no page is written any more.                             *)
CancelStopsWrites ==
  aborted /\ edits' = edits => \A p \in Pages : page'[p] \in {page[p], NoPage}

(* The run ends, whatever fails.                                           *)
Pending == run.at # "end"

-----------------------------------------------------------------------------
(* What every reachable state has, which the properties above follow from. *)

Places ==
  {"read", "load", "evidence", "retrieve", "synthesize", "prepare", "regenerate", "write", "put",
   "recheck", "remove", "restore", "embed", "final", "backlink", "putback", "end"}
Preparing == {"evidence", "retrieve", "synthesize", "prepare", "regenerate"}
Removing == {"recheck", "remove", "restore"}
Closing == {"embed", "final", "backlink", "putback"}

(* The fields of a run, and the files.                                     *)
Shaped ==
  /\ run = [at |-> run.at, body |-> run.body, pages |-> run.pages, acts |-> run.acts, fresh |-> run.fresh,
            routed |-> run.routed, prep |-> run.prep, dels |-> run.dels, written |-> run.written,
            item |-> run.item, seen |-> run.seen, removed |-> run.removed, files |-> run.files,
            life |-> run.life, outcome |-> run.outcome]
  /\ run.at \in Places /\ run.pages \in [Pages -> Contents] /\ run.files \in [Pages -> Contents]
  /\ page \in [Pages -> Contents] /\ idx \in [Pages -> Contents]
  /\ source = [body |-> source.body, links |-> source.links] /\ source.links \subseteq Pages
  /\ edits \in Nat /\ aborted \in BOOLEAN /\ deletedByUser \subseteq Pages

(* The rows of the trace.                                                  *)
Trace ==
  /\ run.life \in (IF run.at = "end" THEN {"none", "completed", "failed", "cancelled"}
                                     ELSE {"none", "validating", "applying"})
  /\ run.at = "end" => (run.life = "completed" => run.outcome = "ok")
  /\ run.at # "end" => run.outcome = "none"

(* What is going to be written says what the page said and names the source; a *)
(* page that was there is not made anew.                                       *)
Prepared ==
  /\ run.at \in {"read", "load"} => run.acts = Empty /\ run.prep = Empty /\ run.dels = Empty
  /\ \A p \in DOMAIN run.acts : p \in Pages /\ run.acts[p] \in SUBSET Said
  /\ \A p \in DOMAIN run.prep :
       /\ p \in Pages /\ run.prep[p].new \in SUBSET Said /\ "resource" \in run.prep[p].new
       /\ run.prep[p].old # NoPage => run.prep[p].old \subseteq run.prep[p].new
       /\ Exists(run.pages, p) => run.prep[p].old # NoPage
  /\ run.at = "regenerate" =>
       /\ run.fresh[1] \in DOMAIN run.acts /\ run.fresh[2] \in Existing(run.pages)
       /\ run.fresh[3] \in SUBSET Said
       /\ run.fresh[4] = "patch" => run.fresh[1] = run.fresh[2]

(* What is going to be deleted is another page than its canonical one, and what it *)
(* says was represented there.                                                     *)
Doomed ==
  \A d \in DOMAIN run.dels :
    /\ d \in Existing(run.pages) /\ run.dels[d].canonical \in Existing(run.pages) \ {d}
    /\ run.dels[d].text \in SUBSET Said

(* What is written so far, and what the comparisons before a write or a removal *)
(* have seen.                                                                   *)
InTurn ==
  /\ run.written \subseteq DOMAIN run.prep
  /\ run.at \in Preparing \cup {"read", "load"} => run.written = {}
  /\ run.at = "put" =>
       /\ run.item \in DOMAIN run.prep \ run.written
       /\ run.item \in slipped \/ page[run.item] = run.prep[run.item].old
       /\ Exists(run.pages, run.item) => Exists(page, run.item) \/ run.item \in deletedByUser
  /\ run.at \in Removing \cup Closing => run.written = DOMAIN run.prep
  /\ run.at \in Closing => run.dels = Empty
  /\ run.at \in Removing =>
       /\ run.item \in DOMAIN run.dels /\ run.removed \in Contents
       /\ run.seen \in SUBSET Said /\ run.dels[run.item].text \ {"resource"} \subseteq run.seen
  /\ run.at = "remove" =>
       /\ run.item \in slipped \/ page[run.item] = run.dels[run.item].text
       /\ Canonical \in slipped \/ page[Canonical] = run.seen
  /\ run.at = "putback" => source.body = run.body \/ "source" \in slipped

(* The pages that were there have their records, the one whose record is taken *)
(* away for a moment aside.                                                    *)
Recorded ==
  run.at \notin {"read", "load", "end"} =>
    \A p \in Existing(run.pages) \ deletedByUser :
       Exists(page, p) => IF run.at \in Removing /\ p = run.item THEN run.removed \in SUBSET Said
                                                                  ELSE Exists(idx, p)

(* A page the run wrote and removed again.                                 *)
WrittenIsGone == \E q \in run.written : Exists(run.pages, q) /\ ~Exists(page, q)

(* Where the technical evidence is: in what will be written, or in a page that *)
(* names the source and will not go unless it was written.                     *)
Awaited(p) == p \in DOMAIN run.prep \ run.written /\ "tech" \in run.prep[p].new
Stored(p) ==
  /\ Exists(page, p) /\ "tech" \in page[p] /\ (p \in DOMAIN run.prep => p \in run.written)
  /\ WrittenIsGone \/ ("resource" \in page[p] /\ (p \in run.written \/ p \notin DOMAIN run.dels))

Carried ==
  deletedByUser = {} =>
    /\ run.at \in Preparing => \A p \in Existing(run.pages) : Exists(page, p) /\ run.pages[p] \subseteq page[p]
    /\ run.at = "remove" =>
         /\ Exists(page, run.item) /\ Exists(page, Canonical)
         /\ page[run.item] \ {"mine", "resource"} \subseteq page[Canonical]
    /\ run.at \in {"write", "put"} \cup Removing \cup Closing => \E p \in Pages : Awaited(p) \/ Stored(p)

(* The articles of the source are read from the files.                     *)
Listed == run.at \in {"backlink", "putback"} => OfSource(run.files) \subseteq Existing(page) \cup deletedByUser

Inv ==
  /\ Shaped /\ Trace /\ Prepared /\ Doomed /\ InTurn /\ Recorded /\ Carried /\ Listed
  /\ RecordsKept /\ IngestedIsThere /\ ArticlesExist

LEMMA Initial == ASSUME PagesAssumption, Init PROVE Inv
  <1>1. page \in [Pages -> Contents] /\ idx \in [Pages -> Contents]
    <2>1. {NoPage, {"tech"}, {"tech", "resource"}} \subseteq Contents
      BY DEF Contents, Said
    <2>2. page \in [Pages -> Contents]
      BY <2>1 DEF Init
    <2>3. [p \in Pages |-> NoPage] \in [Pages -> Contents]
      BY <2>1
    <2> QED BY <2>2, <2>3 DEF Init
  <1>2. Shaped
    BY <1>1 DEF Init, Shaped, Places, Empty
  <1>3. Trace /\ Listed /\ RecordsKept /\ IngestedIsThere /\ ArticlesExist /\ Recorded
    BY <1>2 DEF Init, Trace, Listed, RecordsKept, IngestedIsThere, ArticlesExist, Recorded
  <1>4. Prepared /\ Doomed /\ InTurn
    BY <1>2 DEF Init, Prepared, Doomed, InTurn, Empty, Preparing, Removing, Closing
  <1>5. Carried
    BY <1>2 DEF Init, Carried, Preparing, Removing, Closing
  <1> QED BY <1>2, <1>3, <1>4, <1>5 DEF Inv

(* A way out of the function that is not through the restoration.          *)
LEMMA FailsKeeps ==
  ASSUME PagesAssumption, Inv, NEW o, o # "ok", Fails(o), run.at \notin Removing \cup {"end"},
         run.at \in {"read", "load"} => o \in {"read", "context"}
  PROVE  Inv'
  <1>1. /\ run'.at = "end" /\ run'.outcome = o /\ run'.pages = run.pages /\ run'.files = run.files
        /\ run'.acts = run.acts /\ run'.prep = run.prep /\ run'.dels = run.dels /\ run'.written = run.written
        /\ run'.life = (IF run.life \in {"none", "completed"} THEN run.life ELSE IF aborted THEN "cancelled" ELSE "failed")
        /\ Shaped'
    BY DEF Inv, Shaped, Fails, End, disk, world, Places, vars
  <1>2. UNCHANGED <<page, idx, source, aborted, edits, deletedByUser, slipped>>
    BY DEF Fails, disk, world
  <1>3. Trace'
    BY <1>1 DEF Inv, Trace
  <1>4. Prepared' /\ Doomed'
    BY <1>1, <1>2 DEF Inv, Prepared, Doomed, Exists, Existing
  <1>5. InTurn'
    BY <1>1, <1>2 DEF Inv, InTurn, Preparing, Removing, Closing
  <1>6. Recorded' /\ Listed' /\ Carried'
    BY <1>1 DEF Recorded, Listed, Carried, Preparing, Removing, Closing
  <1>7. RecordsKept' /\ IngestedIsThere' /\ ArticlesExist'
    BY <1>1, <1>2 DEF Inv, Recorded, RecordsKept, IngestedIsThere, ArticlesExist, Existing, Exists
  <1> QED BY <1>1, <1>3, <1>4, <1>5, <1>6, <1>7 DEF Inv

(* A step that only moves the run on, within one phase.                    *)
LEMMA GoesKeeps ==
  ASSUME PagesAssumption, Inv, NEW to, Goes(to), UNCHANGED <<disk, world, slipped>>,
         <<run.at, to>> \in {<<"evidence", "retrieve">>, <<"retrieve", "synthesize">>, <<"embed", "final">>,
                             <<"remove", "restore">>}
  PROVE  Inv'
  <1>1. /\ run'.at = to /\ run'.body = run.body /\ run'.pages = run.pages /\ run'.files = run.files
        /\ run'.acts = run.acts /\ run'.prep = run.prep /\ run'.dels = run.dels /\ run'.written = run.written
        /\ run'.item = run.item /\ run'.seen = run.seen /\ run'.removed = run.removed
        /\ run'.life = run.life /\ run'.outcome = run.outcome
        /\ Shaped'
    BY DEF Inv, Shaped, Goes, disk, world, Places
  <1>2. UNCHANGED <<page, idx, source, aborted, edits, deletedByUser, slipped>>
    BY DEF disk, world
  <1>3. Trace'
    BY <1>1 DEF Inv, Trace
  <1>4. Prepared' /\ Doomed'
    BY <1>1, <1>2 DEF Inv, Prepared, Doomed, Exists, Existing
  <1>5. InTurn'
    BY <1>1, <1>2 DEF Inv, InTurn, Preparing, Removing, Closing, Canonical, Exists
  <1>6. Recorded' /\ Listed'
    BY <1>1, <1>2 DEF Inv, Recorded, Listed, Removing, Exists, Existing, OfSource
  <1>7. Carried'
    BY <1>1, <1>2 DEF Inv, Carried, Preparing, Removing, Closing, Awaited, Stored, WrittenIsGone, Exists, Existing,
                      Canonical
  <1>8. RecordsKept' /\ IngestedIsThere' /\ ArticlesExist'
    BY <1>1, <1>2 DEF Inv, Trace, RecordsKept, IngestedIsThere, ArticlesExist
  <1> QED BY <1>1, <1>3, <1>4, <1>5, <1>6, <1>7, <1>8 DEF Inv

LEMMA ReadSourceKeeps == ASSUME PagesAssumption, Inv, ReadSource PROVE Inv'
  <1>1. CASE Fails("read")
    BY <1>1, FailsKeeps DEF ReadSource, Removing
  <1>2. CASE run' = [run EXCEPT !.at = "load", !.body = source.body] /\ UNCHANGED <<disk, world, slipped>>
    <2>1. /\ run'.at = "load" /\ run'.pages = run.pages /\ run'.files = run.files
          /\ run'.acts = run.acts /\ run'.prep = run.prep /\ run'.dels = run.dels /\ run'.written = run.written
          /\ run'.life = run.life /\ run'.outcome = run.outcome
          /\ Shaped'
      BY <1>2 DEF Inv, Shaped, disk, world, Places
    <2>2. Trace' /\ Prepared' /\ Doomed' /\ InTurn'
      BY <1>2, <2>1 DEF ReadSource, Inv, Trace, Prepared, Doomed, InTurn, Exists, Existing, Preparing, Removing, Closing
    <2>3. Recorded' /\ Carried' /\ Listed' /\ RecordsKept' /\ IngestedIsThere' /\ ArticlesExist'
      BY <2>1 DEF ReadSource, Inv, Trace, Recorded, Carried, Listed, RecordsKept, IngestedIsThere, ArticlesExist,
                  Preparing, Removing, Closing
    <2> QED BY <2>1, <2>2, <2>3 DEF Inv
  <1> QED BY <1>1, <1>2 DEF ReadSource

LEMMA LoadPagesKeeps == ASSUME PagesAssumption, Inv, LoadPages PROVE Inv'
  <1>1. CASE Fails("context")
    BY <1>1, FailsKeeps DEF LoadPages, Removing
  <1>2. CASE ~Fails("context")
    <2>1. /\ run'.at = "evidence" /\ run'.pages = page /\ run'.files = run.files /\ run.at = "load"
          /\ run'.acts = run.acts /\ run'.prep = run.prep /\ run'.dels = run.dels /\ run'.written = run.written
          /\ run'.life = run.life /\ run'.outcome = run.outcome /\ idx' = page
          /\ UNCHANGED <<page, source, aborted, edits, deletedByUser, slipped>>
          /\ Shaped'
      BY <1>2 DEF LoadPages, Inv, Shaped, world, Places
    <2>2. DOMAIN run.acts = {} /\ DOMAIN run.prep = {} /\ DOMAIN run.dels = {}
      BY <2>1 DEF Inv, Prepared, Empty
    <2>3. Trace' /\ Prepared' /\ Doomed' /\ InTurn'
      BY <2>1, <2>2 DEF Inv, Trace, Prepared, Doomed, InTurn, Preparing, Removing, Closing
    <2>4. Recorded' /\ Carried' /\ Listed' /\ RecordsKept' /\ IngestedIsThere' /\ ArticlesExist'
      BY <2>1 DEF Inv, Trace, Recorded, Carried, Listed, RecordsKept, IngestedIsThere, ArticlesExist,
                  Preparing, Removing, Closing, Existing, Exists
    <2> QED BY <2>1, <2>3, <2>4 DEF Inv
  <1> QED BY <1>1, <1>2

LEMMA SynthesizeKeeps == ASSUME PagesAssumption, Inv, Synthesize PROVE Inv'
  <1>1. CASE Fails("synthesis") \/ Fails("context") \/ Fails("patch")
    BY <1>1, FailsKeeps DEF Synthesize, Removing
  <1>2. ASSUME NEW plan \in Plans,
               run' = [run EXCEPT !.at = "prepare", !.acts = plan, !.routed = DOMAIN plan,
                                  !.life = IF plan = Empty THEN "none" ELSE "validating"],
               UNCHANGED <<disk, world, slipped>>
        PROVE  Inv'
    <2>1. /\ run'.at = "prepare" /\ run'.pages = run.pages /\ run'.files = run.files /\ run.at = "synthesize"
          /\ run'.acts = plan /\ run'.prep = run.prep /\ run'.dels = run.dels /\ run'.written = run.written
          /\ run'.life \in {"none", "validating"} /\ run'.outcome = run.outcome
          /\ UNCHANGED <<page, idx, source, aborted, edits, deletedByUser, slipped>>
          /\ Shaped'
      BY <1>2 DEF Synthesize, Inv, Shaped, disk, world, Places
    <2>2. DOMAIN plan \subseteq Pages /\ \A p \in DOMAIN plan : plan[p] \in SUBSET Said
      BY DEF Plans, Said
    <2>3. Prepared'
      BY <2>1, <2>2 DEF Inv, Prepared, Exists
    <2>4. Trace' /\ Doomed' /\ InTurn'
      BY <2>1, <2>2 DEF Inv, Trace, Doomed, InTurn, Preparing, Removing, Closing, Existing, Exists
    <2>5. Recorded' /\ Carried' /\ Listed' /\ RecordsKept' /\ IngestedIsThere' /\ ArticlesExist'
      BY <2>1 DEF Inv, Trace, Recorded, Carried, Listed, RecordsKept, IngestedIsThere, ArticlesExist,
                  Preparing, Removing, Closing, Existing, Exists
    <2> QED BY <2>1, <2>3, <2>4, <2>5 DEF Inv
  <1> QED BY <1>1, <1>2 DEF Synthesize

(* A change is settled or dropped while the run prepares.                  *)
LEMMA ChangeKeeps ==
  ASSUME PagesAssumption, Inv, run.at \in {"prepare", "regenerate"}, NEW p,
         UNCHANGED <<disk, world, slipped>>,
         run'.at = "prepare", run'.acts = Rest(p), run'.pages = run.pages, run'.files = run.files,
         run'.written = run.written, run'.life = run.life, run'.outcome = run.outcome,
         Shaped', Doomed',
         \A q \in DOMAIN run'.prep :
           \/ q \in DOMAIN run.prep /\ run'.prep[q] = run.prep[q]
           \/ /\ q \in Pages /\ run'.prep[q].new \in SUBSET Said /\ "resource" \in run'.prep[q].new
              /\ run'.prep[q].old # NoPage => run'.prep[q].old \subseteq run'.prep[q].new
              /\ Exists(run.pages, q) => run'.prep[q].old # NoPage
  PROVE  Inv'
  <1>1. UNCHANGED <<page, idx, source, aborted, edits, deletedByUser, slipped>>
    BY DEF disk, world
  <1>2. \A q \in DOMAIN run'.acts : q \in DOMAIN run.acts /\ run'.acts[q] = run.acts[q]
    BY DEF Rest, Restrict
  <1>3. Prepared'
    BY <1>2 DEF Inv, Prepared, Exists
  <1>4. Trace' /\ InTurn'
    BY <1>1 DEF Inv, Trace, InTurn, Preparing, Removing, Closing
  <1>5. Recorded' /\ Carried' /\ Listed' /\ RecordsKept' /\ IngestedIsThere' /\ ArticlesExist'
    BY <1>1 DEF Inv, Trace, Recorded, Carried, Listed, RecordsKept, IngestedIsThere, ArticlesExist,
                Preparing, Removing, Closing, Existing, Exists
  <1> QED BY <1>3, <1>4, <1>5 DEF Inv

LEMMA DeferredKeeps ==
  ASSUME PagesAssumption, Inv, run.at \in {"prepare", "regenerate"}, NEW p, NEW dels, Deferred(p, dels),
         \A d \in DOMAIN dels :
           /\ d \in Existing(run.pages) /\ dels[d].canonical \in Existing(run.pages) \ {d}
           /\ dels[d].text \in SUBSET Said
  PROVE  Inv'
  <1>1. /\ run'.at = "prepare" /\ run'.acts = Rest(p) /\ run'.pages = run.pages /\ run'.files = run.files
        /\ run'.written = run.written /\ run'.life = run.life /\ run'.outcome = run.outcome
        /\ run'.prep = run.prep /\ run'.dels = dels /\ UNCHANGED <<disk, world, slipped>> /\ Shaped'
    BY DEF Inv, Shaped, Deferred, disk, world, Places
  <1>2. Doomed'
    BY <1>1 DEF Doomed, Existing, Exists
  <1> QED BY <1>1, <1>2, ChangeKeeps

LEMMA SettleKeeps ==
  ASSUME PagesAssumption, Inv, run.at \in {"prepare", "regenerate"}, NEW p, NEW path \in Pages,
         NEW old, NEW new \in SUBSET Said, NEW dels, Settle(p, path, old, new, dels),
         old # NoPage => old \subseteq new, Exists(run.pages, path) => old # NoPage,
         \A d \in DOMAIN dels :
           /\ d \in Existing(run.pages) /\ dels[d].canonical \in Existing(run.pages) \ {d}
           /\ dels[d].text \in SUBSET Said
  PROVE  Inv'
  <1>1. CASE path \in DOMAIN run.prep
    BY <1>1, FailsKeeps DEF Settle, Removing
  <1>2. CASE path \notin DOMAIN run.prep
    <2>1. /\ run'.at = "prepare" /\ run'.acts = Rest(p) /\ run'.pages = run.pages /\ run'.files = run.files
          /\ run'.written = run.written /\ run'.life = run.life /\ run'.outcome = run.outcome
          /\ run'.prep = [q \in DOMAIN run.prep \cup {path} |->
                            IF q = path THEN [old |-> old, new |-> new \cup {"resource"}] ELSE run.prep[q]]
          /\ run'.dels = dels /\ UNCHANGED <<disk, world, slipped>> /\ Shaped'
      BY <1>2 DEF Inv, Shaped, Settle, disk, world, Places
    <2>2. Doomed'
      BY <2>1 DEF Doomed, Existing, Exists
    <2>3. new \cup {"resource"} \in SUBSET Said
      BY DEF Said
    <2> QED BY <2>1, <2>2, <2>3, ChangeKeeps
  <1> QED BY <1>1, <1>2
LEMMA AsksKeeps ==
  ASSUME PagesAssumption, Inv, run.at = "prepare", NEW p \in DOMAIN run.acts, NEW target \in Existing(run.pages),
         NEW kind, Exists(page, target), kind = "patch" => p = target, Asks(p, target, kind)
  PROVE  Inv'
  <1>1. /\ run'.at = "regenerate" /\ run'.fresh = <<p, target, page[target], kind>>
        /\ run'.pages = run.pages /\ run'.files = run.files
        /\ run'.acts = run.acts /\ run'.prep = run.prep /\ run'.dels = run.dels /\ run'.written = run.written
        /\ run'.life = run.life /\ run'.outcome = run.outcome
        /\ UNCHANGED <<page, idx, source, aborted, edits, deletedByUser, slipped>>
        /\ Shaped'
    BY DEF Inv, Shaped, Asks, disk, world, Places
  <1>2. page[target] \in SUBSET Said
    BY DEF Inv, Shaped, Existing, Exists, Contents
  <1>3. Prepared'
    BY <1>1, <1>2 DEF Inv, Prepared, Existing, Exists
  <1>4. Trace' /\ Doomed' /\ InTurn'
    BY <1>1 DEF Inv, Trace, Doomed, InTurn, Preparing, Removing, Closing, Existing, Exists
  <1>5. Recorded' /\ Carried' /\ Listed' /\ RecordsKept' /\ IngestedIsThere' /\ ArticlesExist'
    BY <1>1 DEF Inv, Trace, Recorded, Carried, Listed, RecordsKept, IngestedIsThere, ArticlesExist,
                Preparing, Removing, Closing, Existing, Exists
  <1> QED BY <1>1, <1>3, <1>4, <1>5 DEF Inv

LEMMA PrepareCreateKeeps == ASSUME PagesAssumption, Inv, NEW p \in Pages, PrepareCreate(p) PROVE Inv'
  <1>1. run.at = "prepare" /\ p \in DOMAIN run.acts /\ ~Exists(run.pages, p) /\ run.acts[p] \in SUBSET Said
    BY DEF PrepareCreate, Inv, Prepared
  <1>2. CASE Fails("patch") \/ Fails("thrown")
    BY <1>1, <1>2, FailsKeeps DEF Removing
  <1>3. CASE Settle(p, p, NoPage, run.acts[p], run.dels)
    BY <1>1, <1>3, SettleKeeps DEF Inv, Doomed
  <1>4. ASSUME NEW target \in Existing(run.pages), Exists(page, target), Asks(p, target, "merge") PROVE Inv'
    BY <1>1, <1>4, AsksKeeps
  <1>5. CASE Deferred(p, run.dels)
    BY <1>1, <1>5, DeferredKeeps DEF Inv, Doomed
  <1> QED BY <1>2, <1>3, <1>4, <1>5 DEF PrepareCreate

LEMMA PreparePatchKeeps == ASSUME PagesAssumption, Inv, NEW p \in Pages, PreparePatch(p) PROVE Inv'
  <1>1. run.at = "prepare" /\ p \in DOMAIN run.acts /\ p \in Existing(run.pages) /\ run.acts[p] \in SUBSET Said
    BY DEF PreparePatch, Inv, Prepared, Existing
  <1>2. CASE Fails("patch")
    BY <1>1, <1>2, FailsKeeps DEF Removing
  <1>3. CASE Exists(page, p) /\ Settle(p, p, page[p], page[p] \cup run.acts[p], run.dels)
    <2>1. page[p] \in SUBSET Said /\ page[p] \cup run.acts[p] \in SUBSET Said
      BY <1>1, <1>3 DEF Inv, Shaped, Exists, Contents
    <2>2. page[p] # NoPage
      BY <1>3 DEF Exists
    <2> QED BY <1>1, <1>3, <2>1, <2>2, SettleKeeps DEF Inv, Doomed
  <1>4. CASE Exists(page, p) /\ Asks(p, p, "patch")
    BY <1>1, <1>4, AsksKeeps
  <1> QED BY <1>2, <1>3, <1>4 DEF PreparePatch

LEMMA MergeKeeps == ASSUME PagesAssumption, Inv, Merge PROVE Inv'
  <1> DEFINE p == run.fresh[1]
             target == run.fresh[2]
             seen == run.fresh[3]
             merged == seen \cup run.acts[p]
  <1>1. /\ run.at = "regenerate" /\ p \in DOMAIN run.acts /\ target \in Existing(run.pages) /\ seen \in SUBSET Said
        /\ run.acts[p] \in SUBSET Said
    BY DEF Merge, Inv, Prepared
  <1>2. merged \in SUBSET Said /\ seen # NoPage /\ target \in Pages
    BY <1>1 DEF PagesAssumption, Existing
  <1>3. \A d \in DOMAIN run.dels :
          /\ d \in Existing(run.pages) /\ run.dels[d].canonical \in Existing(run.pages) \ {d}
          /\ run.dels[d].text \in SUBSET Said
    BY DEF Inv, Doomed
  <1>4. CASE Deferred(p, run.dels)
    BY <1>1, <1>3, <1>4, DeferredKeeps
  <1>5. ASSUME NEW D \in SUBSET Noted(target, merged),
               \/ Settle(p, target, seen, merged, WithDeletes(D, target))
               \/ Deferred(p, WithDeletes(D, target))
        PROVE  Inv'
    <2> DEFINE dels == WithDeletes(D, target)
    <2>1. ASSUME NEW d \in DOMAIN dels
          PROVE  /\ d \in Existing(run.pages) /\ dels[d].canonical \in Existing(run.pages) \ {d}
                 /\ dels[d].text \in SUBSET Said
      <3>1. CASE d \in D
        <4>1. d \in Existing(run.pages) \ {target} /\ Exists(page, d) /\ d \in Pages
          BY <3>1 DEF Noted, Existing
        <4>2. page[d] \in SUBSET Said
          BY <4>1 DEF Inv, Shaped, Exists, Contents
        <4>3. dels[d] = [canonical |-> target, text |-> page[d]]
          BY <3>1 DEF WithDeletes
        <4> QED BY <1>1, <4>1, <4>2, <4>3
      <3>2. CASE d \notin D
        BY <1>3, <2>1, <3>2 DEF WithDeletes
      <3> QED BY <3>1, <3>2
    <2> HIDE DEF dels, merged, p, target, seen
    <2>2. CASE Deferred(p, dels)
      BY <1>1, <2>1, <2>2, DeferredKeeps
    <2>3. CASE Settle(p, target, seen, merged, dels)
      <3>1. seen \subseteq merged
        BY DEF merged
      <3> QED BY <1>1, <1>2, <2>1, <2>3, <3>1, SettleKeeps
    <2> QED BY <1>5, <2>2, <2>3 DEF dels
  <1> QED BY <1>4, <1>5 DEF Merge

LEMMA RegenerateKeeps == ASSUME PagesAssumption, Inv, Regenerate PROVE Inv'
  <1> DEFINE p == run.fresh[1]
             seen == run.fresh[3]
  <1>1. /\ run.at = "regenerate" /\ p \in DOMAIN run.acts /\ p \in Pages /\ seen \in SUBSET Said
        /\ run.acts[p] \in SUBSET Said
    BY DEF Regenerate, Inv, Prepared
  <1>2. seen \cup run.acts[p] \in SUBSET Said /\ seen # NoPage
    BY <1>1 DEF PagesAssumption
  <1>3. CASE Fails("patch")
    BY <1>1, <1>3, FailsKeeps DEF Removing
  <1>4. CASE Settle(p, p, seen, seen \cup run.acts[p], run.dels)
    <2> HIDE DEF p, seen
    <2> QED BY <1>1, <1>2, <1>4, SettleKeeps DEF Inv, Doomed
  <1> QED BY <1>3, <1>4 DEF Regenerate

LEMMA CoverKeeps == ASSUME PagesAssumption, Inv, Cover PROVE Inv'
  <1>1. CASE Fails("context") \/ Fails("patch")
    BY <1>1, FailsKeeps DEF Cover, Removing
  <1>2. CASE "tech" \in Represents /\ Goes("write") /\ UNCHANGED <<disk, world, slipped>>
    <2>1. /\ run'.at = "write" /\ run.at = "prepare" /\ run'.pages = run.pages /\ run'.files = run.files
          /\ run'.acts = run.acts /\ run'.prep = run.prep /\ run'.dels = run.dels /\ run'.written = run.written
          /\ run'.life = run.life /\ run'.outcome = run.outcome
          /\ UNCHANGED <<page, idx, source, aborted, edits, deletedByUser, slipped>>
          /\ Shaped'
      BY <1>2 DEF Cover, Goes, Inv, Shaped, disk, world, Places
    <2>2. Trace' /\ Prepared' /\ Doomed' /\ InTurn'
      BY <2>1 DEF Inv, Trace, Prepared, Doomed, InTurn, Preparing, Removing, Closing, Existing, Exists
    <2>3. Recorded' /\ Listed' /\ RecordsKept' /\ IngestedIsThere' /\ ArticlesExist'
      BY <2>1 DEF Inv, Trace, Recorded, Listed, RecordsKept, IngestedIsThere, ArticlesExist,
                  Removing, Existing, Exists
    <2>4. ASSUME deletedByUser = {} PROVE \E p \in Pages : Awaited(p) \/ Stored(p)
      <3>1. run.written = {} /\ \A p \in Existing(run.pages) : Exists(page, p) /\ run.pages[p] \subseteq page[p]
        BY <2>1, <2>4 DEF Inv, InTurn, Carried, Preparing
      <3>2. CASE \E p \in DOMAIN run.prep : "tech" \in run.prep[p].new
        BY <3>1, <3>2 DEF Inv, Prepared, Awaited
      <3>3. CASE \E p \in OfSource(run.pages) \ (DOMAIN run.prep \cup DOMAIN run.dels) : "tech" \in run.pages[p]
        <4>1. PICK p \in OfSource(run.pages) : p \notin DOMAIN run.prep /\ p \notin DOMAIN run.dels /\ "tech" \in run.pages[p]
          BY <3>3
        <4>2. p \in Existing(run.pages) /\ p \in Pages /\ "resource" \in run.pages[p]
          BY DEF OfSource, Existing
        <4> QED BY <3>1, <4>1, <4>2 DEF Stored
      <3> QED BY <1>2, <3>2, <3>3 DEF Represents
    <2>5. Carried'
      BY <2>1, <2>4 DEF Carried, Preparing, Awaited, Stored, WrittenIsGone, Exists
    <2> QED BY <2>1, <2>2, <2>3, <2>5 DEF Inv
  <1> QED BY <1>1, <1>2 DEF Cover

LEMMA CheckPageKeeps == ASSUME PagesAssumption, Inv, NEW p \in Pages, CheckPage(p) PROVE Inv'
  <1>1. CASE Fails("write") \/ Fails("thrown")
    BY <1>1, FailsKeeps DEF CheckPage, Removing
  <1>2. CASE /\ page[p] = run.prep[p].old /\ slipped' = slipped \ {p} /\ UNCHANGED <<disk, world>>
             /\ run' = [run EXCEPT !.at = "put", !.item = p, !.life = IF @ = "validating" THEN "applying" ELSE @]
    <2>1. /\ run'.at = "put" /\ run.at = "write" /\ run'.pages = run.pages /\ run'.files = run.files
          /\ run'.acts = run.acts /\ run'.prep = run.prep /\ run'.dels = run.dels /\ run'.written = run.written
          /\ run'.item = p /\ run'.outcome = run.outcome
          /\ run'.life = (IF run.life = "validating" THEN "applying" ELSE run.life)
          /\ UNCHANGED <<page, idx, source, aborted, edits, deletedByUser>>
          /\ Shaped'
      BY <1>2 DEF CheckPage, Inv, Shaped, disk, world, Places
    <2>2. p \in DOMAIN run.prep \ run.written
      BY DEF CheckPage
    <2>3. Trace' /\ Prepared' /\ Doomed'
      BY <2>1 DEF Inv, Trace, Prepared, Doomed, Existing, Exists
    <2>4. InTurn'
      BY <1>2, <2>1, <2>2 DEF Inv, Prepared, InTurn, Preparing, Removing, Closing, Exists
    <2>5. Recorded' /\ Listed' /\ RecordsKept' /\ IngestedIsThere' /\ ArticlesExist'
      BY <2>1 DEF Inv, Trace, Recorded, Listed, RecordsKept, IngestedIsThere, ArticlesExist,
                  Removing, Existing, Exists
    <2>6. Carried'
      BY <2>1 DEF Inv, Carried, Preparing, Removing, Closing, Awaited, Stored, WrittenIsGone, Exists
    <2> QED BY <2>1, <2>3, <2>4, <2>5, <2>6 DEF Inv
  <1> QED BY <1>1, <1>2 DEF CheckPage

LEMMA PutPageKeeps == ASSUME PagesAssumption, Inv, PutPage PROVE Inv'
  <1>1. CASE Fails("write")
    BY <1>1, FailsKeeps DEF PutPage, Removing
  <1>2. CASE /\ page' = [page EXCEPT ![run.item] = run.prep[run.item].new]
             /\ run' = [run EXCEPT !.at = "write", !.written = @ \cup {run.item}]
             /\ UNCHANGED <<idx, source, world, slipped>>
    <2> DEFINE item == run.item
               new == run.prep[run.item].new
    <2>1. /\ run.at = "put" /\ item \in DOMAIN run.prep /\ item \notin run.written /\ item \in Pages
          /\ new \in SUBSET Said /\ "resource" \in new /\ new # NoPage
          /\ Exists(run.pages, item) => Exists(page, item) \/ item \in deletedByUser
      BY DEF PutPage, Inv, InTurn, Prepared, PagesAssumption
    <2>2. page' \in [Pages -> Contents] /\ page'[item] = new /\ \A q \in Pages \ {item} : page'[q] = page[q]
      BY <1>2, <2>1 DEF Inv, Shaped, Contents
    <2>3. /\ run'.at = "write" /\ run'.pages = run.pages /\ run'.files = run.files
          /\ run'.acts = run.acts /\ run'.prep = run.prep /\ run'.dels = run.dels
          /\ run'.written = run.written \cup {item}
          /\ run'.outcome = run.outcome /\ run'.life = run.life
          /\ UNCHANGED <<idx, source, aborted, edits, deletedByUser, slipped>>
          /\ Shaped'
      BY <1>2, <2>2 DEF Inv, Shaped, world, Places
    <2>4. Trace' /\ Prepared' /\ Doomed'
      BY <2>1, <2>3 DEF Inv, Trace, Prepared, Doomed, Existing, Exists
    <2>5. InTurn'
      BY <2>1, <2>3 DEF Inv, InTurn, Preparing, Removing, Closing
    <2>6. Recorded'
      <3> SUFFICES ASSUME NEW p \in Existing(run.pages) \ deletedByUser, Exists(page', p) PROVE Exists(idx, p)
        BY <2>3 DEF Recorded, Removing, Exists, Existing
      <3>1. Exists(page, p)
        BY <2>1, <2>2 DEF Exists, Existing
      <3> QED BY <2>1, <3>1 DEF Inv, Recorded, Removing
    <2>7. Listed' /\ RecordsKept' /\ IngestedIsThere' /\ ArticlesExist'
      BY <2>1, <2>3 DEF Inv, Trace, Listed, RecordsKept, IngestedIsThere, ArticlesExist
    <2>8. ASSUME deletedByUser = {} PROVE \E p \in Pages : Awaited(p)' \/ Stored(p)'
      <3>1. PICK p \in Pages : Awaited(p) \/ Stored(p)
        BY <2>1, <2>8 DEF Inv, Carried
      <3>2. CASE Awaited(p) /\ p # item
        BY <2>3, <3>2 DEF Awaited
      <3>3. CASE Awaited(p) /\ p = item
        BY <2>1, <2>2, <2>3, <3>3 DEF Awaited, Stored, Exists
      <3>4. CASE Stored(p)
        <4>1. p # item
          BY <2>1, <3>4 DEF Stored
        <4>2. ASSUME WrittenIsGone PROVE WrittenIsGone'
          <5>1. PICK q \in run.written : Exists(run.pages, q) /\ ~Exists(page, q)
            BY <4>2 DEF WrittenIsGone
          <5>2. q \in Pages /\ q # item
            BY <2>1 DEF Inv, InTurn, Prepared
          <5> QED BY <2>2, <2>3, <5>1, <5>2 DEF WrittenIsGone, Exists
        <4> QED BY <2>2, <2>3, <3>4, <4>1, <4>2 DEF Stored, Exists
      <3> QED BY <3>1, <3>2, <3>3, <3>4
    <2>9. Carried'
      BY <2>3, <2>8 DEF Carried, Preparing
    <2> QED BY <2>3, <2>4, <2>5, <2>6, <2>7, <2>9 DEF Inv
  <1> QED BY <1>1, <1>2 DEF PutPage

LEMMA RemoveRecordKeeps == ASSUME PagesAssumption, Inv, NEW d \in Pages, RemoveRecord(d) PROVE Inv'
  <1>1. CASE Fails("write")
    BY <1>1, FailsKeeps DEF RemoveRecord, Written, Removing
  <1>2. CASE /\ page[d] = run.dels[d].text /\ Exists(page, run.dels[d].canonical)
             /\ Represented(page[run.dels[d].canonical], page[d])
             /\ run' = [run EXCEPT !.at = "recheck", !.item = d, !.seen = page[run.dels[d].canonical],
                                   !.removed = idx[d]]
             /\ idx' = [idx EXCEPT ![d] = NoPage]
             /\ UNCHANGED <<page, source, world, slipped>>
    <2>1. /\ run.at = "write" /\ run.written = DOMAIN run.prep /\ d \in DOMAIN run.dels
          /\ run.dels[d].canonical \in Pages
      BY DEF RemoveRecord, Written, Inv, Doomed, Existing
    <2>2. idx' \in [Pages -> Contents] /\ \A q \in Pages \ {d} : idx'[q] = idx[q]
      BY <1>2 DEF Inv, Shaped, Contents
    <2>3. /\ run'.at = "recheck" /\ run'.pages = run.pages /\ run'.files = run.files
          /\ run'.acts = run.acts /\ run'.prep = run.prep /\ run'.dels = run.dels /\ run'.written = run.written
          /\ run'.item = d /\ run'.seen = page[run.dels[d].canonical] /\ run'.removed = idx[d]
          /\ run'.outcome = run.outcome /\ run'.life = run.life
          /\ UNCHANGED <<page, source, aborted, edits, deletedByUser, slipped>>
          /\ Shaped'
      BY <1>2, <2>2 DEF Inv, Shaped, world, Places
    <2>4. Trace' /\ Prepared' /\ Doomed'
      BY <2>1, <2>3 DEF Inv, Trace, Prepared, Doomed, Existing, Exists
    <2>5. page[run.dels[d].canonical] \in SUBSET Said /\ idx[d] \in Contents
      BY <1>2, <2>1 DEF Inv, Shaped, Exists, Contents
    <2>6. InTurn'
      BY <1>2, <2>1, <2>3, <2>5 DEF Inv, InTurn, Represented, Preparing, Removing, Closing
    <2>7. Recorded'
      <3> SUFFICES ASSUME NEW p \in Existing(run.pages) \ deletedByUser, Exists(page, p)
                   PROVE  IF p = d THEN idx[d] \in SUBSET Said ELSE Exists(idx', p)
        BY <2>3 DEF Recorded, Exists, Existing, Removing
      <3>1. Exists(idx, p) /\ p \in Pages
        BY <2>1 DEF Inv, Recorded, Removing, Existing
      <3> QED BY <2>2, <3>1 DEF Inv, Shaped, Exists, Contents
    <2>8. Listed' /\ RecordsKept' /\ IngestedIsThere' /\ ArticlesExist'
      BY <2>1, <2>3 DEF Inv, Trace, Listed, RecordsKept, IngestedIsThere, ArticlesExist
    <2>9. Carried'
      BY <2>1, <2>3 DEF Inv, Carried, Preparing, Removing, Closing, Awaited, Stored, WrittenIsGone, Exists
    <2> QED BY <2>3, <2>4, <2>6, <2>7, <2>8, <2>9 DEF Inv
  <1> QED BY <1>1, <1>2 DEF RemoveRecord
LEMMA RecheckKeeps == ASSUME PagesAssumption, Inv, Recheck PROVE Inv'
  <1> DEFINE d == run.item
             c == run.dels[run.item].canonical
  <1>1. /\ run.at = "recheck" /\ d \in DOMAIN run.dels /\ d \in Pages /\ c \in Pages
        /\ run.dels[d].text \in SUBSET Said /\ run.seen \in SUBSET Said
        /\ run.dels[d].text \ {"resource"} \subseteq run.seen
    BY DEF Recheck, Inv, InTurn, Doomed, Removing, Existing
  <1>2. /\ run'.at \in {"remove", "restore"} /\ run'.pages = run.pages /\ run'.files = run.files
        /\ run'.acts = run.acts /\ run'.prep = run.prep /\ run'.dels = run.dels /\ run'.written = run.written
        /\ run'.item = run.item /\ run'.seen = run.seen /\ run'.removed = run.removed
        /\ run'.outcome = run.outcome /\ run'.life = run.life
        /\ run'.at = "remove" => page[d] = run.dels[d].text /\ page[c] = run.seen
        /\ UNCHANGED <<page, idx, source, aborted, edits, deletedByUser>>
        /\ Shaped'
    BY DEF Recheck, Goes, Canonical, Inv, Shaped, disk, world, Places
  <1>3. Trace' /\ Prepared' /\ Doomed'
    BY <1>1, <1>2 DEF Inv, Trace, Prepared, Doomed, Existing, Exists
  <1>4. InTurn'
    BY <1>1, <1>2 DEF Inv, InTurn, Canonical, Preparing, Removing, Closing
  <1>5. Recorded' /\ Listed' /\ RecordsKept' /\ IngestedIsThere' /\ ArticlesExist'
    BY <1>1, <1>2 DEF Inv, Trace, Recorded, Listed, RecordsKept, IngestedIsThere, ArticlesExist,
                      Removing, Existing, Exists
  <1>6. run'.at = "remove" => /\ Exists(page, d) /\ Exists(page, c)
                              /\ page[d] \ {"mine", "resource"} \subseteq page[c]
    BY <1>1, <1>2 DEF PagesAssumption, Exists
  <1>7. Carried'
    BY <1>1, <1>2, <1>6 DEF Inv, Carried, Canonical, Preparing, Removing, Closing, Awaited, Stored, WrittenIsGone, Exists
  <1> QED BY <1>2, <1>3, <1>4, <1>5, <1>7 DEF Inv

LEMMA RemoveFileKeeps == ASSUME PagesAssumption, Inv, RemoveFile PROVE Inv'
  <1>1. CASE Goes("restore") /\ UNCHANGED page
    BY <1>1, GoesKeeps DEF RemoveFile, disk
  <1>2. CASE /\ page' = [page EXCEPT ![run.item] = NoPage]
             /\ run' = [run EXCEPT !.at = "write", !.dels = Restrict(@, DOMAIN @ \ {run.item})]
             /\ UNCHANGED <<idx, source, world, slipped>>
    <2> DEFINE d == run.item
               c == run.dels[run.item].canonical
    <2>1. /\ run.at = "remove" /\ d \in DOMAIN run.dels /\ d \in Pages /\ c \in Pages /\ c # d
          /\ d \in Existing(run.pages) /\ run.written = DOMAIN run.prep
      BY DEF RemoveFile, Inv, InTurn, Doomed, Removing, Existing
    <2>2. page' \in [Pages -> Contents] /\ page'[d] = NoPage /\ \A q \in Pages \ {d} : page'[q] = page[q]
      BY <1>2, <2>1 DEF Inv, Shaped, Contents
    <2>3. /\ run'.at = "write" /\ run'.pages = run.pages /\ run'.files = run.files
          /\ run'.acts = run.acts /\ run'.prep = run.prep /\ run'.written = run.written
          /\ run'.dels = Restrict(run.dels, DOMAIN run.dels \ {d})
          /\ run'.outcome = run.outcome /\ run'.life = run.life
          /\ UNCHANGED <<idx, source, aborted, edits, deletedByUser, slipped>>
          /\ Shaped'
      BY <1>2, <2>2 DEF Inv, Shaped, world, Places
    <2>4. /\ DOMAIN run'.dels = DOMAIN run.dels \ {d}
          /\ \A q \in DOMAIN run'.dels : run'.dels[q] = run.dels[q]
      BY <2>3 DEF Restrict
    <2>5. Trace' /\ Prepared'
      BY <2>1, <2>3, <2>4 DEF Inv, Trace, Prepared, Existing, Exists
    <2>6. InTurn'
      BY <2>1, <2>3 DEF Inv, InTurn, Preparing, Removing, Closing
    <2>7. Recorded'
      <3> SUFFICES ASSUME NEW p \in Existing(run.pages) \ deletedByUser, Exists(page', p) PROVE Exists(idx, p)
        BY <2>3 DEF Recorded, Removing, Exists, Existing
      <3>1. p # d /\ Exists(page, p)
        BY <2>2 DEF Exists, Existing
      <3> QED BY <2>1, <3>1 DEF Inv, Recorded, Removing
    <2>8. Listed' /\ RecordsKept' /\ IngestedIsThere' /\ ArticlesExist'
      BY <2>1, <2>3 DEF Inv, Trace, Listed, RecordsKept, IngestedIsThere, ArticlesExist
    <2>9. ASSUME deletedByUser = {} PROVE \E p \in Pages : Awaited(p)' \/ Stored(p)'
      <3>1. PICK p \in Pages : Stored(p)
        BY <2>1, <2>9 DEF Inv, Carried, Removing, Awaited
      <3>2. WrittenIsGone => WrittenIsGone'
        BY <2>1, <2>2, <2>3 DEF WrittenIsGone, Exists, Inv, InTurn, Prepared
      <3>3. CASE p # d
        BY <2>2, <2>3, <2>4, <3>1, <3>2, <3>3 DEF Stored, Exists
      <3>4. CASE p = d
        <4>1. /\ Exists(page, d) /\ Exists(page, c) /\ page[d] \ {"mine", "resource"} \subseteq page[c]
          BY <2>1, <2>9 DEF Inv, Carried, Canonical
        <4>2. "tech" \in page'[c] /\ Exists(page', c) /\ (c \in DOMAIN run'.prep => c \in run'.written)
          BY <2>1, <2>2, <2>3, <3>1, <3>4, <4>1 DEF Stored, Exists
        <4>3. WrittenIsGone'
          <5>1. CASE WrittenIsGone
            BY <3>2, <5>1
          <5>2. CASE d \in run.written
            BY <2>1, <2>2, <2>3, <5>2 DEF WrittenIsGone, Existing, Exists
          <5> QED BY <2>1, <3>1, <3>4, <5>1, <5>2 DEF Stored
        <4> QED BY <2>1, <4>2, <4>3 DEF Stored
      <3> QED BY <3>3, <3>4
    <2>10. Carried'
      BY <2>3, <2>9 DEF Carried, Preparing
    <2>11. Doomed'
      <3> SUFFICES ASSUME NEW q \in DOMAIN run.dels \ {d}
                   PROVE  /\ q \in Existing(run.pages) /\ run.dels[q].canonical \in Existing(run.pages) \ {q}
                          /\ run.dels[q].text \in SUBSET Said
        BY <2>3, <2>4 DEF Doomed, Existing, Exists
      <3> QED BY DEF Inv, Doomed
    <2> QED BY <2>3, <2>5, <2>6, <2>7, <2>8, <2>10, <2>11 DEF Inv
  <1> QED BY <1>1, <1>2 DEF RemoveFile

LEMMA RestoreKeeps == ASSUME PagesAssumption, Inv, Restore PROVE Inv'
  <1> DEFINE d == run.item
  <1>1. PICK o \in {"write", "thrown"} :
          /\ End(o)
          /\ \/ Exists(page, d) /\ idx' = [idx EXCEPT ![d] = run.removed]
             \/ (o = "thrown" \/ ~Exists(page, d)) /\ UNCHANGED idx
    BY DEF Restore
  <1>2. /\ run.at = "restore" /\ d \in DOMAIN run.dels /\ d \in Pages /\ run.removed \in Contents
        /\ UNCHANGED <<page, source, aborted, edits, deletedByUser, slipped>>
    BY DEF Restore, Inv, InTurn, Doomed, Removing, Existing, world
  <1>3. /\ idx' \in [Pages -> Contents]
        /\ \A p \in Pages \ {d} : idx'[p] = idx[p]
        /\ o = "write" /\ Exists(page, d) => idx'[d] = run.removed
    BY <1>1, <1>2 DEF Inv, Shaped
  <1>4. /\ run'.at = "end" /\ run'.outcome = o /\ run'.pages = run.pages /\ run'.files = run.files
        /\ run'.acts = run.acts /\ run'.prep = run.prep /\ run'.dels = run.dels /\ run'.written = run.written
        /\ run'.life = (IF run.life \in {"none", "completed"} THEN run.life ELSE IF aborted THEN "cancelled" ELSE "failed")
        /\ Shaped'
    BY <1>1, <1>2, <1>3 DEF Inv, Shaped, End, Places
  <1>5. Trace' /\ Prepared' /\ Doomed'
    BY <1>2, <1>4 DEF Inv, Trace, Prepared, Doomed, Exists, Existing
  <1>6. InTurn'
    BY <1>4 DEF Inv, InTurn, Preparing, Removing, Closing
  <1>7. Recorded' /\ Listed' /\ Carried' /\ IngestedIsThere' /\ ArticlesExist'
    BY <1>4 DEF Recorded, Listed, Carried, IngestedIsThere, ArticlesExist, Preparing, Removing, Closing
  <1>8. RecordsKept'
    <2> SUFFICES ASSUME o = "write", NEW p \in Existing(run.pages) \ deletedByUser, Exists(page, p) PROVE Exists(idx', p)
      BY <1>2, <1>4 DEF RecordsKept, Exists, Existing
    <2>1. IF p = d THEN run.removed \in SUBSET Said ELSE Exists(idx, p)
      BY <1>2 DEF Inv, Recorded, Removing
    <2>2. CASE p = d
      BY <1>2, <1>3, <2>1, <2>2 DEF PagesAssumption, Exists
    <2>3. CASE p # d
      BY <1>3, <2>1, <2>3 DEF Exists, Existing
    <2> QED BY <2>2, <2>3
  <1> QED BY <1>4, <1>5, <1>6, <1>7, <1>8 DEF Inv

(* A step after the writes, which reads the files at most.                 *)
LEMMA ReconcileKeeps == ASSUME PagesAssumption, Inv, Reconcile PROVE Inv'
  <1>1. CASE Fails("index")
    BY <1>1, FailsKeeps DEF Reconcile, Written, Removing
  <1>2. CASE idx' = page /\ Goes("embed") /\ UNCHANGED <<page, source, world, slipped>>
    <2>1. /\ run'.at = "embed" /\ run.at = "write" /\ run'.pages = run.pages /\ run'.files = run.files
          /\ run'.acts = run.acts /\ run'.prep = run.prep /\ run'.dels = run.dels /\ run'.written = run.written
          /\ run'.life = run.life /\ run'.outcome = run.outcome /\ idx' = page
          /\ run.written = DOMAIN run.prep /\ run.dels = Empty
          /\ UNCHANGED <<page, source, aborted, edits, deletedByUser, slipped>>
          /\ Shaped'
      BY <1>2 DEF Reconcile, Written, Goes, Inv, Shaped, world, Places
    <2>2. Trace' /\ Prepared' /\ Doomed' /\ InTurn'
      BY <2>1 DEF Inv, Trace, Prepared, Doomed, InTurn, Preparing, Removing, Closing, Existing, Exists
    <2>3. Recorded' /\ Listed' /\ RecordsKept' /\ IngestedIsThere' /\ ArticlesExist'
      BY <2>1 DEF Inv, Trace, Recorded, Listed, RecordsKept, IngestedIsThere, ArticlesExist, Existing, Exists,
                  Removing
    <2>4. Carried'
      BY <2>1 DEF Inv, Carried, Preparing, Removing, Closing, Awaited, Stored, WrittenIsGone, Exists
    <2> QED BY <2>1, <2>2, <2>3, <2>4 DEF Inv
  <1> QED BY <1>1, <1>2 DEF Reconcile

LEMMA FinalReconcileKeeps == ASSUME PagesAssumption, Inv, FinalReconcile PROVE Inv'
  <1>1. CASE Fails("index")
    BY <1>1, FailsKeeps DEF FinalReconcile, Removing
  <1>2. CASE /\ idx' = page /\ run' = [run EXCEPT !.at = "backlink", !.files = page]
             /\ UNCHANGED <<page, source, world, slipped>>
    <2>1. /\ run'.at = "backlink" /\ run.at = "final" /\ run'.pages = run.pages /\ run'.files = page
          /\ run'.acts = run.acts /\ run'.prep = run.prep /\ run'.dels = run.dels /\ run'.written = run.written
          /\ run'.life = run.life /\ run'.outcome = run.outcome /\ idx' = page
          /\ UNCHANGED <<page, source, aborted, edits, deletedByUser, slipped>>
          /\ Shaped'
      BY <1>2 DEF FinalReconcile, Inv, Shaped, world, Places
    <2>2. Trace' /\ Prepared' /\ Doomed' /\ InTurn'
      BY <2>1 DEF Inv, Trace, Prepared, Doomed, InTurn, Preparing, Removing, Closing, Existing, Exists
    <2>3. Recorded' /\ Listed' /\ RecordsKept' /\ IngestedIsThere' /\ ArticlesExist'
      BY <2>1 DEF Inv, Trace, Recorded, Listed, OfSource, RecordsKept, IngestedIsThere, ArticlesExist, Existing, Exists,
                  Removing
    <2>4. Carried'
      BY <2>1 DEF Inv, Carried, Preparing, Removing, Closing, Awaited, Stored, WrittenIsGone, Exists
    <2> QED BY <2>1, <2>2, <2>3, <2>4 DEF Inv
  <1> QED BY <1>1, <1>2 DEF FinalReconcile

LEMMA ReadBackKeeps == ASSUME PagesAssumption, Inv, ReadBack PROVE Inv'
  <1>1. CASE Fails("backlink")
    BY <1>1, FailsKeeps DEF ReadBack, Removing
  <1>2. CASE source.body = run.body /\ Goes("putback") /\ slipped' = slipped \ {"source"} /\ UNCHANGED <<disk, world>>
    <2>1. /\ run'.at = "putback" /\ run.at = "backlink" /\ run'.pages = run.pages /\ run'.files = run.files
          /\ run'.acts = run.acts /\ run'.prep = run.prep /\ run'.dels = run.dels /\ run'.written = run.written
          /\ run'.life = run.life /\ run'.outcome = run.outcome /\ run'.body = run.body
          /\ UNCHANGED <<page, idx, source, aborted, edits, deletedByUser>>
          /\ Shaped'
      BY <1>2 DEF ReadBack, Goes, Inv, Shaped, disk, world, Places
    <2>2. Trace' /\ Prepared' /\ Doomed' /\ InTurn'
      BY <1>2, <2>1 DEF Inv, Trace, Prepared, Doomed, InTurn, Preparing, Removing, Closing, Existing, Exists
    <2>3. Recorded' /\ Listed' /\ RecordsKept' /\ IngestedIsThere' /\ ArticlesExist'
      BY <2>1 DEF Inv, Trace, Recorded, Listed, OfSource, RecordsKept, IngestedIsThere, ArticlesExist, Existing, Exists,
                  Removing
    <2>4. Carried'
      BY <2>1 DEF Inv, Carried, Preparing, Removing, Closing, Awaited, Stored, WrittenIsGone, Exists
    <2> QED BY <2>1, <2>2, <2>3, <2>4 DEF Inv
  <1> QED BY <1>1, <1>2 DEF ReadBack

LEMMA PutBackKeeps == ASSUME PagesAssumption, Inv, PutBack PROVE Inv'
  <1>1. CASE Fails("backlink")
    BY <1>1, FailsKeeps DEF PutBack, Removing
  <1>2. CASE /\ source' = [body |-> run.body, links |-> OfSource(run.files)]
             /\ run' = [run EXCEPT !.at = "end", !.outcome = "ok", !.life = IF @ = "none" THEN @ ELSE "completed"]
             /\ UNCHANGED <<page, idx, world, slipped>>
    <2>1. OfSource(run.files) \subseteq Pages
      BY DEF OfSource, Existing
    <2>2. /\ run'.at = "end" /\ run.at = "putback" /\ run'.pages = run.pages /\ run'.files = run.files
          /\ run'.acts = run.acts /\ run'.prep = run.prep /\ run'.dels = run.dels /\ run'.written = run.written
          /\ run'.life \in {"none", "completed"} /\ run'.outcome = "ok" /\ source'.links = OfSource(run.files)
          /\ UNCHANGED <<page, idx, aborted, edits, deletedByUser, slipped>>
          /\ Shaped'
      BY <1>2, <2>1 DEF PutBack, Inv, Shaped, world, Places
    <2>3. Trace' /\ Prepared' /\ Doomed' /\ InTurn'
      BY <2>2 DEF Inv, Trace, Prepared, Doomed, InTurn, Preparing, Removing, Closing, Existing, Exists
    <2>4. Recorded' /\ Listed' /\ Carried'
      BY <2>2 DEF Recorded, Listed, Carried, Preparing, Removing, Closing
    <2>5. RecordsKept' /\ ArticlesExist'
      BY <2>2 DEF Inv, Recorded, Listed, RecordsKept, ArticlesExist, Existing, Exists, Removing
    <2>6. IngestedIsThere'
      <3> SUFFICES ASSUME deletedByUser = {}
                   PROVE  \E p \in Existing(page) :
                            "tech" \in page[p] /\ ("resource" \in page[p] \/ \E q \in run.written : ~Exists(page, q))
        BY <2>2 DEF IngestedIsThere, Existing, Exists
      <3>1. PICK p \in Pages : Stored(p)
        BY <2>2 DEF Inv, InTurn, Carried, Closing, Awaited
      <3> QED BY <3>1 DEF Stored, WrittenIsGone, Existing
    <2> QED BY <2>2, <2>3, <2>4, <2>5, <2>6 DEF Inv
  <1> QED BY <1>1, <1>2 DEF PutBack

-----------------------------------------------------------------------------
(* The steps of the user.                                                  *)

LEMMA EditPageKeeps == ASSUME PagesAssumption, Inv, NEW p \in Pages, EditPage(p) PROVE Inv'
  <1>1. /\ run.at # "end" /\ edits' = edits + 1 /\ slipped' = slipped \cup {p}
        /\ UNCHANGED <<idx, source, run, aborted>>
        /\ page' \in [Pages -> Contents] /\ deletedByUser \subseteq deletedByUser' /\ deletedByUser' \subseteq Pages
        /\ \A q \in Pages \ {p} : page'[q] = page[q]
    BY DEF EditPage, Inv, Shaped, Contents, Said
  <1>2. Shaped'
    BY <1>1 DEF Inv, Shaped
  <1>3. Trace' /\ Prepared' /\ Doomed'
    BY <1>1 DEF Inv, Trace, Prepared, Doomed, Existing, Exists
  <1>4. \A q \in Pages : Exists(page', q) => Exists(page, q) \/ ~Exists(run.pages, q)
    BY <1>1 DEF EditPage, Inv, Shaped, Exists
  <1>5. \A q \in Pages : Exists(page, q) => Exists(page', q) \/ q \in deletedByUser'
    BY <1>1 DEF EditPage, Inv, Shaped, Exists, PagesAssumption, Contents, Said
  <1>6. InTurn'
    BY <1>1, <1>5 DEF Inv, InTurn, Prepared, Doomed, Preparing, Removing, Closing, Canonical, Existing, Exists
  <1>7. Recorded'
    BY <1>1, <1>4 DEF Inv, Recorded, Existing, Exists
  <1>8. Listed' /\ RecordsKept' /\ IngestedIsThere' /\ ArticlesExist'
    BY <1>1, <1>5 DEF Inv, Trace, Listed, RecordsKept, IngestedIsThere, ArticlesExist, OfSource, Existing, Exists
  <1>9. Carried'
    <2>1. CASE deletedByUser' # {}
      BY <2>1 DEF Carried
    <2>2. CASE deletedByUser' = {}
      <3>1. deletedByUser = {} /\ \A q \in Pages : Exists(page, q) => Exists(page', q) /\ page[q] \subseteq page'[q]
        BY <1>1, <2>2 DEF EditPage, Inv, Shaped, Exists, PagesAssumption, Contents, Said
      <3>2. run.at \in Preparing =>
              \A q \in Existing(run.pages) : Exists(page', q) /\ run.pages[q] \subseteq page'[q]
        BY <3>1 DEF Inv, Carried, Existing
      <3>3. run.at = "remove" =>
              /\ Exists(page', run.item) /\ Exists(page', Canonical)
              /\ page'[run.item] \ {"mine", "resource"} \subseteq page'[Canonical]
        <4> SUFFICES ASSUME run.at = "remove"
                     PROVE  /\ Exists(page', run.item) /\ Exists(page', Canonical)
                            /\ page'[run.item] \ {"mine", "resource"} \subseteq page'[Canonical]
          OBVIOUS
        <4>1. run.item \in Pages /\ Canonical \in Pages
          BY DEF Inv, InTurn, Doomed, Removing, Canonical, Existing
        <4>2. /\ Exists(page, run.item) /\ Exists(page, Canonical)
              /\ page[run.item] \ {"mine", "resource"} \subseteq page[Canonical]
          BY <3>1 DEF Inv, Carried
        <4>3. page'[run.item] \subseteq page[run.item] \cup {"mine"}
          BY <1>1, <2>2, <3>1, <4>1, <4>2 DEF EditPage, Inv, Shaped, Exists
        <4> QED BY <3>1, <4>1, <4>2, <4>3
      <3>4. WrittenIsGone => WrittenIsGone'
        BY <1>1, <1>4 DEF WrittenIsGone, Inv, InTurn, Prepared, Exists
      <3>5. \A q \in Pages : Awaited(q) \/ Stored(q) => Awaited(q)' \/ Stored(q)'
        BY <1>1, <3>1, <3>4 DEF Awaited, Stored, Exists
      <3> QED BY <1>1, <3>1, <3>2, <3>3, <3>5 DEF Inv, Carried, Canonical, Existing, Exists
    <2> QED BY <2>1, <2>2
  <1> QED BY <1>2, <1>3, <1>6, <1>7, <1>8, <1>9 DEF Inv

LEMMA EditSourceKeeps == ASSUME PagesAssumption, Inv, EditSource PROVE Inv'
  <1>1. /\ run.at # "end" /\ edits' = edits + 1 /\ slipped' = slipped \cup {"source"} /\ source'.links = source.links
        /\ UNCHANGED <<page, idx, run, aborted, deletedByUser>> /\ Shaped'
    BY DEF EditSource, Inv, Shaped
  <1>2. Trace' /\ Prepared' /\ Doomed' /\ Recorded' /\ Listed'
    BY <1>1 DEF Inv, Trace, Prepared, Doomed, Recorded, Listed, Existing, Exists, OfSource
  <1>3. InTurn'
    BY <1>1 DEF Inv, InTurn, Canonical, Exists
  <1>4. Carried'
    BY <1>1 DEF Inv, Carried, Canonical, Awaited, Stored, WrittenIsGone, Existing, Exists
  <1>5. RecordsKept' /\ IngestedIsThere' /\ ArticlesExist'
    BY <1>1 DEF Inv, Trace, RecordsKept, IngestedIsThere, ArticlesExist
  <1> QED BY <1>1, <1>2, <1>3, <1>4, <1>5 DEF Inv

(* A cancel, and a step that changes nothing.                              *)
LEMMA CancelKeeps ==
  ASSUME Inv, UNCHANGED <<disk, run, edits, slipped, deletedByUser>>, aborted' \in {TRUE, aborted} PROVE Inv'
  <1>1. UNCHANGED <<page, idx, source, run, edits, slipped, deletedByUser>>
    BY DEF disk
  <1>2. aborted' \in BOOLEAN
    BY DEF Inv, Shaped
  <1>3. Shaped' /\ Trace' /\ Prepared' /\ Doomed' /\ Recorded' /\ Listed'
    BY <1>1, <1>2 DEF Inv, Shaped, Trace, Prepared, Doomed, Recorded, Listed, Existing, Exists, OfSource
  <1>4. InTurn' /\ Carried'
    BY <1>1 DEF Inv, InTurn, Canonical, Carried, Awaited, Stored, WrittenIsGone, Existing, Exists
  <1>5. RecordsKept' /\ IngestedIsThere' /\ ArticlesExist'
    BY <1>1 DEF Inv, RecordsKept, IngestedIsThere, ArticlesExist, Existing, Exists
  <1> QED BY <1>3, <1>4, <1>5 DEF Inv

-----------------------------------------------------------------------------
LEMMA StepKeeps == ASSUME PagesAssumption, Inv, [Next]_vars PROVE Inv'
  <1>1. ASSUME NEW p \in Pages, PrepareCreate(p) \/ PreparePatch(p) \/ CheckPage(p) \/ RemoveRecord(p) PROVE Inv'
    BY <1>1, PrepareCreateKeeps, PreparePatchKeeps, CheckPageKeeps, RemoveRecordKeeps
  <1>2. CASE Evidence \/ Retrieve \/ Embed
    <2>1. CASE Evidence
      BY <2>1, FailsKeeps, GoesKeeps DEF Evidence, Removing
    <2>2. CASE Retrieve
      BY <2>2, FailsKeeps, GoesKeeps DEF Retrieve, Removing
    <2>3. CASE Embed
      BY <2>3, FailsKeeps, GoesKeeps DEF Embed, Removing
    <2> QED BY <1>2, <2>1, <2>2, <2>3
  <1>3. CASE ReadSource \/ LoadPages \/ Synthesize \/ Merge \/ Regenerate \/ Cover \/ PutPage
    BY <1>3, ReadSourceKeeps, LoadPagesKeeps, SynthesizeKeeps, MergeKeeps, RegenerateKeeps, CoverKeeps, PutPageKeeps
  <1>4. CASE Recheck \/ RemoveFile \/ Restore \/ Reconcile \/ FinalReconcile \/ ReadBack \/ PutBack
    BY <1>4, RecheckKeeps, RemoveFileKeeps, RestoreKeeps, ReconcileKeeps, FinalReconcileKeeps, ReadBackKeeps, PutBackKeeps
  <1>5. CASE (\E p \in Pages : EditPage(p)) \/ EditSource
    BY <1>5, EditPageKeeps, EditSourceKeeps
  <1>6. CASE Cancel \/ UNCHANGED vars
    BY <1>6, CancelKeeps DEF Cancel, vars, disk
  <1> QED BY <1>1, <1>2, <1>3, <1>4, <1>5, <1>6 DEF Next, Proceed

(* The invariant holds throughout, for any set of pages and any number of edits. *)
THEOREM Invariant == ASSUME PagesAssumption PROVE Spec => []Inv
  <1>1. Init => Inv
    BY Initial
  <1>2. Inv /\ [Next]_vars => Inv'
    BY StepKeeps
  <1> QED BY <1>1, <1>2, PTL DEF Spec

(* Types are kept, and the rows of the trace are open exactly while the run is *)
(* (the finally block of runIngest).                                           *)
THEOREM TypeCorrect == ASSUME PagesAssumption PROVE Spec => []TypeOK
  <1>1. Inv => TypeOK
    BY DEF Inv, Shaped, Trace, Prepared, Doomed, TypeOK, Existing
  <1> QED BY <1>1, Invariant, PTL

(* The deletion of duplicates, with its restoration, leaves no page that was *)
(* there without its record, whatever the user deletes or edits meanwhile.   *)
THEOREM RecordsStay == ASSUME PagesAssumption PROVE Spec => []RecordsKept
  <1>1. Inv => RecordsKept
    BY DEF Inv
  <1> QED BY <1>1, Invariant, PTL

(* A run that succeeded has put the evidence of its source into a page, through *)
(* every merge, dropped change and removal of a duplicate.                      *)
THEOREM EvidenceIsThere == ASSUME PagesAssumption PROVE Spec => []IngestedIsThere
  <1>1. Inv => IngestedIsThere
    BY DEF Inv
  <1> QED BY <1>1, Invariant, PTL

(* The list written back into the source names pages that are there.       *)
THEOREM ListedExist == ASSUME PagesAssumption PROVE Spec => []ArticlesExist
  <1>1. Inv => ArticlesExist
    BY DEF Inv
  <1> QED BY <1>1, Invariant, PTL

(* The files change in three steps of the run only, and the source in one. *)
LEMMA Untouched ==
  ASSUME PagesAssumption, Inv, [Next]_vars, edits' = edits
  PROVE  /\ page' = page \/ PutPage \/ RemoveFile
         /\ source' = source \/ PutBack
  <1>1. ASSUME NEW p \in Pages, EditPage(p) PROVE FALSE
    BY <1>1 DEF EditPage, Inv, Shaped
  <1>2. ~EditSource
    BY DEF EditSource, Inv, Shaped
  <1>3. CASE UNCHANGED vars \/ Cancel
    BY <1>3 DEF vars, Cancel, disk
  <1>4. ASSUME NEW p \in Pages, PrepareCreate(p) \/ PreparePatch(p) \/ CheckPage(p) \/ RemoveRecord(p)
        PROVE  UNCHANGED <<page, source>>
    BY <1>4 DEF PrepareCreate, PreparePatch, CheckPage, RemoveRecord, Settle, Deferred, Asks, Fails, disk
  <1>5. CASE ReadSource \/ LoadPages \/ Evidence \/ Retrieve \/ Synthesize \/ Merge \/ Regenerate \/ Cover
    BY <1>5 DEF ReadSource, LoadPages, Evidence, Retrieve, Synthesize, Merge, Regenerate, Cover, Settle, Deferred, Fails,
                disk
  <1>6. CASE Recheck \/ Restore \/ Reconcile \/ Embed \/ FinalReconcile \/ ReadBack
    BY <1>6 DEF Recheck, Restore, Reconcile, Embed, FinalReconcile, ReadBack, Fails, disk
  <1>7. PutBack => page' = page
    BY DEF PutBack, Fails, disk
  <1>8. PutPage \/ RemoveFile => source' = source
    BY DEF PutPage, RemoveFile, Fails, disk
  <1> QED BY <1>1, <1>2, <1>3, <1>4, <1>5, <1>6, <1>7, <1>8 DEF Next, Proceed

(* No step of the run loses what a page says, save what was edited between the *)
(* comparison and the write or the removal.                                    *)
THEOREM NoWordLost == ASSUME PagesAssumption PROVE Spec => [][WordsKept]_vars
  <1>1. ASSUME Inv, [Next]_vars PROVE [WordsKept]_vars
    <2> SUFFICES ASSUME edits' = edits, NEW p \in Existing(page) \ slipped
                 PROVE  \/ Exists(page', p) /\ page[p] \subseteq page'[p]
                        \/ /\ ~Exists(page', p) /\ p \in DOMAIN run.dels
                           /\ \/ run.dels[p].canonical \in slipped
                              \/ page[p] \ {"resource"} \subseteq page[run.dels[p].canonical]
      BY DEF WordsKept
    <2>1. CASE page' = page
      BY <2>1 DEF Existing
    <2>2. CASE PutPage /\ page' # page
      <3>1. ~Fails("write")
        BY <2>2 DEF Fails, disk
      <3>2. /\ run.at = "put" /\ run.item \in DOMAIN run.prep /\ page' = [page EXCEPT ![run.item] = run.prep[run.item].new]
            /\ run.prep[run.item].new \in SUBSET Said
            /\ run.item \in slipped \/ page[run.item] = run.prep[run.item].old
            /\ run.prep[run.item].old # NoPage => run.prep[run.item].old \subseteq run.prep[run.item].new
        BY <1>1, <2>2, <3>1 DEF PutPage, Inv, InTurn, Prepared
      <3> QED BY <1>1, <3>2 DEF Inv, Shaped, Existing, Exists, PagesAssumption
    <2>3. CASE RemoveFile /\ page' # page
      <3>1. /\ run.at = "remove" /\ run.item \in DOMAIN run.dels /\ page' = [page EXCEPT ![run.item] = NoPage]
            /\ run.item \in slipped \/ page[run.item] = run.dels[run.item].text
            /\ run.dels[run.item].canonical \in slipped \/ page[run.dels[run.item].canonical] = run.seen
            /\ run.dels[run.item].text \ {"resource"} \subseteq run.seen
        BY <1>1, <2>3 DEF RemoveFile, Inv, InTurn, Canonical, Removing
      <3> QED BY <1>1, <3>1 DEF Inv, Shaped, Existing, Exists
    <2> QED BY <1>1, <2>1, <2>2, <2>3, Untouched
  <1> QED BY <1>1, Invariant, PTL DEF Spec

(* The source is written only as the run read it, so an edit of it is kept. *)
THEOREM SourceStays == ASSUME PagesAssumption PROVE Spec => [][SourceKept]_vars
  <1>1. ASSUME Inv, [Next]_vars PROVE [SourceKept]_vars
    <2> SUFFICES ASSUME edits' = edits, source' # source PROVE source.body = run.body \/ "source" \in slipped
      BY DEF SourceKept
    <2>1. run.at = "putback"
      BY <1>1, Untouched DEF PutBack
    <2> QED BY <1>1, <2>1 DEF Inv, InTurn
  <1> QED BY <1>1, Invariant, PTL DEF Spec

(* After a cancel no page is made or written; a removal that was decided may be *)
(* carried out.                                                                 *)
THEOREM CancelIsObeyed == ASSUME PagesAssumption PROVE Spec => [][CancelStopsWrites]_vars
  <1>1. ASSUME Inv, [Next]_vars PROVE [CancelStopsWrites]_vars
    <2> SUFFICES ASSUME aborted, edits' = edits, NEW p \in Pages PROVE page'[p] \in {page[p], NoPage}
      BY DEF CancelStopsWrites
    <2>1. PutPage => page' = page
      BY DEF PutPage, Fails, disk
    <2>2. RemoveFile => page'[p] \in {page[p], NoPage}
      BY <1>1 DEF RemoveFile, Inv, Shaped
    <2> QED BY <1>1, <2>1, <2>2, Untouched
  <1> QED BY <1>1, Invariant, PTL DEF Spec
=============================================================================
