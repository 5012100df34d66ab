-------------------------- MODULE EmbeddingRefresh --------------------------
(***************************************************************************)
(* The retrieval index of a domain (index.jsonl), its write queue          *)
(* (wiki-index-store.ts) and the refresh of its embeddings                 *)
(* (PageSimilarityService.refreshCache).  A refresh works from bodies its  *)
(* caller read earlier and from records it reads outside the queue; the    *)
(* vectors take requests that may fail; only then it queues its commit.    *)
(* Meanwhile notes are edited by hand, runs write notes and their records, *)
(* remove them, or reconcile all records with the notes.                   *)
(*                                                                         *)
(* A body is the set of its texts to embed (its description and its        *)
(* sections); a text stands for its hash, a chunk record for the pair of   *)
(* its text and of the model its vector is from.                           *)
(***************************************************************************)
EXTENDS Naturals, Sequences, FiniteSets

CONSTANTS Pids, Bodies, NoPage, Models, Jobs, MaxChanges, MaxAttempts

RefreshAssumption ==
  /\ NoPage \notin Bodies
  /\ MaxChanges \in Nat /\ MaxAttempts \in Nat \ {0}

VARIABLES file,      \* the notes of the domain, read from the vault
          page,      \* the index's page records: the body their hash is of
          chunk,     \* the index's chunk records of every article
          queue,     \* the operations that wait for the index, in their order
          inflight,  \* what the first of them is about to write
          job,       \* the refreshes
          changes    \* the edits and the writes so far
vars == <<file, page, chunk, queue, inflight, job, changes>>

Index == [page |-> page, chunk |-> chunk]
None == [page |-> NoPage, chunk |-> NoPage]
Present == {p \in Pids : file[p] # NoPage}
Idle == [pc |-> "idle"]

TypeOK ==
  /\ file \in [Pids -> Bodies \union {NoPage}] /\ page \in [Pids -> Bodies \union {NoPage}]
  /\ chunk \in [Pids -> SUBSET ((UNION Bodies) \X Models)]
  /\ \A j \in Jobs : job[j].pc \in {"idle", "collected", "embedding", "queued", "done", "failed"}
  /\ changes \in 0..MaxChanges

(* The domain after an earlier lint: every note has its record, and its    *)
(* chunks, or none of them yet.                                            *)
Init ==
  /\ \E b \in Bodies : file \in [Pids -> {b, NoPage}]
  /\ page = file
  /\ \E m \in Models : chunk \in {[p \in Pids |-> IF page[p] = NoPage THEN {} ELSE page[p] \X {m}], [p \in Pids |-> {}]}
  /\ queue = <<>> /\ inflight = None
  /\ job = [j \in Jobs |-> Idle]
  /\ changes = 0

----------------------------------------------------------------------------
(* What changes the notes and their records.                               *)
Change == changes < MaxChanges /\ changes' = changes + 1

(* The user edits, makes or deletes a note: the index is not told.         *)
Edit(p, b) ==
  /\ Change /\ file[p] # b /\ file' = [file EXCEPT ![p] = b]
  /\ UNCHANGED <<page, chunk, queue, inflight, job>>

(* A run writes a note and its record (lint, lint chat).                   *)
Write(p, b) ==
  /\ Change /\ file' = [file EXCEPT ![p] = b]
  /\ queue' = Append(queue, [kind |-> "upsert", pid |-> p, body |-> b])
  /\ UNCHANGED <<page, chunk, inflight, job>>

(* A run removes a note and all its records.                               *)
Delete(p) ==
  /\ Change /\ file[p] # NoPage /\ file' = [file EXCEPT ![p] = NoPage]
  /\ queue' = Append(queue, [kind |-> "remove", pid |-> p])
  /\ UNCHANGED <<page, chunk, inflight, job>>

(* An ingest, or the end of a lint, makes the page records those of the    *)
(* notes it read; the chunk records stay.                                  *)
Reconcile ==
  /\ Change /\ queue' = Append(queue, [kind |-> "reconcile", pages |-> file])
  /\ UNCHANGED <<file, page, chunk, inflight, job>>

----------------------------------------------------------------------------
(* The refresh.                                                            *)

(* A lint gives all notes; an ingest the notes it changed, with the        *)
(* descriptions of the index.                                              *)
Collect(j, full, given, m) ==
  /\ job[j].pc = "idle"
  /\ IF full THEN given = Present ELSE given # {} /\ given \subseteq {p \in Present : page[p] # NoPage}
  /\ job' = [job EXCEPT ![j] = [pc |-> "collected", full |-> full, model |-> m,
                                bodies |-> [p \in given |-> file[p]]]]
  /\ UNCHANGED <<file, page, chunk, queue, inflight, changes>>

Entries(m) == [p \in Pids |-> {c \in chunk[p] : c[2] = m}]

Wanted(r) == [p \in DOMAIN r.bodies |-> r.bodies[p] \X {r.model}]

(* The articles a full refresh no longer finds, which have vectors.        *)
Gone(r) == IF r.full THEN {p \in Pids \ DOMAIN r.bodies : Entries(r.model)[p] # {}} ELSE {}

(* The records are read; unchanged texts keep their vectors, the others    *)
(* are pending.  Nothing to do ends it here.                               *)
Read(j) ==
  LET r == job[j]
      pending == UNION {Wanted(r)[p] \ Entries(r.model)[p] : p \in DOMAIN r.bodies}
      changed == Gone(r) # {} \/ \E p \in DOMAIN r.bodies : Wanted(r)[p] # Entries(r.model)[p]
  IN /\ r.pc = "collected"
     /\ job' = [job EXCEPT ![j] =
          IF pending = {} /\ ~changed THEN [r EXCEPT !.pc = "done"]
          ELSE [pc |-> "embedding", full |-> r.full, model |-> r.model, bodies |-> r.bodies,
                pending |-> pending, attempt |-> 1, gone |-> [p \in Gone(r) |-> page[p]]]]
     /\ UNCHANGED <<file, page, chunk, queue, inflight, changes>>

(* A batch of texts is embedded: the request answers, fails and is tried   *)
(* again, or fails for good (or answers with other than a vector each).    *)
Embed(j) ==
  /\ job[j].pc = "embedding" /\ job[j].pending # {}
  /\ \/ \E c \in job[j].pending : job' = [job EXCEPT ![j].pending = @ \ {c}, ![j].attempt = 1]
     \/ job[j].attempt < MaxAttempts /\ job' = [job EXCEPT ![j].attempt = @ + 1]
     \/ job' = [job EXCEPT ![j].pc = "failed"]
  /\ UNCHANGED <<file, page, chunk, queue, inflight, changes>>

----------------------------------------------------------------------------
(* The queue: the first operation reads the index and computes what it     *)
(* will write, then writes it; the next one waits for it, failed or not.   *)

(* A mutated form: only a removed record is looked at.                     *)
AuthorisedAnyBody(r, idx) == \A p \in DOMAIN r.gone : idx.page[p] = r.gone[p]

(* The records a commit finds are still those its bodies and its removals  *)
(* are about.                                                              *)
Authorised(r, idx) ==
  /\ \A p \in DOMAIN r.bodies : idx.page[p] = r.bodies[p]
  /\ \A p \in DOMAIN r.gone : idx.page[p] = r.gone[p]

(* The chunk records of the refreshed articles are replaced, all others    *)
(* are those of the index as it is now.                                    *)
Replaced(r, chunks) ==
  [p \in Pids |-> IF p \in DOMAIN r.bodies THEN Wanted(r)[p]
                  ELSE IF p \in DOMAIN r.gone THEN {} ELSE chunks[p]]

Result(op, idx) ==
  CASE op.kind = "upsert" -> [idx EXCEPT !.page[op.pid] = op.body]
    [] op.kind = "remove" -> [idx EXCEPT !.page[op.pid] = NoPage, !.chunk[op.pid] = {}]
    [] op.kind = "reconcile" -> [idx EXCEPT !.page = op.pages]
    [] op.kind = "commit" -> [idx EXCEPT !.chunk = Replaced(job[op.job], @)]

Refused(op, idx) == op.kind = "commit" /\ ~Authorised(job[op.job], idx)
Close(op, pc) == job' = IF op.kind = "commit" THEN [job EXCEPT ![op.job].pc = pc] ELSE job

Transform ==
  /\ queue # <<>> /\ inflight = None
  /\ IF Refused(Head(queue), Index)
     THEN Close(Head(queue), "failed") /\ queue' = Tail(queue) /\ UNCHANGED inflight
     ELSE IF Result(Head(queue), Index) = Index
     THEN Close(Head(queue), "done") /\ queue' = Tail(queue) /\ UNCHANGED inflight
     ELSE inflight' = Result(Head(queue), Index) /\ UNCHANGED <<queue, job>>
  /\ UNCHANGED <<file, page, chunk, changes>>

Store ==
  /\ inflight # None
  /\ page' = inflight.page /\ chunk' = inflight.chunk /\ inflight' = None
  /\ Close(Head(queue), "done") /\ queue' = Tail(queue)
  /\ UNCHANGED <<file, changes>>

(* All vectors are there: the commit takes its place in the queue.         *)
Enqueue(j) ==
  /\ job[j].pc = "embedding" /\ job[j].pending = {}
  /\ job' = [job EXCEPT ![j].pc = "queued"]
  /\ queue' = Append(queue, [kind |-> "commit", job |-> j])
  /\ UNCHANGED <<file, page, chunk, inflight, changes>>

Work(j) == Read(j) \/ Embed(j) \/ Enqueue(j)
Next ==
  \/ \E p \in Pids : Delete(p) \/ \E b \in Bodies : Write(p, b)
  \/ \E p \in Pids, b \in Bodies \union {NoPage} : Edit(p, b)
  \/ Reconcile
  \/ \E j \in Jobs : Work(j) \/ \E full \in BOOLEAN, given \in SUBSET Pids, m \in Models : Collect(j, full, given, m)
  \/ Transform \/ Store
Spec == Init /\ [][Next]_vars
Fairness == WF_vars(Transform) /\ WF_vars(Store) /\ \A j \in Jobs : WF_vars(Work(j))
FairSpec == Spec /\ Fairness

----------------------------------------------------------------------------
(* Chunk records only ever become those of the body their page record is   *)
(* of, all from one model: no slower refresh, and no other operation,      *)
(* brings vectors of an older body back (page-similarity.ts:1361).         *)
FreshChunks ==
  \A p \in Pids : chunk'[p] # chunk[p] /\ chunk'[p] # {} =>
       page'[p] # NoPage /\ \E m \in Models : chunk'[p] = page'[p] \X {m}

(* An article that a refresh did not find loses its vectors only when its  *)
(* record, if any, is the one the refresh read (page-similarity.ts:1368).  *)
RemovedAsRead ==
  \A p \in Pids : chunk[p] # {} /\ chunk'[p] = {} /\ page'[p] # NoPage =>
       \E j \in Jobs : job[j].pc = "queued" /\ p \in DOMAIN job[j].gone /\ job[j].gone[p] = page[p]

(* No update is lost: what an operation writes is its change of the index  *)
(* as it is at that moment (wiki-index-store.ts:50).                       *)
SerialWrites == inflight # None => inflight = Result(Head(queue), Index)

(* An article a run removed leaves no chunk record: vectors without a page *)
(* record are only those of a record that a reconciliation dropped         *)
(* (wiki-index-jsonl.ts:201), after which the note is gone.                *)
RemovedWholly ==
  \A p \in Pids : page[p] # NoPage /\ page'[p] = NoPage /\ chunk'[p] # {} =>
       Head(queue).kind = "reconcile"

(* Every refresh ends, also behind an operation that throws.               *)
Pending(j) == job[j].pc \notin {"idle", "done", "failed"}

=============================================================================
