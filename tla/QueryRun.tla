------------------------------ MODULE QueryRun ------------------------------
(***************************************************************************)
(* A question to one domain (runQuery) or to all of them                   *)
(* (runCrossDomainQuery): each domain in turn gives its candidates         *)
(* (retrieveDomainCandidates: by vectors, else by words, else by asking    *)
(* the model), then the sections of the pool are ranked, reranked and      *)
(* answered from.  The user may stop at any time; every await may fail.    *)
(*                                                                         *)
(* What the candidates are is in RetrievalGraph, the choice of sections in *)
(* ContextSelection, the answer in QueryRequest.                           *)
(***************************************************************************)
EXTENDS Naturals, FiniteSets

CONSTANTS MaxDomains, ThresholdIsZero

QueryAssumption == MaxDomains \in Nat \ {0} /\ ThresholdIsZero \in BOOLEAN

VARIABLES cross, domains,   \* all domains are asked; how many there are
          at,               \* the domain in work
          pc, aborted,
          described,        \* its pages have descriptions
          vectors,          \* the service ranks by vectors
          source,           \* what the seeds came from, or "none": there are none
          fallback, reason, \* what the event says of it
          life,             \* the model's call for seeds
          asked, closed,    \* calls made, terminal events of them (history)
          pool,             \* the domains that gave candidates
          found,            \* the domains where there were seeds (history)
          errors, said      \* error events; the other events of the end
seeding == <<described, vectors, source, fallback, reason, life>>
vars == <<cross, domains, at, pc, aborted, seeding, asked, closed, pool, found, errors, said>>

Ended == {"end", "thrown"}

TypeOK ==
  /\ at \in 1..(domains + 1) /\ pool \subseteq 1..domains /\ found \subseteq 1..domains
  /\ pc \in Ended \union {"domain", "config", "list", "read", "rank", "ask", "applying", "seeded", "graph", "given", "skipped",
                          "chunks", "rerank", "answer", "stats", "meta", "result"}
  /\ source \in {"none", "vectors", "words", "model"} /\ fallback \in {"none", "jaccard", "llm"}
  /\ reason \in {"none", "low-similarity", "embed-failed"} /\ life \in {"none", "open", "closed"}
  /\ asked \in 0..domains /\ said \subseteq {"query_stats", "eval_meta", "result"}

Init ==
  /\ cross \in BOOLEAN /\ domains \in (IF cross THEN 1..MaxDomains ELSE {1})
  /\ at = 1 /\ pc = "domain" /\ aborted = FALSE
  /\ described = FALSE /\ vectors \in BOOLEAN /\ source = "none" /\ fallback = "none" /\ reason = "none" /\ life = "none"
  /\ asked = 0 /\ closed = 0 /\ pool = {} /\ found = {} /\ errors = 0 /\ said = {}

----------------------------------------------------------------------------
Stop ==
  /\ pc \notin Ended /\ ~aborted /\ aborted' = TRUE
  /\ UNCHANGED <<cross, domains, at, pc, seeding, asked, closed, pool, found, errors, said>>

(* Reading the vault, ranking or answering may throw, which ends the run.  *)
Throw ==
  /\ pc \in {"config", "list", "read", "rank", "chunks", "answer"} /\ pc' = "thrown"
  /\ UNCHANGED <<cross, domains, at, aborted, seeding, asked, closed, pool, found, errors, said>>

(* A domain's folder outside the vault is an error event of its own.       *)
Domain ==
  /\ pc = "domain"
  /\ IF cross /\ aborted THEN pc' = "end" /\ UNCHANGED errors
     ELSE \/ pc' = "config" /\ UNCHANGED errors
          \/ pc' = "skipped" /\ errors' = errors + 1
  /\ source' = "none" /\ fallback' = "none" /\ reason' = "none" /\ life' = "none"
  /\ UNCHANGED <<cross, domains, at, aborted, described, vectors, asked, closed, pool, found, said>>

(* The configuration of the domain, its list of files and their contents,  *)
(* a stop being looked for after each.                                     *)
Prepare ==
  /\ \/ pc = "config" /\ pc' = (IF aborted THEN "skipped" ELSE "list") /\ UNCHANGED described
     \/ pc = "list" /\ pc' = (IF aborted THEN "skipped" ELSE "read") /\ UNCHANGED described
     \/ pc = "read" /\ pc' = (IF aborted THEN "skipped" ELSE "rank") /\ described' \in BOOLEAN
  /\ UNCHANGED <<cross, domains, at, aborted, vectors, source, fallback, reason, life, asked, closed, pool, found, errors, said>>

(* By vectors when they are in use: the best cosine must pass the          *)
(* threshold.  When that is zero, a best of zero passes too: that of a     *)
(* failed request, ranked by words, or one that lists no page.             *)
Seeds ==
  /\ pc = "rank"
  /\ \E failed, strong, some \in BOOLEAN, words \in (IF described THEN BOOLEAN ELSE {FALSE}) :
       LET gate == IF failed THEN ThresholdIsZero ELSE strong \/ ThresholdIsZero
           byVectors == vectors /\ gate
       IN /\ source' = IF byVectors /\ ~failed THEN (IF described /\ (strong \/ some) THEN "vectors" ELSE "none")
                       ELSE IF words THEN "words" ELSE "none"
          /\ fallback' = IF ~vectors \/ gate THEN "none" ELSE IF words THEN "jaccard" ELSE "llm"
          /\ reason' = IF ~vectors \/ gate THEN "none" ELSE IF failed THEN "embed-failed" ELSE "low-similarity"
          /\ found' = IF source' = "none" THEN found ELSE found \union {at}
          /\ pc' = IF source' = "none" /\ described /\ ~cross THEN "ask" ELSE "seeded"
  /\ UNCHANGED <<cross, domains, at, aborted, described, vectors, life, asked, closed, pool, errors, said>>

(* The model is asked for seeds.  A call that fails has told its end and   *)
(* leaves no seeds; one that answers leaves its end to this code.          *)
Ask ==
  /\ pc = "ask"
  /\ IF aborted THEN pc' = "skipped" /\ UNCHANGED <<source, life, asked, closed, found>>
     ELSE /\ asked' = asked + 1
          /\ \/ pc' = "applying" /\ life' = "open" /\ source' \in {"model", "none"} /\ UNCHANGED closed
             \/ pc' = "seeded" /\ life' = "closed" /\ closed' = closed + 1 /\ UNCHANGED source
          /\ found' = IF source' = "none" THEN found ELSE found \union {at}
  /\ UNCHANGED <<cross, domains, at, aborted, described, vectors, fallback, reason, pool, errors, said>>

(* The seeds are applied: the call is cancelled by a stop, else completed. *)
Apply ==
  /\ pc = "applying" /\ life' = "closed" /\ closed' = closed + 1
  /\ pc' = (IF aborted THEN "skipped" ELSE "seeded")
  /\ UNCHANGED <<cross, domains, at, aborted, described, vectors, source, fallback, reason, asked, pool, found, errors, said>>

Seeded ==
  /\ pc = "seeded" /\ pc' = (IF aborted \/ source = "none" THEN "skipped" ELSE "graph")
  /\ UNCHANGED <<cross, domains, at, aborted, seeding, asked, closed, pool, found, errors, said>>

(* The walk along the links; its events are sent whether stopped or not.   *)
Graph ==
  /\ pc = "graph" /\ pc' = "given" /\ pool' = pool \union {at}
  /\ UNCHANGED <<cross, domains, at, aborted, seeding, asked, closed, found, errors, said>>

(* The next domain is asked; after the last one an empty pool is an error. *)
AfterDomain ==
  /\ pc \in {"given", "skipped"}
  /\ IF at < domains THEN at' = at + 1 /\ pc' = "domain" /\ UNCHANGED errors
     ELSE IF aborted THEN pc' = "end" /\ UNCHANGED <<at, errors>>
     ELSE IF pool = {} THEN pc' = "end" /\ errors' = errors + 1 /\ UNCHANGED at
     ELSE pc' = "chunks" /\ UNCHANGED <<at, errors>>
  /\ UNCHANGED <<cross, domains, aborted, seeding, asked, closed, pool, found, said>>

Chunks ==
  /\ pc = "chunks"
  /\ IF aborted THEN pc' = "end" /\ UNCHANGED errors
     ELSE \/ pc' = "rerank" /\ UNCHANGED errors
          \/ pc' = "end" /\ errors' = errors + 1
  /\ UNCHANGED <<cross, domains, at, aborted, seeding, asked, closed, pool, found, said>>

Rerank ==
  /\ pc = "rerank" /\ pc' = (IF aborted THEN "end" ELSE "answer")
  /\ UNCHANGED <<cross, domains, at, aborted, seeding, asked, closed, pool, found, errors, said>>

Answer ==
  /\ pc = "answer" /\ pc' = (IF aborted THEN "end" ELSE "stats")
  /\ UNCHANGED <<cross, domains, at, aborted, seeding, asked, closed, pool, found, errors, said>>

Tell ==
  /\ \/ pc = "stats" /\ said' = said \union {"query_stats"} /\ pc' = "meta"
     \/ pc = "meta" /\ said' = said \union {"eval_meta"} /\ pc' = "result"
     \/ pc = "result" /\ said' = said \union {"result"} /\ pc' = "end"
  /\ UNCHANGED <<cross, domains, at, aborted, seeding, asked, closed, pool, found, errors>>

Step == Domain \/ Prepare \/ Seeds \/ Ask \/ Apply \/ Seeded \/ Graph \/ AfterDomain \/ Chunks \/ Rerank \/ Answer \/ Tell
Next == Stop \/ Throw \/ Step

(* Every await of the run is over at last.                                 *)
Spec == Init /\ [][Next]_vars /\ WF_vars(Step)

----------------------------------------------------------------------------
(* After a stop the telling of an answer does not begin: no statistics, no *)
(* evaluation record, no result (query.ts:406).                            *)
Telling == {"stats", "meta", "result"}
StopSilences == aborted /\ pc \notin Telling => pc' \notin Telling

(* Every call for seeds has exactly one end by the time the run is over.   *)
SeedCallsClosed == pc = "end" => closed = asked

(* The search over all domains never asks the model for seeds              *)
(* (query.ts:80-82), and one domain asks at most once.                     *)
ModelAskedSparingly == asked <= (IF cross THEN 0 ELSE 1)

(* The pool that is answered from is every domain where there were seeds.  *)
PoolComplete == pc \in {"chunks", "rerank", "answer", "stats", "meta", "result"} => pool = found /\ at = domains

(* A run that was not stopped tells a result or an error, and one domain   *)
(* never both.                                                             *)
EndTold == pc = "end" /\ ~aborted => ("result" \in said \/ errors > 0) /\ (~cross => ("result" \in said) # (errors > 0))

(* The run ends.                                                           *)
Pending == pc \notin Ended

(* What the progress view calls the retrieval (retrievalTag).              *)
Tag ==
  IF ~vectors THEN "jaccard" ELSE IF fallback = "llm" THEN "llm seeds"
  ELSE IF fallback = "jaccard" THEN "jaccard (why)" ELSE "vector"

=============================================================================
