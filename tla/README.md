# A verification project for obsidian-ai-wiki

obsidian-ai-wiki is an Obsidian plugin that keeps a wiki written by a language model next to a
person's notes.  Sources are *ingested* into *domains*; a domain is a folder `!Wiki/<folder>` with
pages, an index, an operation log and metadata.  This directory holds TLA+ modules of its parts,
TLC configurations that model-check small instances, and proofs checked by TLAPS.

All paths below are relative to the repository (`src/src/...` is its TypeScript source).

## 1. The system

Everything runs on one JavaScript thread.  Code between two `await`s is atomic; at every `await`
another operation of the plugin, a callback of the user interface, a person editing the vault in
Obsidian, or a sync client may run.  The only durable state is the vault (files reached through
Obsidian's adapter, which offers no compare-and-swap and no transaction over several files) and the
plugin's `data.json`.  The application may be closed at any `await`, and every adapter or network
call may fail, possibly after it took effect.

| Part (source) | State | Operations | What is hard | What makes it correct |
|---|---|---|---|---|
| Delete transaction (`phases/delete.ts`, `file-transaction.ts`, `delete-state-dispatch.ts`) | `delete-journal.json`, governed files, the manifest in memory | plan, per-file prepare/mutate/confirm, commit, publish, rollback, recovery | crash between any two steps, external edits, calls that fail after taking effect, rollback that itself fails, publication through the controller while the generator is suspended | all or nothing seen from outside; edits of others never overwritten; metadata forgets a source only when its file is gone |
| Domain store (`domain-store.ts`, `domain.ts`) | one metadata file per domain, temp files | load with healing and migration, save, exact compare-and-write | load-modify-save without a lock, stale temp files, half-written saves | a save is not lost, healing never prefers an older file |
| Run controller (`controller.ts`, `run-status.ts`) | `current` abort controller, pending format, history | dispatch, cancel, timeout, apply domain events, finish, format apply/cancel/refine | the busy check and the assignment of `current` are separated by awaits; the timeout races the last event; domain events are read-modify-write | one terminal status that tells the truth; an aborted run applies nothing further; history bounded |
| Init and force re-init (`phases/init.ts`) | domain under construction, quarantine directory, snapshot in memory | bootstrap, per-source attempt/retry/skip/stop, wipe and rollback | writers that recreate the public root during the wipe, failing removals, cancel anywhere, recovery of the snapshot | a failed wipe loses no byte; a source counts as analysed only after its ingest succeeded |
| Run event bridge (`run-event-bridge.ts`) | queue, cursor, wake callback, settlement | push, forward, forwardAbortable | a push or settlement between the check and the sleep; a consumer that leaves | no event lost, reordered or repeated; no sleep without a waker; early leave aborts the work |
| Native requests (`native-llm-executor.ts`, `native-request-retry.ts`, `native-openai-*.ts`) | attempts, timers, response stream | connect, stream, fall back, retry, time out, abort | timers racing late answers, retry of work already streamed | every request settles once; no retry after visible output |
| LLM lifecycle (`llm-lifecycle.ts`) | phase per call, bounded trace | phase events | events after a terminal phase, unclosed rows | one terminal phase per call |
| Index and log (`wiki-index-store.ts`, `wiki-log.ts`) | `index.jsonl`, `log.jsonl`, a promise queue per path | upsert, remove, append | interleaved read-modify-write | no record lost to a concurrent update |
| Ingest (`phases/ingest.ts` and helpers) | pages, index, backlinks, deferred effects | write loop, duplicate removal, reconciliation | partial failure in the middle of the writes | failure leaves no page without its index record |
| Evidence, synthesis, structured output (`phases/ingest-evidence.ts`, `ingest-synthesis.ts`, `structured-output.ts`) | attempts, ledger | map, reduce, validate, repair, retry | unbounded repair, accounting over retries | attempts bounded, every fact accounted for |
| Model context and budgets (`model-context.ts`, `budget-resolver.ts`, `prompt-budget.ts`) | probed windows | probe once, learn down, resolve | concurrent probes, stale records | windows only shrink; budgets never exceed the window |
| Retrieval (`page-similarity.ts`, `wiki-graph-cache.ts`, ...) | embedding cache, graph cache | build, invalidate, rank | stale caches | a cached graph belongs to the pages it is used for |
| Query, chat, lint, format (`phases/*.ts`) | run-local | answer, repair, apply fixes, segment | partial failure, repair loops | bounded repair; tokens of the source preserved by format |
| Settings (`local-config.ts`, `settings-persistence.ts`) | `local.json`, `data.json` | load-merge-save | concurrent saves | no setting lost |
| Migrations (`storage-migration.ts`, `migrate-*.ts`) | old and new layouts | migrate at load | crash between steps | idempotent, no data lost |
| Shell and UI (`main.ts`, `view.ts`, `modals.ts`, `settings.ts`, `i18n.ts`) | widgets | callbacks into the controller | - | not modelled |

How they interact: the user interface calls the controller; the controller builds an `AgentRunner`
and consumes its asynchronous generator of *run events*; phases yield events and await the model
through the native executor, bridging its callbacks with `RunEventBridge`; the controller applies
domain events to the domain store while the generator is suspended at its `yield`; a deletion
commits its metadata through such an event (`delete_state_commit`), whose receipt it then checks.

## 2. What the modules are

Thirty-three modules model code, and each is the state, the initial states, one action per operation, handler or
step between two awaits, and the properties of one component.  Everything a module leaves open (which answer the model gives, whether
a call fails, what a person edits, when the user stops) is a choice of the action.  Contents are as
coarse as the properties allow: a page is the set of what it says, a request its size, a source the
kinds of its lines.

| Module | Models | Question |
|---|---|---|
| `AtomicDelete` | what deleting a source promises | the abstract specification |
| `DeleteTransaction` | `phases/delete.ts`, `file-transaction.ts`, `delete-state-dispatch.ts`, the exact metadata write of `domain-store.ts` | is a deletion all or nothing, through crashes, edits and failing calls |
| `EventBridge` | `run-event-bridge.ts` and the loop that consumes it | does the consumer get every event, in order |
| `WipeTransaction` | `wipeDomainFolder` and its rollback in `phases/init.ts` | are the bytes of the wiki somewhere until the wipe is done |
| `InitRun` | `runInit`, `runInitFromPreparedSources`, `runIncrementalReinit`, `run-status.ts`, `applyDomainEvent`, the event loop of `controller.ts` | is what the registry records true |
| `RunDispatch` | `dispatch`, `dispatchChat`, `cancel`, the timeout and the history of `controller.ts`; `agent-runner.ts` around it; the cached graphs | does the history tell the truth, does Cancel reach the run |
| `DomainStore` | `domain-store.ts` and its callers | is the registry ever torn, does a change come back |
| `StorageMigration`, `PageMigration` | `storage-migration.ts`, `migrate-jsonl-domain-storage.ts`; `migrate-drop-sections.ts`, `migrate-okf-frontmatter.ts` | is an old vault converted without loss, through crashes and reloads |
| `NativeRequest` | `native-llm-executor.ts`, `native-request-retry.ts` | does a request answer once, from one attempt |
| `TransportFetch` | `native-openai-transport.ts` | is every connection, buffer and dispatcher let go |
| `LlmLifecycle` | `llm-lifecycle.ts` | the reducer that the modules emitting events are checked against |
| `StructuredOutput` | `phases/structured-output.ts` | attempts, fallbacks and output limits that end |
| `ModelContext` | `model-context.ts`, `budget-resolver.ts` | windows and budgets under overlapping probes |
| `Ingest` | `runIngest` of `phases/ingest.ts` | does a page lose words, does an ok outcome tell the truth |
| `MarkdownChunks`, `EvidenceMap`, `EvidenceReduce` | `markdown-chunks.ts`, `phases/ingest-evidence.ts` | is every line of a source read, every packet reduced, within the budgets |
| `Bootstrap`, `Synthesis`, `TechnicalEvidence` | the bootstrap of `phases/init.ts`, `phases/ingest-synthesis.ts`, `phases/synthesis-evidence-ledger.ts` | divisions that lose nothing; code and URLs that are kept and not invented |
| `SectionPatches` | `section-patches.ts` | does a patch touch only its section |
| `EmbeddingRefresh` | `wiki-index-store.ts`, the refresh of `page-similarity.ts` | is a vector of an older text committed |
| `RetrievalGraph`, `ContextSelection` | `wiki-graph-cache.ts`, `wiki-graph.ts`, `retrieval-prune.ts`, `fusion.ts`; `chunk-dedup.ts`, `reranker.ts` | is the retrieved set the one described |
| `QueryRun`, `QueryRequest`, `QueryCorrection` | `phases/query.ts`, `query-cross-domain.ts`, `query-answer.ts`, `chat.ts`, `query-link-validator.ts` | is the answer shown the one that was corrected, is a stop obeyed |
| `LintRun`, `LintBatch`, `LintChat` | `phases/lint.ts`, `lint-batches.ts`, `lint-chat.ts` | do pages, index and links agree afterwards |
| `FormatRun`, `FormatSegments` | `phases/format.ts`, `format-segments.ts` | does the formatted note keep the note |
| `PdfRecognition` | `phases/attachment-analyzer.ts`, `vision-recognition.ts` | is every page recognised once |

`DeleteProofs`, `WipeProofs`, `InitRunProofs`, `RequestsProofs` and `VaultProofs` hold theorems about the
module or suite they are named for; those of `EventBridge`, `RunDispatch` and `Ingest` follow their specifications.  `MCDelete` gives the
deletion its files.  `Vault`, `Requests` and the other `MC` modules are suites.

`PROJECT.json` maps every definition to the lines it stands for.  Where two functions of the code take the same
steps (`runInitWithSources` and `runIncrementalReinit`, `answerFromContext` and `runLintChat`), the actions are mapped to
the first and their disjunction (`Run`, `Progress`) to the second.  In a module, a definition that is
introduced by "A mutated form" is a plausible bug in the definition that follows it.  No action
uses such a definition: it is there to show that the properties can fail.

### Suites

`MCDivision`, `Requests`, `MCPages`, `MCAnswers`, `Vault` and `MCEnds` each check several components that answer
to one question.  A suite takes its components by `INSTANCE ... WITH`; the variable `part` says which of them a behaviour
is a behaviour of, chosen in `Init`, and `s1`, `s2`, ... are its variables in the order of its module.  The states of a suite are
the states of its parts side by side, no more, and a property of a suite is the conjunction, part by part, of the
properties of the components that belong to its theme.  The parts of a suite do not interact:
composition is inside the modules (`DeleteTransaction`, `InitRun`, `RunDispatch`), where the code calls from one
into the other while something is suspended.

### Deleting a source

`vault`, `journal` and `metadata` are the governed files, `delete-journal.json` and what the domain
metadata says of the source.  Everything else is memory of the one run that is active (`pc`), and
`Rest` is what a return, an uncaught error and a crash have in common: the memory is gone.  A run
goes through the *stages* of `runDelete` (pages removed, remaining sources re-ingested, orphans
purged, backlinks, the source itself, the log, the commit).  In each stage any file that stage may
touch goes through `captureMutation` of `file-transaction.ts`, one action per `await`: `Capture`
(read and compare), `Prepare` (the journal names the step), `PostWal` (read again), `Mutate` (the
adapter call), then one of the three `Confirm` actions, by what the file now holds.  An error in a re-ingest
is caught and fails that source; anywhere else it ends the forward part.  `Fail`, `RollCheck`,
`RollWrite`, `RollVerify`, `RollDone`, `Unjournal` are the rollback, `Recover` is the start of a
run that finds a journal.  `Publish`, `Snapshot`, `Recheck`, `Compare`, `Save`, `ReadBack`, `Seal` are the controller's
handling of `delete_state_commit`; `Receipt` and `Cleanup` are the generator resumed.

Contents are a few model values.  `EditFile` and `EditMetadata` are a person or a sync client,
`Crash` closes the application, a *fault* is an adapter call that throws, before or after it took
effect, or that reports a success it did not have.  `ClosedWindows` is an assumption on the editor
and not a part of the code: the adapter has no compare-and-swap, so an edit that falls between
the last read of a file and the call that replaces it is overwritten (file-transaction.ts:107), and so is one
that falls between the last comparison of the metadata and their write (domain-store.ts:384, :389).  The
safety runs set it, the part of `ends` does not.

### The event bridge

The fields of `RunEventBridge` have their names.  `pc` is the place where the generator is
suspended, `settlement` the operation's promise.  `Push` and `Settle` come from the operation and
its callbacks at any time; `Yield`, `Sleep`, `Drained`, `Return` are the segments of the generator
between two suspensions; `Ask` and `Leave` are the consumer; `Forward` begins the next operation on
the same bridge.  Events are numbered in the order in which they are pushed.  `owed` is the set of those
pushed before their operation settled.  A callback that comes later has no promise: the return
statement of an async generator awaits its value before the `finally` block empties the queue.

### The wipe

A tree is which of its files and folders exist, and whether a file has its original bytes.  There
are three places on disk (`root`, the `quarantine` in the transaction folder, `recovery`) and one in memory
(`snapshot`).  `Forward` is `wipeDomainFolder`, `Back` is `rollbackWipeTransaction`.  `WriteRoot` is anybody
else who writes under the public path, making it if need be.  The code documents (init.ts:1676-1686) that
nobody writes into the transaction folder, and the model keeps to that.  External
assumptions: a rename of a folder is atomic and refuses an existing target; `mkdir` makes the
parents.  `ProbesFail` lets an `exists()` fail as well; the run `wipe` leaves it off (see section 5).

### Initialising a domain

A source is a number, and a run takes its sources in their order.  `content` is the version of each
source, made larger by edits.  `pages` is, for each source, the version whose ingest was completed
last since the last wipe: the model knows nothing else of the wiki.  A domain is whether
it has entity types and the versions in `analyzed_sources`.  One action is one `await` of the run or of the
loop over its events; an event that changes the domain goes through `Persist` (load, `applyDomainEvent`, save)
while the generator is suspended.  The four modes are an init of a whole domain (`plain`, also as a
dry run: the user interface offers a dry run only there), of named sources (`sources`, any non-empty
subset), with `force`, and incremental.  Abstracted: a bootstrap is an answer
or a failure, an ingest is complete or failed, the wipe is one step that succeeds, fails clean or
fails for good (`WipeTransaction` justifies the three outcomes).  `target`, `began`, `derived`, `known`, `lost`
are history.  Runs follow each other; two at once are what `RunDispatch` is for.

### Dispatch

`run[r]` is one operation from the click to the history: its place (`at`), its signal, its timeout, the status reduced from its
events so far.  `current`, `label`, `view` are fields of the controller that all runs share.  `dispatch` asks
whether it is busy first and sets `current` several awaits later; `QuickClicks` lets a second click
fall in between.

### One ingest

`run` is what `runIngest` has in its variables, with `at` for where it is.  A page is the set of what it says: "tech", the technical
evidence of the source; "text", older knowledge; "mine", what the user writes during the run; "resource", that its
frontmatter names the source.  `slipped` is the history of what was edited since the run last compared it: the only
exception the code cannot close.  What the user may do at any await is to edit, create or delete a page, edit the source, cancel.

### One request

`NativeRequest` separates the settling of the race between network, timer and abort from the continuation of the code:
an abort may fall in between.  `TransportFetch` is one level below, `StructuredOutput`, `QueryRequest` and
`FormatRun` are above it and take the outcome of a request as a choice.

## 3. Fairness

JavaScript's event loop resumes every `await` whose promise settles, and an adapter call settles.
So the steps of an active operation are weakly fair, and nothing is assumed of the user, of crashes, of faults, or of an
operation behind the bridge, which need not settle: the model may stop answering.  That is why `Delivered`
promises the events and not the end of the operation.

`MCEnds` has one weak-fairness condition per thing that is awaited apart from the others (`Work1` to `Work6`): for most
parts there is one, for two overlapping refreshes of the embeddings, or two runs of the model context's store, there are several.
`Timer` alone is strongly fair: the idle timer of a request is cleared and set again with every chunk, and
what the code relies on is that a timer set again and again does fire when nothing comes.  Requests to the model end in these
parts because `NativeRequest` has timeouts and its own part shows that they suffice.

`CHECK_DEADLOCK FALSE` is in every configuration because the systems do come to rest: no run is active
and the bounds on runs, edits, crashes and faults are used up, or the one operation of the model is over.

## 4. What is checked

| Run | Bounds | What it shows |
|---|---|---|
| `delete_edits` | 3 files, 2 re-ingested sources, 4 mutations, 1 edit, 1 crash, abort | `WriteAhead`: what is replaced is in the journal first. `OriginalsRecoverable`: until publication, every original of an untouched file is in the vault or in the journal. `MetadataEditsKept`, `PublishedIsFinal`. `ImplementsAtomicDelete`: as recovery would leave it, the vault changes once or not at all |
| `delete_faults` | 4 files with an orphan page, 5 mutations, 1 fault, 1 crash | `OriginalsRecoverable` with failing calls, and `ForgottenIsDeleted`: the metadata forgets a source only when its file is gone |
| `delete_forgotten_step` | 3 files, 2 re-ingested sources, 1 fault, 1 crash | a violation: see Findings |
| `event_bridge` | 4 events, 2 operations | `NoLostWakeup`, `NothingLost`, `InOrder`, `LeavingAborts`, `Delivered` |
| `init_run` | 2 sources, 2 versions, 2 runs, 1 fault, 1 crash, cancel, timeout (1.8 million states) | `RecordedIsIngested`, `DoneMeansComplete`, `DomainSurvives` |
| `wipe` | a page at the top, one in a folder, 2 faults, 2 foreign writes, abort | `BytesKept`, `CleanFailure`, `ForeignKept`, `DoneMeansGone` |
| `division` | sources of 5 lines, 4 packets, 3 candidates, 3 entities, 2 pages of 2 sections, notes of 4 lines | `NoPartLost`: what is cut is put together whole. `RequestsFit`: no request exceeds what it was divided for |
| `requests` | 2 retries, 3 chunks, windows of 20 tokens, 2 runs over 2 models, 4 pages of a PDF (0.9 million states) | `OneAnswer`, `RowsTrue`, `WithinWindow`, `NothingLeftOpen`, `StopsObeyed` |
| `pages` | an ingest of 3 pages with an edit, one of 4 pages without, patches of pages of 2 sections, a lint of 3 pages without failures, with failing writes, and with failing removals and reads, a chat about 2 (3.7 million states) | `TextKept`, `ReferencesAgree`, `OutcomeTrue`, `NothingTakenAway` |
| `answers` | 2 notes and 2 jobs, or 2 models; graphs of 3 pages; 4 sections; 3 domains | `RetrievalSound`, `AnswerTrue`, `NothingStale` |
| `vault` | 2 domains, 3 calls one after the other, files of interrupted writes; both old layouts with 1 edit; 2 pages with 2 links, one page with every history; 2 runs of 3 events; 1 crash, 1 fault (3.7 million states) | `RegistryKept`, `MigrationLosesNothing`, `RunsTrue`, `KeptForInspection` |
| `ends` | 27 parts with smaller bounds (0.4 million states) | `EverythingEnds`: each operation that begins is over some time |

The type invariants of the other modules are conjuncts of `OutcomeTrue`, `RunsTrue` and their like.

Why the bounds are enough.  *Deletion*: the protocol treats one file at a time, and files interact only through
the manifest; two files that are written more than once (page and index) and the source give every relation that the
journal knows (same path twice, different paths, the source last).  Two re-ingested sources are needed
for a swallowed error to be followed by another step.  One crash suffices to reach recovery,
and a recovery that ends or is left alone may be started again.  *Bridge*: four events on two operations let the second operation begin with events
already queued and a cursor to reset.  *Wipe*: a folder inside a folder gives the order of removals;
two faults give a call that fails in the forward part and one that fails in the rollback.  *Init*: two sources have a first and a
last, two runs let the second use what the first recorded.  *Divisions*: the smallest sizes at which a division
is divided again, a remainder is left and a budget shrinks twice.  *Ingest*: three pages are a target, a
duplicate and one that only the user touches; a fourth is needed for a merge that was given up to have noted the target of another one, which
the proof attempt of section 5 brought to light.  *Dispatch*: two runs overlap, and a history of one entry is full at once.

### Findings

`delete_forgotten_step` (`RestartRestores`) expects a violation.  A journal write that fails inside a re-ingest is
swallowed (delete.ts:962-972).  The next remaining source then prepares over the undecided step
(delete.ts:820-837).  After a crash the recovery removes the journal, and the file of the
forgotten step keeps its new content.  `tests/delete-index-integrity.test.ts:944`: "delete journal is write-ahead
durable before index mutation and restart restores bytes".

Other places where the modules follow the code and a comment, a test or a document says something else.  The
properties are stated so that they hold of the code; what is excepted in them is this:

- delete.ts:671 refuses a recovered journal with a prepared step that never took place (the comment at :817
  says "either side"); file-transaction.ts:190 meets a conflict of its own making when a rollback with one path
  twice is restarted (`tests/file-transaction.test.ts:239`).
- init.ts:1991: an `exists()` that throws right after a successful removal keeps the path out of `removed`; its
  bytes are not written back (`CHANGELOG.md:222`, "exact rollback").  init.ts:1252 ties the bootstrap to position 0 (comment at :1176).
- controller.ts:833: a second click between the busy check and `current` starts a second run, and the end of the first takes
  Cancel away from the second.  controller.ts:991: a run that wrote and failed leaves a cached graph.
- domain-store.ts:238 removes the old registry before all folders have their metadata; :249 leaves a temporary
  file that a later load promotes; controller.ts:941 and the settings dialog load, change and save the whole list without an order.
- migrate-jsonl-domain-storage.ts:221 removes the registry first and cannot resume; :197 takes a list of analysed sources for a map.
  storage-migration.ts:35: a copy left by a closed application is converted over newer metadata.  migrate-okf-frontmatter.ts:220
  sets the flag although pages failed.
- structured-output.ts:404 keeps a raised output limit for a longer prompt (comment at :417).
- model-context.ts:291: who joins a probe is cancelled with the one who began it; :310 and :267 overwrite records.
- ingest.ts:1405: a cancel inside a merge is taken for a failed merge.  ingest.ts:1397-1414: a merge that is given up keeps the
  duplicates it noted, and one of them may be the target of the next merge: the page is written and then removed.
- ingest-evidence.ts:1261 can miss a chunk size that fits; :1895 accepts a request larger than a refused one.
  init.ts:562 does not widen the budget for too many groups.
- synthesis-evidence-ledger.ts:421 is not idempotent behind an open fence; :282 takes a prefix of a URL for the URL.
- migrate-drop-sections.ts:14 says "so no graph edge is lost": links that only the change history of a page has are removed
  with it (strip-legacy-sections.ts:42-56 lifts those of the related sections), as `tests/eval/legacy-sections/run.ts:77` and `:140` want.
- domain-store.ts:231: an old registry that needs no conversion is given back without being saved; until some call saves, its domains have no
  metadata.  :422-425: a promoted write that throws after it took effect leaves metadata of a domain that is not in the list; the next
  save removes them, and the interrupted write stays beside them.
- lint.ts:639, :649: a deletion that fails after its page was removed is reported (:659); the page's record stays until the index is reconciled and
  its name stays in the notes.  :850-866: a note that cannot be written is reported and stays without the backlink.  A failing write at :52, :67,
  :689, :812, :832 or :877 ends the run, which can leave one record of a removed page; a failing refresh at :669 ends it as well.
- lint.ts:809 (links to pages the run deleted), :569 (two patches of one page), :767 and :687 (folders and
  records of pages that could not be read or removed); lint-batches.ts:126, :160; lint.ts:340; lint-chat.ts:414.
- section-patches.ts:610 (contents that open a fence), :429 (indented code after a list).
- query-answer.ts:302, :309, :328, :446 send events the reducer of the trace refuses; :88 and :297 do not report a refusal.
- page-similarity.ts:1364 refuses a refresh after an edit by hand; :1286 erases the chunks of a page created meanwhile.
- wiki-graph.ts:55 expands from seeds that are no pages; retrieval-diag.ts:26 shows ranking by words as vectors.
- format-segments.ts:51, :92; format.ts:1208 (a row left open), :1145 (a stop during the last piece); format-utils.ts:115.
- attachment-analyzer.ts:597: a page refused after two larger batches is not resized.

## 5. What is proved

TLAPS proves these for every value of the constants that satisfies the modules' assumptions (finite or not,
any bounds).

| Theorems | Assume | Say |
|---|---|---|
| `TypeCorrect`, `PublicationIsFinal`, `ForgottenIsGone` (`DeleteProofs`) | - | `TypeOK`, `PublishedIsFinal`, `ForgottenIsDeleted`, with any edits, crashes, recoveries and faults |
| `JournalWrittenAhead`, `MetadataKept` | `ClosedWindows` | `WriteAhead`, `MetadataEditsKept` |
| `OriginalsKept`, `DeleteIsAtomic` | `MaxFaults = 0 \/ Remaining <= 1` | `OriginalsRecoverable`, `ImplementsAtomicDelete` |
| `NeverSleepsOn`, `KeepsWhatIsOwed`, `KeepsOrder`, `LeavingAbortsWork` (`EventBridge`) | - | `NoLostWakeup`, `NothingLost`, `InOrder`, `LeavingAborts` |
| `TypeCorrect`, `RecordsAreTrue`, `DomainStays`, `DoneIsComplete` (`InitRunProofs`) | - | `TypeOK`, `RecordedIsIngested`, `DomainSurvives`, `DoneMeansComplete`, with any number of sources, runs, failures, crashes and edits |
| `WipeInvariant`, `WipeTypeCorrect`, `WipeFailsClean`, `WipeKeepsForeign`, `WipeDoneIsGone` (`WipeProofs`) | - | `CleanFailure`, `ForeignKept`, `DoneMeansGone`, for every tree |
| `WipeKeepsBytes` | `~ProbesFail` | `BytesKept` |
| `NativeRequestSafe` (`RequestsProofs`) | - | of `NativeRequest` by itself: `TypeOK`, `OneAttemptInOrder`, `ReturnsEverything`, `RowsAccepted`, `RowsSettled`, `NoOrphanRequest`, for any number of retries and chunks |
| `AnswersWhole` | - | `OneAnswer`, for any number of attempts, chunks, context units, pages and pieces |
| `TraceTrue` | - | `RowsTrue` |
| `WindowsKept` | - | `WithinWindow`, for any windows, budgets and costs |
| `NothingLeft` | - | `NothingLeftOpen`, for any number of calls and models |
| `StopsAreObeyed` | - | the action property `StopsObeyed` |
| `TypeCorrect`, `HistoryIsTrue`, `GraphIsFresh`, `HistoryKeepsNewest` (`RunDispatch`) | - | `TypeOK`, `StatusTrue`, `GraphFresh`, `HistoryNewest`, also when dispatches overlap |
| `CancelIsHeard` | `~QuickClicks` | `CancelReaches` |
| `RegistrySafe` (`VaultProofs`) | - | `RegistryKept`, for any number of domains, of calls one after the other, and of crashes |
| `MigrationsSafe` | - | `MigrationLosesNothing` (every edge but those only a change history named), for any number of domains and pages, any links, faults, crashes and edits |
| `DispatchSafe` | - | `RunsTrue`, for any number of runs, with one click at a time |
| `InspectionSafe` | - | `KeptForInspection` |
| `TypeCorrect`, `RecordsStay`, `EvidenceIsThere`, `ListedExist`, `NoWordLost`, `SourceStays`, `CancelIsObeyed` (`Ingest`) | - | `TypeOK`, `RecordsKept`, `IngestedIsThere`, `ArticlesExist`, `WordsKept`, `SourceKept`, `CancelStopsWrites`, for any set of pages and any number of edits |

**Types of the deletion.**  `TypeOK` bounds the rollback cursor by the length of the manifest, which is not
inductive: `RollWrite` reads entry `cursor` and goes on to `cursor - 1`.  `TypeInv` adds `Control`: where
a change is in hand, where the cursor is positive, and that a re-ingest in progress is one of those left.

**Write-ahead.**  `OnDisk` says that the manifest in memory is a part of the durable one, that between the
journal write and the file write the journal's prepared step is the change in hand and, with
closed windows, that the file still has the image which was read last.  The theorem then needs one case per action
that writes a file: there are two, `Mutate` and `RollWrite`.

**Originals.**  `OriginalsRecoverable` speaks of the first before-image of a path.  It is not
inductive: a step that appends a second entry for a path must know that the first exists, and
removing the journal must know that the loop has undone everything.  `Safe` is the
conjunction of `Held` (the journal in memory is the durable one, and valid), `Known` (a journal that says
published is never ahead of the metadata), `InHand` (the step being taken and the step a crash left undecided),
`Originals` (where recovery looks for the original of each clean file) and `Undoing` (what the
loop has put back so far).  That the chain of a path is consistent (`ValidJournal`) is what makes undoing the
entries from the newest to the oldest end at the first before-image.  With any number of faults the argument still holds when there is
at most one remaining source to re-ingest: the only place where an undecided step can be prepared over is the next
re-ingest.  `Tolerant` is that condition, and `delete_forgotten_step` shows that it is needed.

**Publication.**  `Settled` is `Publishing` (what the journal and the snapshot say at each step of the
commit, and that the source is gone at `save`) and `Final` (after publication the run is past everything that
writes, and any journal left says so).  It needs no condition on faults, and `PublicationIsFinal` and `ForgottenIsGone` follow.
`MetadataKept` needs `Compared` besides, that at `save` the metadata are still the snapshot.  This holds with closed windows only: the
program compares at domain-store.ts:384 and writes at :389, and an edit in between is overwritten.

**Refinement.**  `AtomicDelete` has one step, in which the shown vault changes from the original to what
is published.  `Abstract` says what a clean file shows: what recovery would leave there, or after publication what is there.  `StepRefines` takes
each action: before publication `Abstract` is constant because of `Safe`; `Save` is the step; after it `Settled` keeps the files.

**Bridge.**  `Ordered` (the queue ascends and continues what was received), `Position` (how far the queue
has been read, by the place of suspension; when the value is being returned nothing that is owed is left) and `Control`
(`wake` is set exactly while asleep) are together inductive with the type invariant.

**Init.**  The types need `Control`: a run that works on a source has a domain in memory and has read the
source, and the places of a force run are reached in mode `force` only.  `RecordedIsIngested` compares the
disk with the wiki; what the run is *going* to record is in its memory, so `Ingested` adds that neither the
domain in memory nor the version in hand is ahead of the pages, and the pages not ahead of the sources.
`Registered` says where the registration may be missing: between the wipe and the
handling of the event that creates the domain again.  `DoneMeansComplete` speaks of the end of a run; its strengthening
is about the middle.  `Progress`: unless the status is already an error, every source off the list is
recorded in memory and on disk in a version no older than `began`; `InStep` and `Fresh` say that the
list, the memory and the version in hand are those of this run.  The four modes, the retries and the
dialog differ only in how they leave the list, which one lemma (`ListSteps`) settles for all of them.

**Wipe.**  `WipeInv` says for each place of the code in which of the places on disk the tree is, what the snapshot
has of it, and that a file that has left the quarantine is in `removed`.  The last is what a failing `exists()` breaks: with
`ProbesFail` TLC finds a file that is lost, so `WipeKeepsBytes` has the hypothesis and the other theorems have none.

**Requests.**  A theorem of the suite `Requests` combines seven invariants, one for each part (`RequestsInv`); a step of one part
leaves the others alone.  Each part's invariant is `Inv` of its module.

- `NativeRequest`: `Control` (types by place), `Awaited` (what the race of the attempt in hand
  can still settle to), `Rows` (the phase of each attempt's row, by the place of the code), `OnNetwork` (only the current attempt, and
  only while it is awaited) and `Chunks` (what was held back and what was handed over are, together, the beginning of what the winning attempt
  sent).  The retry loop needs nothing of its own: a new attempt begins only when nothing was handed over.
- `TransportFetch`: `OnNetwork` and `Body` say by place what of the exchange is open, `Traced` which stages cannot have
  been emitted yet.  That an emitted stage fits the story then follows from a lemma about appending to one.
- `StructuredOutput`: `RowOf` is the phase of the row by place, kind of client and reply.  A client that keeps its rows opens
  them with its answer, so the row of a call can be closed already when the call goes on.
- `ModelContext`: `Carried` ties a probe to the caller that began it and every waiting caller to a probe.  The budgets follow from
  arithmetic about the caps, with the calibration in per cent.
- `QueryRequest`: `RowsUsed` counts rows by attempt and repetition, which is why they suffice; `RowsInTurn` and `RowNow` close them; `Voice`
  allows text of the last request alone.  `Sent` has the argument for `StrictSubset`.  A second build may use the units of the first but
  the last.  Were nothing left out, the packing would contain a unit that was not offered: what was packed has a last unit (the minimal
  counterexample of a well-founded order), and the others fit whenever they fitted together with it.
- `FormatRun`: `Counted` and `Cut` say that a request for a piece has a piece, `InOrder` that what is about to be written keeps the tokens
  which must be kept.
- `PdfRecognition`: `NeverRefusedAgain` compares a batch with all that were ever refused, while the code remembers the last one only.  `InTurn`
  says that the pages to send are the last ones of the document, in order; `Past` that a refused batch began there or earlier; so only
  those which begin with the same page in the same size matter (`Again`).  `Longer` says that each of them is longer than the next batch: before
  the pages are packed, the last of them is a beginning of what is to be sent and the smaller budget does not pack more than it; when it
  packs as many, the code sees the same batch and makes the budget smaller again.  A resized page is another page.

TLC checked each of these invariants on the instance of `requests` before it was proved.  Two modules were made easier to
reason about on the way: `QueryRequest` packs sets of units and no sequences, and `PdfRecognition` has the place in the pending pages (`first`,
`size`) where the code has a list of batches and an index.

**Dispatch.**  `Control` has for each run that its status is what its events allow (`Truthful`), `Recorded` that what is in the
history can change no more, and `GraphOwed` that a graph of older pages is owed to a run that wrote and is not through.  All three hold with
overlapping dispatches.  `Alone` is the further invariant for Cancel: one dispatch is between click and end, and the controller's
is its own.

`RunsTrue` of the suite `Vault` has all of this with one click at a time; `DispatchSafe` takes it from the lemmas of `RunDispatch`.

**Registry.**  `NothingLost` speaks of calls that are over and `ListIsRead` of the moment of a change; neither is inductive.  `Reading`
has the middle of a load: the list agrees with every file that has been visited (`Agrees`), and with all of them when the
load is over, when nothing is corrupt any more.  Two cases belong to `Agrees`: of a domain without metadata the list may have what the old
registry has, which a load gives back unsaved (domain-store.ts:231), and a domain may be missing from the list (`LeftOut`) whose interrupted write
was copied by a call that threw all the same (:422-425); that copy holds nothing a caller was told of.  `Saving` has the middle of a save, which writes folder by folder: the list
has everything that was kept, what is written is in the files, and a save that only heals leaves out no domain that has a
file.  `Deleting` keeps the promises to callers away from a domain that is being removed.  `Vault` gives `DomainStore` a single caller, which is the
hypothesis of the theorem: with two, a save loses what the other wrote in between (controller.ts:941, section 4).
Because of `CallsOK` the list of a call is never ahead of the changes begun, so a later change is never taken for an earlier one.

**Migrations.**  `GoneIsBackedUp` and `RecordsKept` are about the disk; what is *going* to be unlinked is in the place of the code.
`Moving` says which files of the oldest layout are already in the next one, so that the removal of the old registry
loses none; `BackingUp` that every file still to be unlinked is in the copy being made (`pend`) or, once the
manifest is written, in the backup; `AllStored` that the domains' metadata are written all or not at all unless there is a backup of
the registry: an interrupted conversion leaves some, and a load in that state builds its list from those alone.  A load after a
restart begins with what the crash left, so each conjunct holds at every place and not only at the end of a step.

**Pages.**  What a migration does to a page is one function (`Migrated`) and the argument is about it: `PageDrop` and `PageOkf` show
for every shape of a page that the edges of its body stay (`SameEdges`; those that only the change history names go), that the old sections or the old frontmatter are gone and that a second visit changes nothing (which `OnceIsEnough`
states of every page that can be reached).  The invariant then has only to say which pages were visited (`Visited`), by the flag that is saved or by the
place of the loop, and that pages with errors are excepted.

**Ingest.**  `RecordsKept`, `IngestedIsThere` and `ArticlesExist` speak of the end.  Before it, `Prepared` says that what will be
written says what the page said when it was read, `Doomed` that a duplicate has another page as its canonical one, `InTurn` what the
last comparison has seen (the edits since are in `slipped`), `Recorded` that one record at most is out of the index, and `Carried` where the evidence is:
in a change still to be written or in a page that names the source.  The removal of a duplicate moves it to the canonical page.
The proof attempt found two errors, one in the model (a near duplicate was refused by what had been prepared; the code
refuses what was routed) and one in the property.  It said that the evidence is in a page that names the source.  With four pages, a
merge that is given up leaves a page noted as a duplicate, a second merge takes that page for its target, and the page is removed after it was
written; what is left says the same but need not name the source.  `IngestedIsThere` now says so, `WrittenIsGone` is
the case in the invariant, and the part `merges` of `pages` has the four pages.

Proving also found guards of `CASE` that overlapped in `NativeRequest`, `Ingest` and `InitRun`.  TLC takes the first
guard that holds; the definition of `CASE` leaves it open, and nothing could be proved of them.  They are disjoint now.
In `PageMigration` and `InitRun` a prefix `UNION` or `SUBSET` beside a binary operator has parentheses because TLC and TLAPS
differ in what it applies to.

**Only model-checked.**  Liveness (`Delivered`, `EverythingEnds`): fairness and `ENABLED` are out of
the prover's reach.  The suites `division`, `pages` and `answers` have no theorem of their own: `NoPartLost` and `RequestsFit` are about functions that are recursive
over their data (chunks, groups, splits of splits), and so are the graph walks and rankings behind `RetrievalSound` and the sections
behind `TextKept`; induction over data needs theorems with an operator as a parameter, which the installed provers cannot
instantiate.  Of `pages` the part `Ingest` has the theorems of its module; `ReferencesAgree` and `OutcomeTrue` also speak of the lint and its chat, `AnswerTrue` of the
corrections and `NothingStale` of the refresh of the embeddings, which have no proofs yet.  Two registry calls at the same time, and overlapping dispatches
in the suite, are not claimed: the first loses changes, the second is proved in `RunDispatch` for everything but Cancel.

## 6. What is not modelled

In `DeleteTransaction`: how the plan is made from the pages and what a re-ingest writes (any
writes within `Writable`), the limits on the journal's size, a rollback entry whose restored file
would be outside the domain, several domains at once.  In `WipeTransaction`: the byte and file limits of the
inventory (an error like any other), binary files, the contents of the manifest beyond the tree.
In `InitRun`: what a domain contains besides types and hashes, partial ingests (they leave
pages that nothing is recorded of), other writers of the domain's metadata while a run is active (`DomainStore` has them).
In `Ingest`: being called inside a deletion (there `DeleteTransaction` governs the writes).

Left out: the merging of candidates of several domains, the batches and the consolidation of entities, the repacking of
one synthesis prompt, the ranking of pages by similarity, the cutting of unsupported technical text from an
answer, the application of a formatted note, and `local.json`; saving an answer as a page; the texts of prompts and
`buildEntityContext`; `migrate-wiki-prefix.ts`, `migrate-index-format.ts` and the moving of the developer's logs; the operation log,
which is appended to and read for display.  Pure user interface (`main.ts`, `view.ts`, `modals.ts`, `settings.ts`, `i18n.ts`), exports, evaluation
logs, scripts and the vendored and generated files stay out altogether.

Hazards that no property can cover: a crash in the middle of a wipe (init.ts:1988: what was removed existed only in memory, and
nothing at start-up looks for transaction folders); an edit between the last read and the write of a file
(file-transaction.ts:107: the adapter has no compare-and-swap); a callback of an operation that comes while the bridge returns
(run-event-bridge.ts:65); a clock that goes back, which makes the reducer refuse an event (llm-lifecycle.ts:163).

## 7. What is next

Theorems: `EmbeddingRefresh` (no stale vector is committed), `LintRun` (pages, index and links agree afterwards), `QueryRun` and
`QueryCorrection` (the answer returned is the one that was corrected).  Models: the application of a formatted note, which has a backup and two
renames, and the writes of the operation log inside the runs.
