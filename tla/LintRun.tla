------------------------------ MODULE LintRun ------------------------------
(***************************************************************************)
(* The quality check of one domain (runLint in src/phases/lint.ts).  The   *)
(* pages are read once; batches of sections are sent to the model, whose   *)
(* answers patch and delete pages; then everything that refers to a page   *)
(* is brought in line: links in other pages, the index, the notes the      *)
(* pages come from, the folders of the entity types.                       *)
(*                                                                         *)
(* `disk` is the vault, `mem` what the run believes of it.                 *)
(***************************************************************************)
EXTENDS Naturals, Sequences, FiniteSets, FiniteSetsExt, SequencesExt

CONSTANTS
  Pages, Types, Notes,  \* pages, entity types, notes outside of the wiki
  Gone,                 \* no page
  TypeOf,               \* the type whose folder a page is in
  Batches,              \* the batches: a sequence of sets of sections <<page, number>>
  Vaults,               \* the vaults a run starts with: functions from Pages to Contents or Gone
  Faults                \* calls that may fail: "write", "remove", "read"

LintAssumption ==
  /\ TypeOf \in [Pages -> Types] /\ Gone \notin Pages
  /\ \A i \in DOMAIN Batches : Batches[i] # {} /\ \A s \in Batches[i] : s[1] \in Pages
  /\ Faults \subseteq {"write", "remove", "read"}

(* A page: what a link [[x]] and a link [[x|text]] name, its notes, the sections that *)
(* were patched; without a note it is an invalid one.                                 *)
Contents == [links : SUBSET Pages, aliased : SUBSET Pages, notes : SUBSET Notes, patched : SUBSET UNION {Batches[i] : i \in DOMAIN Batches}, valid : BOOLEAN]

VARIABLES
  pc,
  disk, mem,
  listed,    \* allMdPaths: the pages there were at the start
  index,     \* pages with a record in the index
  articles,  \* wiki_articles of every note
  types,     \* the entity types of the domain
  useLlm,
  batch,     \* batches sent
  patches, deletes,  \* what the answers asked for, in order
  written,   \* writtenPaths
  refs,      \* deletedRefs
  decided,   \* history: pages the run decided to remove
  halfway,   \* history: removed pages whose deletion was then reported as failed
  unsynced   \* history: notes whose synchronisation was reported as failed

vars == <<pc, disk, mem, listed, index, articles, types, useLlm, batch, patches, deletes, written, refs, decided, halfway, unsynced>>

On(d) == {p \in Pages : d[p] # Gone}
(* What fails of S when such calls may fail: whatever failed may have been done. *)
Failing(faults, S) == IF faults \cap Faults # {} THEN SUBSET S ELSE {{}}
Without(d, S) == [p \in Pages |-> IF p \in S THEN Gone ELSE d[p]]

Init ==
  /\ pc = "start" /\ disk \in Vaults /\ mem = [p \in Pages |-> Gone] /\ listed = {}
  /\ index \in {Pages, {}} /\ articles \in [Notes -> {{}, Pages}] /\ types \in {Types, {}} /\ useLlm \in BOOLEAN
  /\ batch = 0 /\ patches = <<>> /\ deletes = <<>> /\ written = {} /\ refs = {} /\ decided = {}
  /\ halfway = {} /\ unsynced = {}

(* cleanupInvalidPages, then the pages are listed and read; one that cannot be read is *)
(* left out.                                                                           *)
Read ==
  /\ pc = "start" /\ pc' = IF useLlm THEN "ask" ELSE "types"
  /\ LET invalid == {p \in On(disk) : ~disk[p].valid} IN
     \E stay \in Failing({"remove"}, invalid) :
       LET removed == invalid \ stay IN
       /\ disk' = Without(disk, removed) /\ index' = index \ removed /\ decided' = removed
       /\ listed' = On(disk) \ removed
       /\ \E unread \in Failing({"read"}, On(disk) \ removed) :
            mem' = Without(disk, removed \cup unread)
  /\ UNCHANGED <<articles, types, useLlm, batch, patches, deletes, written, refs, halfway, unsynced>>

(* A removed page's record cannot be removed, which ends the run.          *)
ReadFails ==
  /\ pc = "start" /\ pc' = "failed" /\ "write" \in Faults
  /\ \E removed \in SUBSET {p \in On(disk) : ~disk[p].valid} : \E last \in removed :
       /\ disk' = Without(disk, removed) /\ decided' = removed
       /\ index' \in {index \ removed, index \ (removed \ {last})}
  /\ UNCHANGED <<mem, listed, articles, types, useLlm, batch, patches, deletes, written, refs, halfway, unsynced>>

(* Deletions an answer may ask for: of pages of the batch, with one of them to go to. *)
Removals(own) ==
  {<<>>} \cup {<<d>> : d \in {e \in own \X (own \cup {Gone}) : e[1] # e[2]}}
         \cup {ds \in [1..2 -> {e \in own \X (own \cup {Gone}) : e[1] # e[2]}] : ds[1][1] # ds[2][1]}

(* A batch is answered, validated against the pages of the run; or it is skipped. *)
Ask ==
  /\ pc = "ask"
  /\ IF batch = Len(Batches) THEN pc' = "patch" /\ UNCHANGED <<batch, patches, deletes>>
     ELSE /\ pc' = "ask" /\ batch' = batch + 1
          /\ LET known == {s \in Batches[batch + 1] : mem[s[1]] # Gone}
                 own == {s[1] : s \in known}
             IN \E ss \in SUBSET known, ds \in Removals(own) :
                  /\ patches' = patches \o SetToSeq(ss) /\ deletes' = deletes \o ds
  /\ UNCHANGED <<disk, mem, listed, index, articles, types, useLlm, written, refs, decided, halfway, unsynced>>

(* The signal is asked before every batch and every write.                 *)
Abort ==
  /\ pc \in {"ask", "patch", "config"} /\ pc' = "aborted"
  /\ UNCHANGED <<disk, mem, listed, index, articles, types, useLlm, batch, patches, deletes, written, refs, decided, halfway, unsynced>>

ToPatch == {p \in {patches[i][1] : i \in DOMAIN patches} : mem[p] # Gone}

(* Every patch is applied to the page as it was read: of two for one page the later one *)
(* remains.  validateWikiSources keeps the notes that exist.                            *)
Patched(p) ==
  LET mine == {i \in DOMAIN patches : patches[i][1] = p} IN
  [mem[p] EXCEPT !.patched = @ \cup {patches[Max(mine)]}]

(* The pages of the patches are written one by one, each with its record; what fails *)
(* is reported, and the run goes on: the page may be written, its record may not.      *)
Patch ==
  /\ pc = "patch"
  /\ IF ToPatch \ written = {} THEN pc' = "delete" /\ UNCHANGED <<disk, mem, index, patches, written>>
     ELSE \E p \in ToPatch \ written :
            /\ pc' = pc
            /\ \/ /\ "write" \in Faults /\ patches' = SelectSeq(patches, LAMBDA s : s[1] # p)
                  /\ disk' \in {disk, [disk EXCEPT ![p] = Patched(p)]} /\ UNCHANGED <<mem, index, written>>
               \/ /\ disk' = [disk EXCEPT ![p] = Patched(p)] /\ mem' = [mem EXCEPT ![p] = Patched(p)]
                  /\ index' \in {index \cup {p}} \cup IF "write" \in Faults THEN {index} ELSE {}
                  /\ written' = written \cup {p} /\ UNCHANGED patches
  /\ UNCHANGED <<listed, articles, types, useLlm, batch, deletes, refs, decided, halfway, unsynced>>

(* A link [[x]] to a page that is removed goes where its readers are sent. *)
Redirected(content, p, to) ==
  [content EXCEPT !.links = (@ \ {p}) \cup IF p \in content.links /\ to # Gone THEN {to} ELSE {}]

Linking(p) == {q \in On(mem) \ {p} : p \in mem[q].links}
Rewritten(d, pages, p, to) == [q \in Pages |-> IF q \in pages THEN Redirected(mem[q], p, to) ELSE d[q]]

(* The deletion that is next removes the page, its record, and rewrites the pages that *)
(* link to it.                                                                         *)
Delete ==
  /\ pc = "delete" /\ deletes # <<>> /\ deletes' = Tail(deletes)
  /\ LET p == Head(deletes)[1] to == Head(deletes)[2] IN
     /\ disk[p] # Gone
     /\ disk' = Without(Rewritten(disk, Linking(p), p, to), {p})
     /\ mem' = Without(Rewritten(mem, Linking(p), p, to), {p})
     /\ index' = (index \ {p}) \cup Linking(p) /\ refs' = refs \cup {p} /\ decided' = decided \cup {p}
  /\ UNCHANGED <<pc, listed, articles, types, useLlm, batch, patches, written, halfway, unsynced>>

(* A second deletion of a page, or a removal that fails: it is reported.   *)
DeleteRefused ==
  /\ pc = "delete" /\ deletes # <<>> /\ deletes' = Tail(deletes)
  /\ LET p == Head(deletes)[1] IN
     \/ disk[p] = Gone /\ UNCHANGED <<disk, decided, halfway>>
     \/ /\ disk[p] # Gone /\ "remove" \in Faults
        /\ \/ UNCHANGED <<disk, decided, halfway>>
           \/ disk' = Without(disk, {p}) /\ decided' = decided \cup {p} /\ halfway' = halfway \cup {p}
  /\ UNCHANGED <<pc, mem, listed, index, articles, types, useLlm, batch, patches, written, refs, unsynced>>

(* The page is removed and then a write fails: of its record, or of a page that links *)
(* to it or that page's record.  The rest is not rewritten and the deletion reported. *)
DeleteFails ==
  /\ pc = "delete" /\ deletes # <<>> /\ deletes' = Tail(deletes) /\ "write" \in Faults
  /\ LET p == Head(deletes)[1] to == Head(deletes)[2] IN
     /\ disk[p] # Gone /\ decided' = decided \cup {p} /\ halfway' = halfway \cup {p}
     /\ \/ index' \in {index, index \ {p}} /\ disk' = Without(disk, {p}) /\ mem' = Without(mem, {p})
        \/ \E done \in SUBSET Linking(p) : \E last \in Linking(p) \ done :
           LET off == (index \ {p}) \cup done IN
           \/ /\ index' = off /\ mem' = Without(Rewritten(mem, done, p, to), {p})
              /\ disk' \in {Without(Rewritten(disk, qs, p, to), {p}) : qs \in {done, done \cup {last}}}
           \/ /\ index' \in {off, off \cup {last}}
              /\ mem' = Without(Rewritten(mem, done \cup {last}, p, to), {p})
              /\ disk' = Without(Rewritten(disk, done \cup {last}, p, to), {p})
  /\ UNCHANGED <<pc, listed, articles, types, useLlm, batch, patches, written, refs, unsynced>>

Deleted ==
  /\ pc = "delete" /\ deletes = <<>> /\ pc' = "unsourced"
  /\ UNCHANGED <<disk, mem, listed, index, articles, types, useLlm, batch, patches, deletes, written, refs, decided, halfway, unsynced>>

Sourceless == {p \in written \cap On(mem) : mem[p].notes = {}}

(* A written page without a note is removed; that the removal failed is not noticed. *)
Unsourced ==
  /\ pc = "unsourced" /\ pc' = "config"
  /\ \E stay \in Failing({"remove"}, Sourceless) : disk' = Without(disk, Sourceless \ stay)
  /\ mem' = Without(mem, Sourceless) /\ index' = index \ Sourceless
  /\ refs' = refs \cup Sourceless /\ decided' = decided \cup Sourceless
  /\ UNCHANGED <<listed, articles, types, useLlm, batch, patches, deletes, written, halfway, unsynced>>

(* The vectors cannot be stored, or the record of such a page cannot be removed: *)
(* the run ends.                                                                 *)
UnsourcedFails ==
  /\ pc = "unsourced" /\ pc' = "failed" /\ "write" \in Faults
  /\ \/ UNCHANGED <<disk, index, decided, refs>>
     \/ \E done \in SUBSET Sourceless : \E last \in Sourceless \ done :
          \E stay \in Failing({"remove"}, done \cup {last}) :
            /\ disk' = Without(disk, (done \cup {last}) \ stay) /\ decided' = decided \cup done \cup {last}
            /\ index' \in {index \ done, index \ (done \cup {last})} /\ refs' = refs \cup done
  /\ UNCHANGED <<mem, listed, articles, types, useLlm, batch, patches, deletes, written, halfway, unsynced>>

(* actualizeDomainConfig: the model may add and leave out types.           *)
Config ==
  /\ pc = "config" /\ pc' = "types" /\ types' \in SUBSET Types
  /\ UNCHANGED <<disk, mem, listed, index, articles, useLlm, batch, patches, deletes, written, refs, decided, halfway, unsynced>>

(* A type without a page is removed with its folder and all that is in it; nobody *)
(* notices what cannot be removed.                                                *)
EmptyTypes ==
  /\ pc = "types" /\ pc' = "links"
  /\ LET empty == {t \in types : \A p \in On(mem) : TypeOf[p] # t}
         inside == {p \in Pages : TypeOf[p] \in empty} IN
     /\ types' = types \ empty
     /\ \E stay \in Failing({"remove"}, inside) : disk' = Without(disk, inside \ stay)
  /\ UNCHANGED <<mem, listed, index, articles, useLlm, batch, patches, deletes, written, refs, decided, halfway, unsynced>>

Stripped(p) == [mem[p] EXCEPT !.links = @ \cap listed, !.aliased = @ \cap listed]
DeadLinked == {p \in On(mem) : Stripped(p) # mem[p]}

(* stripDeadLinks: links of both kinds to what was not there at the start. *)
StripLinks ==
  /\ pc = "links" /\ pc' = "notes"
  /\ mem' = [p \in Pages |-> IF p \in DeadLinked THEN Stripped(p) ELSE mem[p]]
  /\ disk' = [p \in Pages |-> IF p \in DeadLinked THEN Stripped(p) ELSE disk[p]]
  /\ UNCHANGED <<listed, index, articles, types, useLlm, batch, patches, deletes, written, refs, decided, halfway, unsynced>>

(* A page cannot be written, which ends the run.                           *)
StripFails ==
  /\ pc = "links" /\ pc' = "failed" /\ "write" \in Faults
  /\ \E done \in SUBSET DeadLinked : disk' = [p \in Pages |-> IF p \in done THEN Stripped(p) ELSE disk[p]]
  /\ UNCHANGED <<mem, listed, index, articles, types, useLlm, batch, patches, deletes, written, refs, decided, halfway, unsynced>>

Backlinks(n) == {p \in On(mem) : n \in mem[p].notes}

(* stripInvalidWikiArticles: only pages there were at the start and that the run did *)
(* not remove.                                                                       *)
Valid(n) == articles[n] \cap (listed \ refs)

(* Every note is cleaned, then those the pages come from name them: one that cannot be *)
(* read or written then is reported, and the others go on.                             *)
SyncNotes ==
  /\ pc = "notes" /\ pc' = "reconcile"
  /\ \E unread \in Failing({"read"}, Notes), missed \in Failing({"read", "write"}, {n \in Notes : Backlinks(n) # {}}) :
     \E made \in SUBSET missed :
       LET cleaned(n) == IF n \in unread THEN articles[n] ELSE Valid(n) IN
       /\ articles' = [n \in Notes |-> cleaned(n) \cup IF n \in missed \ made THEN {} ELSE Backlinks(n)]
       /\ unsynced' = missed
  /\ UNCHANGED <<disk, mem, listed, index, types, useLlm, batch, patches, deletes, written, refs, decided, halfway>>

(* A note cannot be cleaned, which ends the run.                           *)
CleanFails ==
  /\ pc = "notes" /\ pc' = "failed" /\ "write" \in Faults
  /\ \E done \in SUBSET Notes : articles' = [n \in Notes |-> IF n \in done THEN Valid(n) ELSE articles[n]]
  /\ UNCHANGED <<disk, mem, listed, index, types, useLlm, batch, patches, deletes, written, refs, decided, halfway, unsynced>>

(* A mutated form: records of pages that are not there any more are kept.  *)
ReconcileAdds ==
  /\ pc = "reconcile" /\ pc' = "done" /\ index' = index \cup On(mem)
  /\ UNCHANGED <<disk, mem, listed, articles, types, useLlm, batch, patches, deletes, written, refs, decided, halfway, unsynced>>

(* reconcilePageIndex.                                                     *)
Reconcile ==
  /\ pc = "reconcile" /\ pc' = "done" /\ index' = On(mem)
  /\ UNCHANGED <<disk, mem, listed, articles, types, useLlm, batch, patches, deletes, written, refs, decided, halfway, unsynced>>

(* The index cannot be read or written, which ends the run.                *)
ReconcileFails ==
  /\ pc = "reconcile" /\ pc' = "failed" /\ "write" \in Faults /\ index' \in {index, On(mem)}
  /\ UNCHANGED <<disk, mem, listed, articles, types, useLlm, batch, patches, deletes, written, refs, decided, halfway, unsynced>>

Next ==
  \/ Read \/ Ask \/ Abort \/ Patch \/ Delete \/ DeleteRefused \/ Deleted \/ Unsourced \/ Config
  \/ EmptyTypes \/ StripLinks \/ SyncNotes \/ Reconcile
  \/ ReadFails \/ DeleteFails \/ UnsourcedFails \/ StripFails \/ CleanFails \/ ReconcileFails

Spec == Init /\ [][Next]_vars /\ WF_vars(Next)

-----------------------------------------------------------------------------
TypeOK ==
  /\ pc \in {"start", "ask", "patch", "delete", "unsourced", "config", "types", "links", "notes", "reconcile", "done", "aborted", "failed"}
  /\ disk \in [Pages -> Contents \cup {Gone}] /\ mem \in [Pages -> Contents \cup {Gone}]
  /\ index \subseteq Pages /\ articles \in [Notes -> SUBSET Pages] /\ types \subseteq Types
  /\ batch \in 0..Len(Batches) /\ written \subseteq Pages /\ refs \cup halfway \subseteq decided /\ unsynced \subseteq Notes

Done == pc = "done"

(* At the end the index has a record of exactly the pages that are there.  *)
IndexMatches == Done => index = On(disk)

(* Also when the run is stopped or fails half way: a page the run removed has no record, *)
(* but for those whose deletion was reported as failed and the one the run failed at.     *)
RemovedUnindexed ==
  Cardinality((index \cap (decided \ On(disk))) \ halfway) <= IF pc = "failed" THEN 1 ELSE 0

(* At the end a page is named by the notes it comes from, but for a note that was *)
(* reported as not synchronised.                                                  *)
BacklinksComplete ==
  Done => \A p \in On(disk) : \A n \in disk[p].notes \ unsynced : p \in articles[n]

(* At the end no note names a page that is not there, but for those whose deletion *)
(* was reported as failed: the notes it is in are not cleaned of it.               *)
NoStaleBacklink == Done => \A n \in Notes : articles[n] \subseteq On(disk) \cup halfway

(* At the end no page links to one that was missing when the run began, in either form. *)
OldDeadLinksGone == Done => \A p \in On(disk) : disk[p].links \cup disk[p].aliased \subseteq listed

(* No page disappears that the run did not decide to remove: not with a folder either. *)
OnlyDecided == pc # "start" => listed \ decided \subseteq On(disk)

(* A type that remains has a page at the end.                              *)
TypesBacked == Done => \A t \in types : \E p \in On(disk) : TypeOf[p] = t

(* Every run ends.                                                         *)
Pending == pc \notin {"done", "aborted", "failed"}

-----------------------------------------------------------------------------
=============================================================================
