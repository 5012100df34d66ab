----------------------------- MODULE PageMigration -----------------------------
(***************************************************************************)
(* The two migrations of the pages when the plugin is loaded:              *)
(* migrateDropSections removes the sections of older versions,             *)
(* migrateOkfFrontmatter brings the frontmatter to its final form.  Each   *)
(* page is read and written by itself; an error is reported and the next   *)
(* page follows; at the end a flag is saved and the migration never runs   *)
(* again. A page is what the two can tell apart in it: which links the     *)
(* sections and the frontmatter have and which fields.  External links are *)
(* moved like the outgoing ones and are left out.  An optional section is  *)
(* {} or {its links}.                                                      *)
(***************************************************************************)
EXTENDS Naturals, FiniteSets

CONSTANTS
  N,          \* bound: pages 1..N
  Links,      \* what a page may link to
  Histories,  \* bound: what the change history of a page may be at first
  Various,    \* bound: pages that may have every shape at first, the others one of a few
  MaxCrashes, \* bound: how often the application is closed
  MaxFaults   \* bound: pages that cannot be read or written

PageAssumption == Various \subseteq Nat /\ N \in Nat \ {0} /\ MaxCrashes \in Nat /\ MaxFaults \in Nat

VARIABLES
  page,    \* the pages
  flags,   \* the migrations the local configuration calls done
  at,      \* "off", the migration under way, "running"
  todo,    \* pages it has not visited
  crashes, faults,
  failed,  \* ghost: pages an error kept from being migrated
  first    \* ghost: the pages at first

vars == <<page, flags, at, todo, crashes, faults, failed, first>>

Pages == 1..N
Sections == {{}} \cup {{s} : s \in SUBSET Links}
Shape == [old : Sections, history : Sections, related : Sections,
          front : {"none", "broken", "yaml"}, key : {"absent", "list", "scalar"},
          outgoing : SUBSET Links, legacy : BOOLEAN, typed : BOOLEAN, described : BOOLEAN]
(* Pages of the old model and of the new one, and some on the way.         *)
FewShapes ==
  {p \in Shape : /\ p.old \in {{}, {Links}} /\ p.history = p.old /\ p.related = (IF p.old = {} THEN {Links} ELSE {})
                 /\ p.front = "yaml" /\ p.typed = p.described /\ p.legacy = ~p.typed
                 /\ p.outgoing = (IF p.typed THEN {} ELSE Links) /\ p.key = (IF p.typed THEN "absent" ELSE "list")}

(* The pages that can be: only readable frontmatter has fields.            *)
Possible(p) ==
  /\ p.key # "list" => p.outgoing = {}
  /\ p.front # "yaml" => p.key = "absent" /\ ~p.legacy /\ ~p.typed /\ ~p.described

(* The graph takes every link of a page; those of the history go with it.  *)
Body(p) == (UNION p.old) \cup (UNION p.related) \cup p.outgoing
Edges(p) == Body(p) \cup UNION p.history

Init ==
  /\ \E some \in [Pages \cap Various -> {p \in Shape : Possible(p) /\ p.history \in Histories}],
        others \in [Pages \ Various -> FewShapes] :
       page = [p \in Pages |-> IF p \in Various THEN some[p] ELSE others[p]]
  /\ first = page
  /\ flags = {} /\ at = "off" /\ todo = {}
  /\ crashes = 0 /\ faults = 0 /\ failed = {}

-----------------------------------------------------------------------------
(* Links go to the section Related, which is made when there is none.      *)
WithLinks(p, links) == IF links = {} THEN p ELSE [p EXCEPT !.related = {(UNION p.related) \cup links}]

(* stripLegacySections(addOutgoingLinks(content, extractRelatedLinks(content))): *)
(* the links of the related concepts are lifted, those of the change history     *)
(* are not.                                                                      *)
DropSections(p) == [WithLinks(p, UNION p.old) EXCEPT !.old = {}, !.history = {}]

(* relocateFrontmatterLinks: only a list is moved to the body and removed. *)
Relocate(p) ==
  IF p.key # "list" THEN p ELSE [WithLinks(p, p.outgoing) EXCEPT !.key = "absent", !.outgoing = {}]

(* migrateWikiPageOkf: without readable frontmatter every step returns the *)
(* content as it is.                                                       *)
Okf(p) ==
  IF p.front # "yaml" THEN p
  ELSE [Relocate(p) EXCEPT !.legacy = FALSE, !.typed = TRUE, !.described = TRUE]

Migrated(m, p) == IF m = "drop" THEN DropSections(p) ELSE Okf(p)

-----------------------------------------------------------------------------
(* onload: a migration whose flag is set is passed over.                   *)
Start(m) ==
  at' = (IF m \in flags THEN (IF m = "drop" THEN "next" ELSE "running") ELSE m)
  /\ todo' = IF m \in flags THEN {} ELSE Pages

Launch == at = "off" /\ Start("drop") /\ UNCHANGED <<page, flags, crashes, faults, failed, first>>
Second == at = "next" /\ Start("okf") /\ UNCHANGED <<page, flags, crashes, faults, failed, first>>

Visit(p) ==
  /\ at \in {"drop", "okf"} /\ p \in todo /\ todo' = todo \ {p}
  /\ page' = [page EXCEPT ![p] = Migrated(at, @)]
  /\ UNCHANGED <<flags, at, crashes, faults, failed, first>>

(* The error of one page, before its write or after it, is reported and    *)
(* the loop goes on.                                                       *)
VisitFails(p) ==
  /\ at \in {"drop", "okf"} /\ p \in todo /\ todo' = todo \ {p}
  /\ faults < MaxFaults /\ faults' = faults + 1 /\ failed' = failed \cup {p}
  /\ page' \in {page, [page EXCEPT ![p] = Migrated(at, @)]}
  /\ UNCHANGED <<flags, at, crashes, first>>

Flag ==
  /\ at \in {"drop", "okf"} /\ todo = {}
  /\ flags' = flags \cup {at} /\ at' = (IF at = "drop" THEN "next" ELSE "running")
  /\ UNCHANGED <<page, todo, crashes, faults, failed, first>>

Quit == at = "running" /\ at' = "off" /\ UNCHANGED <<page, flags, todo, crashes, faults, failed, first>>

Crash ==
  /\ at \notin {"off", "running"} /\ crashes < MaxCrashes /\ crashes' = crashes + 1
  /\ at' = "off" /\ todo' = {} /\ UNCHANGED <<page, flags, faults, failed, first>>

Loading == Launch \/ Second \/ Flag \/ \E p \in Pages : Visit(p)
Next == Loading \/ Quit \/ Crash \/ \E p \in Pages : VisitFails(p)

(* The application is opened again, and a load goes on while it is open.   *)
Spec == Init /\ [][Next]_vars /\ WF_vars(Loading)

-----------------------------------------------------------------------------
TypeOK ==
  /\ page \in [Pages -> Shape] /\ flags \subseteq {"drop", "okf"}
  /\ at \in {"off", "drop", "next", "okf", "running"} /\ todo \subseteq Pages

Final(p) == p.old = {} /\ p.history = {} /\ ~p.legacy /\ p.key # "list" /\ p.typed /\ p.described

(* No edge of the graph of pages is made up, and one is lost only where    *)
(* nothing but the change history of the page named it, whatever sections  *)
(* and fields a page had and wherever the application was closed.          *)
EdgesKept ==
  \A p \in Pages : Edges(page[p]) \subseteq Edges(first[p]) /\ Body(first[p]) \subseteq Edges(page[p])

(* A page visited again after a restart is not changed again.              *)
OnceIsEnough ==
  \A p \in Pages : \A m \in {"drop", "okf"} : Migrated(m, Migrated(m, page[p])) = Migrated(m, page[p])

(* When both flags are set, a page with readable frontmatter that no error *)
(* touched has its final form.                                             *)
FlaggedIsFinal ==
  flags = {"drop", "okf"} => \A p \in Pages \ failed : page[p].front = "yaml" => Final(page[p])

(* Both migrations are done at last and for good.                          *)
Pending == flags # {"drop", "okf"}

-----------------------------------------------------------------------------
(* The inductive invariant: a page has the edges it had outside its change    *)
(* history, and what a migration that is done, or has passed the page, has    *)
(* left there.                                                                *)
SameEdges(p, q) == Body(p) = Body(q) /\ p.history \in {{}, q.history}
Visited(m, p) == m \in flags \/ (at = m /\ p \notin todo)

Dropped(p) == page[p].old = {} /\ page[p].history = {}
InForm(p) ==
  page[p].front = "yaml" => ~page[p].legacy /\ page[p].key # "list" /\ page[p].typed /\ page[p].described

Inv ==
  /\ TypeOK /\ failed \subseteq Pages
  /\ \A p \in Pages : SameEdges(page[p], first[p])
  /\ \A p \in Pages : Possible(page[p])
  /\ at \in {"next", "okf", "running"} => "drop" \in flags
  /\ at = "drop" => "drop" \notin flags
  /\ at = "okf" => "okf" \notin flags
  /\ \A p \in Pages \ failed : Visited("drop", p) => Dropped(p)
  /\ \A p \in Pages \ failed : Visited("okf", p) => InForm(p)

=============================================================================
