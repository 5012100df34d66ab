----------------------------- MODULE DomainStore -----------------------------
(***************************************************************************)
(* The registry of domains: one metadata file in each folder of the wiki   *)
(* (DomainStore.load, save, promoteTmpMetadata, removeDomainFolder), read  *)
(* and written as a whole list by registerDomain, updateDomainSources, the *)
(* events of a run, the edits of the settings tab and the deletion of a    *)
(* domain.  Every call of the vault is a step of its own; the application  *)
(* may be closed between any two.  A record is the set of changes in it.   *)
(***************************************************************************)
EXTENDS Naturals, FiniteSets

CONSTANTS
  N,          \* bound: domains 1..N, each named after its folder
  Callers,    \* bound: calls under way at a time
  MaxChanges, \* bound: calls begun
  MaxCrashes, \* bound: how often the application is closed
  TmpBeside   \* whether an old interrupted write may have left its file beside metadata

StoreAssumption == N \in Nat \ {0} /\ MaxChanges \in Nat /\ MaxCrashes \in Nat

VARIABLES
  meta, tmp, \* metadata.jsonl and metadata.jsonl.tmp of every folder
  legacy,    \* the global registry file of older versions
  call,      \* the calls: where they are, what they do, the list they hold
  begun, crashes,
  kept,      \* ghost: changes whose call has ended well, per domain
  deleted,   \* ghost: domains whose deletion was begun and that were not added again
  gone,      \* ghost: those of them that the registry has not any more
  old        \* whether the entries of the old registry have an older form

vars == <<meta, tmp, legacy, call, begun, crashes, kept, deleted, gone, old>>

Domains == 1..N
Changes == 0..MaxChanges
Absent == [is |-> "absent", has |-> {}]
Corrupt == [is |-> "corrupt", has |-> {}]
Entry(changes) == [is |-> "entry", has |-> changes]
Files == {Absent, Corrupt} \cup {Entry(c) : c \in SUBSET Changes}
NoLegacy == [d \in {} |-> {}]
(* A list with d's entry set.                                              *)
With(list, d, changes) == [e \in DOMAIN list \cup {d} |-> IF e = d THEN changes ELSE list[e]]
NoCall == [at |-> "idle", op |-> "none", d |-> 1, mark |-> 0, list |-> NoLegacy, todo |-> {}, healed |-> FALSE]

Init ==
  /\ meta \in [Domains -> {Absent, Corrupt, Entry({0})}]
  /\ tmp \in [Domains -> {Absent, Corrupt, Entry({0})}]
  /\ TmpBeside \/ \A d \in Domains : meta[d] # Absent => tmp[d] = Absent
  /\ legacy \in {NoLegacy, [d \in Domains |-> {0}]} \* a save removes it before it writes a folder
  /\ legacy # NoLegacy => \A d \in Domains : meta[d] = Absent /\ tmp[d] = Absent
  /\ call = [c \in Callers |-> NoCall] /\ begun = 0 /\ crashes = 0
  /\ kept = [d \in Domains |-> meta[d].has]
  /\ deleted = {} /\ gone = {}
  /\ old \in BOOLEAN /\ (old => legacy # NoLegacy)

-----------------------------------------------------------------------------
Step(c, r) == call' = [call EXCEPT ![c] = r] /\ UNCHANGED <<begun, crashes, old>>
Goes(c, r) == Step(c, r) /\ UNCHANGED <<kept, deleted, gone>>
Fail(c) == Goes(c, NoCall)
(* The folders are gone through in their order.                            *)
InTurn(c, d) == d \in call[c].todo /\ \A e \in call[c].todo : d <= e

(* registerDomain, updateDomainSources (and the other ways to change one   *)
(* entry: the settings' edit, applyDomainEvent, the silent baseline), the  *)
(* deletion in the settings, and a caller that only looks.                 *)
Begin(c, op, d) ==
  /\ call[c] = NoCall /\ begun < MaxChanges
  /\ op \in {"update", "delete"} => meta[d].is = "entry" \/ d \in DOMAIN legacy \* of a domain that is shown
  /\ begun' = begun + 1 /\ UNCHANGED crashes
  /\ call' = [call EXCEPT ![c] = [NoCall EXCEPT !.at = "load", !.op = op, !.d = d,
                                    !.mark = begun + 1, !.todo = Domains]]
  /\ deleted' = IF op = "delete" THEN deleted \cup {d} ELSE deleted
  /\ kept' = IF op = "delete" THEN [kept EXCEPT ![d] = {}] ELSE kept
  /\ UNCHANGED <<meta, tmp, legacy, gone, old>>

(* promoteTmpMetadata: parsed first, then written, then the other file goes. *)
(* A write that throws leaves the domain out of the list, written or not.    *)
Promote(c, d, rest) ==
  \/ /\ tmp[d].is = "entry"
     /\ meta' = [meta EXCEPT ![d] = tmp[d]]
     /\ \/ Goes(c, [call[c] EXCEPT !.at = "untmp", !.healed = TRUE, !.list = With(@, d, tmp[d].has)])
        \/ Goes(c, [call[c] EXCEPT !.todo = rest])
  \/ Goes(c, [call[c] EXCEPT !.todo = rest]) /\ UNCHANGED meta

(* load, one folder after the other: corrupt metadata ends the call.       *)
Load(c) ==
  /\ call[c].at = "load"
  /\ \E d \in Domains :
       /\ InTurn(c, d)
       /\ \/ meta[d] = Absent /\ Promote(c, d, call[c].todo \ {d})
          \/ meta[d] = Corrupt /\ Fail(c) /\ UNCHANGED meta
          \/ /\ meta[d].is = "entry" /\ UNCHANGED meta
             /\ Goes(c, [call[c] EXCEPT !.todo = @ \ {d}, !.list = With(@, d, meta[d].has)])
  /\ UNCHANGED <<tmp, legacy>>

(* The promoted file's old copy goes, if it can be removed.                *)
RemovePromoted(c) ==
  /\ call[c].at = "untmp"
  /\ \E d \in Domains :
       /\ InTurn(c, d)
       /\ tmp' \in {tmp, [tmp EXCEPT ![d] = Absent]}
       /\ Goes(c, [call[c] EXCEPT !.at = "load", !.todo = @ \ {d}])
  /\ UNCHANGED <<meta, legacy>>

(* No folder has metadata: the old registry is taken.  Entries of an older *)
(* form are brought to the present one; that or a promoted file saves at   *)
(* once, and otherwise the list is given back as it is.                    *)
Loaded(c) ==
  /\ call[c].at = "load" /\ call[c].todo = {}
  /\ LET taken == DOMAIN call[c].list = {} /\ legacy # NoLegacy
         healed == call[c].healed \/ (taken /\ old) IN
     Goes(c, [call[c] EXCEPT !.list = IF taken THEN legacy ELSE @, !.healed = healed,
                             !.at = IF healed THEN "save" ELSE "change"])
  /\ UNCHANGED <<meta, tmp, legacy>>

(* A mutated form: the changed entry is made anew.                         *)
ChangeReplaces(c) ==
  /\ call[c].at = "change"
  /\ LET list == call[c].list d == call[c].d there == d \in DOMAIN list
         saves(new) == Goes(c, [call[c] EXCEPT !.at = "save", !.list = new, !.healed = FALSE]) IN
     \/ call[c].op = "look" /\ Fail(c)
     \/ /\ call[c].op = "register"
        /\ IF there THEN Fail(c) ELSE saves(With(list, d, {call[c].mark}))
     \/ call[c].op = "update" /\ saves([e \in DOMAIN list |-> IF e = d THEN {call[c].mark} ELSE list[e]])
     \/ call[c].op = "delete" /\ saves([e \in DOMAIN list \ {d} |-> list[e]])
  /\ UNCHANGED <<meta, tmp, legacy>>

(* What the caller does with the list it was given.                        *)
Change(c) ==
  /\ call[c].at = "change"
  /\ LET list == call[c].list d == call[c].d there == d \in DOMAIN list
         saves(new) == Goes(c, [call[c] EXCEPT !.at = "save", !.list = new, !.healed = FALSE]) IN
     \/ call[c].op = "look" /\ Fail(c)
     \/ /\ call[c].op = "register"
        /\ IF there THEN Fail(c) ELSE saves(With(list, d, {call[c].mark}))
     \/ call[c].op = "update" /\ saves([e \in DOMAIN list |-> IF e = d THEN list[e] \cup {call[c].mark} ELSE list[e]])
     \/ call[c].op = "delete" /\ saves([e \in DOMAIN list \ {d} |-> list[e]])
  /\ UNCHANGED <<meta, tmp, legacy>>

-----------------------------------------------------------------------------
(* save: the old registry goes first.                                      *)
SaveBegins(c) ==
  /\ call[c].at = "save"
  /\ \/ Fail(c) /\ legacy # NoLegacy /\ legacy' \in {legacy, NoLegacy}
     \/ legacy' = NoLegacy /\ Goes(c, [call[c] EXCEPT !.at = "clean", !.todo = Domains])
  /\ UNCHANGED <<meta, tmp>>

(* Metadata that can be read and is not in the list is removed, if it can be. *)
Clean(c) ==
  /\ call[c].at = "clean"
  /\ \E d \in Domains :
     /\ InTurn(c, d) /\ Goes(c, [call[c] EXCEPT !.todo = @ \ {d}])
     /\ \/ meta[d].is = "entry" /\ d \notin DOMAIN call[c].list /\ meta' = [meta EXCEPT ![d] = Absent]
        \/ UNCHANGED meta
  /\ UNCHANGED <<tmp, legacy>>

Cleaned(c) ==
  /\ call[c].at = "clean" /\ call[c].todo = {}
  /\ Goes(c, [call[c] EXCEPT !.at = "write", !.todo = DOMAIN call[c].list])
  /\ UNCHANGED <<meta, tmp, legacy>>

(* Every listed domain is written in place, after what an old interrupted  *)
(* write left beside it was removed; a write that fails ends the save.     *)
Write(c) ==
  /\ call[c].at = "write"
  /\ \E d \in call[c].todo :
     /\ tmp' \in {tmp, [tmp EXCEPT ![d] = Absent]}
     /\ \/ meta' = [meta EXCEPT ![d] = Entry(call[c].list[d])]
             /\ (Goes(c, [call[c] EXCEPT !.todo = @ \ {d}]) \/ Fail(c))
        \/ UNCHANGED meta /\ Fail(c)
  /\ UNCHANGED legacy

(* The save is over: load's own, which gives back its list, or the caller's. *)
Saved(c) ==
  /\ call[c].at = "write" /\ call[c].todo = {}
  /\ LET d == call[c].d m == call[c].mark IN
     \/ call[c].healed /\ Goes(c, [call[c] EXCEPT !.at = "change", !.healed = FALSE])
     \/ /\ ~call[c].healed /\ call[c].op = "delete"
        /\ Step(c, [call[c] EXCEPT !.at = "folder"])
        /\ gone' = gone \cup {d} /\ UNCHANGED <<kept, deleted>>
     \/ /\ ~call[c].healed /\ call[c].op # "delete" /\ Step(c, NoCall)
        /\ kept' = IF d \in DOMAIN call[c].list THEN [kept EXCEPT ![d] = @ \cup {m}] ELSE kept
        /\ IF call[c].op = "register" THEN gone' = gone \ {d} /\ deleted' = deleted \ {d}
           ELSE UNCHANGED <<gone, deleted>>
  /\ UNCHANGED <<meta, tmp, legacy>>

(* removeDomainFolder: the files one by one, then the folder with whatever is *)
(* left in it; what cannot be removed stays, and nothing is reported.         *)
RemoveFiles(c) ==
  /\ call[c].at = "folder"
  /\ meta' \in {meta, [meta EXCEPT ![call[c].d] = Absent]}
  /\ tmp' \in {tmp, [tmp EXCEPT ![call[c].d] = Absent]}
  /\ Goes(c, [call[c] EXCEPT !.at = "rmdir"])
  /\ UNCHANGED legacy

RemoveDir(c) ==
  /\ call[c].at = "rmdir"
  /\ \/ meta' = [meta EXCEPT ![call[c].d] = Absent] /\ tmp' = [tmp EXCEPT ![call[c].d] = Absent]
     \/ UNCHANGED <<meta, tmp>>
  /\ Fail(c) /\ UNCHANGED legacy

(* The application is closed: the calls are gone, the files are as they are. *)
Crash ==
  /\ crashes < MaxCrashes /\ crashes' = crashes + 1
  /\ call' = [c \in Callers |-> NoCall]
  /\ UNCHANGED <<meta, tmp, legacy, begun, kept, deleted, gone, old>>

Proceed(c) ==
  \/ Load(c) \/ RemovePromoted(c) \/ Loaded(c) \/ Change(c) \/ SaveBegins(c)
  \/ Clean(c) \/ Cleaned(c) \/ Write(c) \/ Saved(c) \/ RemoveFiles(c) \/ RemoveDir(c)

Next ==
  \/ \E c \in Callers, d \in Domains : \E op \in {"look", "register", "update", "delete"} : Begin(c, op, d)
  \/ \E c \in Callers : Proceed(c)
  \/ Crash

Fairness == \A c \in Callers : WF_vars(Proceed(c))
Spec == Init /\ [][Next]_vars /\ Fairness

-----------------------------------------------------------------------------
(* Files hold what a file can hold, and a list holds changes that were made. *)
TypeOK ==
  /\ meta \in [Domains -> Files] /\ tmp \in [Domains -> Files]
  /\ kept \in [Domains -> SUBSET Changes] /\ deleted \subseteq Domains /\ gone \subseteq deleted /\ begun \in Changes
  /\ \A c \in Callers :
       /\ DOMAIN call[c].list \subseteq Domains /\ call[c].todo \subseteq Domains
       /\ \A d \in DOMAIN call[c].list : call[c].list[d] \subseteq 0..begun
       /\ call[c].at = "write" => call[c].todo \subseteq DOMAIN call[c].list

(* A change whose caller was told that it is done is still there, whatever fails *)
(* or is closed afterwards, with one call at a time: a save rewrites every       *)
(* domain, and what it rewrites it has read.                                     *)
NothingLost == \A d \in Domains : kept[d] \subseteq meta[d].has

(* What a caller changes is what the files say: of a listed domain its metadata, *)
(* or the old registry that no save has replaced yet.  Metadata that is not in   *)
(* the list, which the next save removes, holds nothing that a caller was told   *)
(* of, and the interrupted write it was made from is still beside it.            *)
ListIsRead ==
  \A c \in Callers : call[c].at = "change" =>
    \A d \in Domains :
      IF d \in DOMAIN call[c].list
        THEN \/ meta[d] = Entry(call[c].list[d])
             \/ d \in DOMAIN legacy /\ meta[d] = Absent /\ call[c].list[d] = legacy[d]
        ELSE meta[d].is = "entry" => tmp[d] = meta[d] /\ kept[d] = {}

(* Corrupt metadata and what a corrupt interrupted write left are there to be    *)
(* inspected: no load and no save touches them, except to write the domain anew. *)
CorruptKept ==
  \A d \in Domains :
       /\ meta[d] = Corrupt => meta'[d] = Corrupt
       /\ (tmp[d] = Corrupt /\ tmp'[d] # Corrupt) =>
            \E c \in Callers : \/ call[c].at = "write" /\ d \in DOMAIN call[c].list
                               \/ call[c].at \in {"folder", "rmdir"} /\ call[c].d = d

(* A call ends, whatever fails.                                            *)
Pending(c) == call[c].at # "idle"

-----------------------------------------------------------------------------
(* The inductive invariant, for one call at a time.                        *)
Places == {"idle", "load", "untmp", "change", "save", "clean", "write", "folder", "rmdir"}
Lists == UNION {[s -> SUBSET Changes] : s \in SUBSET Domains}
Calls == [at : Places, op : {"none", "look", "register", "update", "delete"}, d : Domains, mark : 0..begun,
          list : Lists, todo : SUBSET Domains, healed : BOOLEAN]

FilesOK ==
  /\ meta \in [Domains -> Files] /\ tmp \in [Domains -> Files]
  /\ \A d \in Domains : meta[d].has \cup tmp[d].has \subseteq 0..begun
  /\ legacy \in {NoLegacy, [d \in Domains |-> {0}]}
  /\ legacy # NoLegacy => \A d \in Domains : meta[d] = Absent /\ tmp[d] = Absent
  /\ kept \in [Domains -> SUBSET Changes] /\ deleted \subseteq Domains /\ gone \subseteq deleted
  /\ begun \in Changes /\ old \in BOOLEAN

CallsOK ==
  /\ call \in [Callers -> Calls]
  /\ \A c \in Callers : \A d \in DOMAIN call[c].list : call[c].list[d] \subseteq 0..begun

(* What is not in the list is the copy of an interrupted write.            *)
LeftOut(c, d) == (meta[d].is = "entry" /\ d \notin DOMAIN call[c].list) => tmp[d] = meta[d] /\ kept[d] = {}

(* What the list of a call says of a domain is what the files say.         *)
Agrees(c, d) ==
  /\ meta[d] # Corrupt /\ LeftOut(c, d)
  /\ d \in DOMAIN call[c].list =>
       \/ meta[d] = Entry(call[c].list[d])
       \/ d \in DOMAIN legacy /\ meta[d] = Absent /\ call[c].list[d] = legacy[d]

(* The list agrees with the files that were read, and with all when it is changed; *)
(* nothing is corrupt when a load has ended.                                       *)
Reading(c) ==
  /\ call[c].at \in {"load", "untmp"} => \A d \in Domains \ call[c].todo : Agrees(c, d)
  /\ call[c].at = "untmp" => \A d \in Domains : InTurn(c, d) =>
       Agrees(c, d) /\ d \in DOMAIN call[c].list /\ tmp[d].is = "entry"
  /\ call[c].at = "load" => DOMAIN call[c].list \cap call[c].todo = {}
  /\ call[c].at = "untmp" => \A d \in DOMAIN call[c].list \cap call[c].todo : InTurn(c, d)
  /\ call[c].at = "change" => \A d \in Domains : Agrees(c, d)
  /\ call[c].at \notin {"idle", "load", "untmp"} => \A d \in Domains : meta[d] # Corrupt

(* What is being saved has all that was kept, and the change; a save that only heals *)
(* leaves out copies only; what was written is in the files.                             *)
Saving(c) ==
  call[c].at \in {"save", "clean", "write"} =>
    /\ \A d \in Domains : kept[d] # {} => d \in DOMAIN call[c].list /\ kept[d] \subseteq call[c].list[d]
    /\ call[c].healed => \A d \in Domains : LeftOut(c, d)
    /\ call[c].at # "save" => legacy = NoLegacy
    /\ ~call[c].healed => /\ call[c].op \in {"register", "update", "delete"}
                          /\ call[c].op # "delete" /\ call[c].d \in DOMAIN call[c].list =>
                               call[c].mark \in call[c].list[call[c].d]
    /\ call[c].at = "write" => \A d \in DOMAIN call[c].list \ call[c].todo : meta[d] = Entry(call[c].list[d])
    /\ call[c].at = "write" => call[c].todo \subseteq DOMAIN call[c].list

(* Nothing is kept of a domain that is being deleted.                      *)
Deleting(c) ==
  /\ call[c].at # "idle" /\ call[c].op = "delete" => kept[call[c].d] = {} /\ call[c].d \in deleted
  /\ call[c].at \in {"folder", "rmdir"} => call[c].op = "delete"

Inv == FilesOK /\ CallsOK /\ NothingLost /\ \A c \in Callers : Reading(c) /\ Saving(c) /\ Deleting(c)
=============================================================================
