-------------------------- MODULE WipeTransaction --------------------------
(***************************************************************************)
(* Removing a domain folder before a forced re-initialisation              *)
(* (wipeDomainFolder in src/phases/init.ts).  The public root is renamed   *)
(* into a transaction folder the wipe has made for itself, read into       *)
(* memory, and removed there file by file and folder by folder.  Any error *)
(* or abort leads to rollbackWipeTransaction, which rewrites what was      *)
(* removed from memory and renames the folder back, or, when somebody has  *)
(* made a new public root, keeps the old tree apart in the transaction.    *)
(*                                                                         *)
(* Other writers see only the public root (the code documents that writes  *)
(* into the transaction folder are unsupported).  An adapter call may fail *)
(* before or after it took effect or report a success it did not have.     *)
(* External: renaming a folder is atomic and refuses an existing target,   *)
(* mkdir makes the parents it needs.                                       *)
(***************************************************************************)
EXTENDS Naturals

CONSTANTS
  File, Folder,   \* relative to the root; the root itself is Top
  Top,
  Above,          \* the folders above a file or a folder
  Absent, Original, Foreign,   \* images: of the domain, of another writer
  NoTree,         \* a place where nothing is
  ProbesFail,     \* TRUE: an exists() call after a removal may fail too
  MaxFaults, MaxWrites

Image == {Absent, Original, Foreign}
Tree == [files : [File -> Image], folders : SUBSET Folder]

ASSUME LayoutAssumption ==
  /\ Top \in Folder
  /\ Above \in [File \cup Folder -> SUBSET Folder]
  /\ \A x \in File \cup (Folder \ {Top}) : Top \in Above[x]
  /\ \A d, e \in Folder : d \in Above[e] => e \notin Above[d]
ASSUME TokensAssumption ==
  NoTree \notin Tree
ASSUME BoundsAssumption == ProbesFail \in BOOLEAN /\ {MaxFaults, MaxWrites} \subseteq Nat

VARIABLES
  root, quarantine, recovery,   \* on disk: the public root, txn/domain, txn/recovery
  txn,          \* on disk: the transaction folder exists
  pc,
  attempted,    \* rootRenameAttempted
  renameError,
  snapshot,     \* in memory: the inventory, NoTree before it
  removed,      \* in memory: files known to be gone
  todo,         \* files, then folders, still to remove
  aborted,
  result,       \* of the wipe: "none", "done", "failed" (clean) or "stuck"
  away,         \* history: the tree was renamed and not yet renamed back
  base,         \* history: the public tree, frozen while it is away
  lateFault,    \* history: a call failed while rolling back
  foreign,      \* history: files written to a new public root
  faults, writes

disk == <<root, quarantine, recovery, txn>>
memory == <<attempted, renameError, snapshot, removed, todo>>
bounds == <<faults, writes>>
history == <<base, away, lateFault, foreign>>
vars == <<disk, pc, memory, aborted, result, history, bounds>>

RollbackPc == {"rollback", "restore", "preserve", "checkBack", "renameBack", "dropBack"}
Pc == {"idle", "allocate", "rename", "checkRename", "inventory", "file", "remove",
       "folder", "teardown"} \cup RollbackPc

Full(S) == [files |-> [f \in File |-> IF f \in S THEN Original ELSE Absent],
            folders |-> Folder]

Files(t) == {f \in File : t.files[f] # Absent}

Init ==
  /\ root \in {NoTree} \cup {Full(S) : S \in SUBSET File}
  /\ quarantine = NoTree /\ recovery = NoTree /\ txn = FALSE
  /\ pc = "idle" /\ attempted = FALSE /\ renameError = FALSE
  /\ snapshot = NoTree /\ removed = {} /\ todo = {}
  /\ aborted = FALSE /\ result = "none"
  /\ base = root /\ away = FALSE /\ lateFault = FALSE /\ foreign = {}
  /\ faults = 0 /\ writes = 0

Fault(n) == faults + n <= MaxFaults /\ faults' = faults + n
NoFault == UNCHANGED faults

(* Outcomes of a call with an effect: it took place or not, and it threw   *)
(* or not; each departure from a plain success is a fault.                 *)
Outcome(effect, threw) ==
  IF effect /\ ~threw THEN NoFault ELSE Fault(1)

Throw == pc' = "rollback"
Finish(r) == pc' = "idle" /\ result' = r

forwardUnchanged == UNCHANGED <<recovery, aborted, base, lateFault, foreign, writes>>

-----------------------------------------------------------------------------
(* The lock of the root is taken, and released by every end of the wipe.   *)
(* A root that does not exist is done at once.                             *)
Start ==
  /\ pc = "idle" /\ result = "none"
  /\ \/ root = NoTree /\ Finish("done") /\ NoFault
     \/ root # NoTree /\ pc' = "allocate" /\ UNCHANGED result /\ NoFault
     \/ Fault(1) /\ Finish("failed")
  /\ forwardUnchanged /\ UNCHANGED <<root, quarantine, txn, memory, away>>

(* createWipeTransaction: a folder of its own, or an error with no         *)
(* transaction; setup that fails drops the empty folder if it can.         *)
Allocate ==
  /\ pc = "allocate"
  /\ \/ ~aborted /\ txn' = TRUE /\ pc' = "rename" /\ UNCHANGED result /\ NoFault
     \/ aborted /\ Finish("failed") /\ UNCHANGED txn /\ NoFault
     \/ Fault(1) /\ Finish("failed") /\ txn' \in BOOLEAN
  /\ forwardUnchanged /\ UNCHANGED <<root, quarantine, memory, away>>

(* The checks before the rename, then the rename itself.                   *)
CheckTransaction ==
  /\ pc = "rename"
  /\ Throw
  /\ (aborted /\ NoFault) \/ Fault(1)
  /\ forwardUnchanged /\ UNCHANGED <<root, quarantine, txn, memory, away, result>>

Rename ==
  /\ pc = "rename" /\ ~aborted
  /\ attempted' = TRUE /\ pc' = "checkRename"
  /\ \E effect, threw \in BOOLEAN :
       /\ Outcome(effect, threw)
       /\ renameError' = threw /\ away' = effect
       /\ IF effect
            THEN root' = NoTree /\ quarantine' = root
            ELSE UNCHANGED <<root, quarantine>>
  /\ forwardUnchanged /\ UNCHANGED <<txn, snapshot, removed, todo, result>>

(* A rename that threw fails the wipe although it took place; so does a    *)
(* public root that is there again.                                        *)
CheckRename ==
  /\ pc = "checkRename"
  /\ \/ /\ IF renameError \/ aborted \/ root # NoTree \/ quarantine = NoTree
             THEN Throw ELSE pc' = "inventory"
        /\ NoFault
     \/ Fault(1) /\ Throw
  /\ forwardUnchanged /\ UNCHANGED <<root, quarantine, txn, memory, away, result>>

(* Every folder and file is listed, measured and read into memory before   *)
(* anything is removed; over a byte limit, or unreadable, is an error.     *)
Inventory ==
  /\ pc = "inventory"
  /\ \/ aborted /\ Throw /\ NoFault /\ UNCHANGED <<snapshot, todo>>
     \/ Fault(1) /\ Throw /\ UNCHANGED <<snapshot, todo>>
     \/ /\ ~aborted /\ NoFault
        /\ snapshot' = quarantine
        /\ IF root # NoTree
             THEN Throw /\ UNCHANGED todo
             ELSE pc' = "file" /\ todo' = Files(quarantine)
  /\ forwardUnchanged
  /\ UNCHANGED <<root, quarantine, txn, attempted, renameError, removed, away, result>>

CheckFile ==
  /\ pc = "file" /\ todo # {}
  /\ \/ IF aborted \/ root # NoTree THEN Throw /\ NoFault ELSE pc' = "remove" /\ NoFault
     \/ Fault(1) /\ Throw
  /\ forwardUnchanged /\ UNCHANGED <<root, quarantine, txn, memory, away, result>>

(* A mutated form: a file whose removal threw is not asked about.          *)
RemoveFileCareless ==
  /\ pc = "remove"
  /\ \E f \in todo : \E effect, threw, probed \in BOOLEAN :
       /\ ~probed => ProbesFail
       /\ faults' = faults + (IF effect /\ ~threw THEN 0 ELSE 1) + (IF probed THEN 0 ELSE 1)
       /\ faults' <= MaxFaults
       /\ quarantine' = IF effect THEN [quarantine EXCEPT !.files[f] = Absent] ELSE quarantine
       /\ removed' = IF effect /\ ~threw /\ probed THEN removed \cup {f} ELSE removed
       /\ todo' = todo \ {f}
       /\ IF effect /\ ~threw /\ probed /\ ~aborted THEN pc' = "file" ELSE Throw
  /\ forwardUnchanged
  /\ UNCHANGED <<root, txn, attempted, renameError, snapshot, away, result>>

(* remove, whatever it reports, is followed by exists; the file counts as  *)
(* removed if it is gone.                                                  *)
RemoveFile ==
  /\ pc = "remove"
  /\ \E f \in todo : \E effect, threw, probed \in BOOLEAN :
       /\ ~probed => ProbesFail
       /\ faults' = faults + (IF effect /\ ~threw THEN 0 ELSE 1) + (IF probed THEN 0 ELSE 1)
       /\ faults' <= MaxFaults
       /\ quarantine' = IF effect THEN [quarantine EXCEPT !.files[f] = Absent] ELSE quarantine
       /\ removed' = IF effect /\ probed THEN removed \cup {f} ELSE removed
       /\ todo' = todo \ {f}
       /\ IF effect /\ ~threw /\ probed /\ ~aborted THEN pc' = "file" ELSE Throw
  /\ forwardUnchanged
  /\ UNCHANGED <<root, txn, attempted, renameError, snapshot, away, result>>

FilesRemoved ==
  /\ pc = "file" /\ todo = {}
  /\ \/ root # NoTree /\ Throw /\ NoFault /\ UNCHANGED todo
     \/ root = NoTree /\ pc' = "folder" /\ todo' = quarantine.folders /\ NoFault
     \/ Fault(1) /\ Throw /\ UNCHANGED todo
  /\ forwardUnchanged
  /\ UNCHANGED <<root, quarantine, txn, attempted, renameError, snapshot, removed, away, result>>

(* The tree without a folder; without Top there is no tree.                *)
Without(t, d) == IF d = Top THEN NoTree ELSE [t EXCEPT !.folders = @ \ {d}]

(* Folders after the folders in them, each only when nothing is left in    *)
(* it.  A non-recursive rmdir that fails without effect is repeated        *)
(* recursively on the folder just found empty.                             *)
RemoveFolder ==
  /\ pc = "folder" /\ todo # {}
  /\ \E d \in todo :
       /\ \A e \in todo : d \notin Above[e]
       /\ todo' = todo \ {d}
       /\ IF aborted \/ root # NoTree \/ \E f \in Files(quarantine) : d \in Above[f]
            THEN Throw /\ NoFault /\ UNCHANGED quarantine
            ELSE \E effect, threw \in BOOLEAN :
                   /\ Outcome(effect, threw)
                   /\ IF effect \/ threw
                        THEN quarantine' = Without(quarantine, d)
                        ELSE UNCHANGED quarantine
                   /\ IF effect = threw THEN Throw ELSE UNCHANGED pc
  /\ forwardUnchanged
  /\ UNCHANGED <<root, txn, attempted, renameError, snapshot, removed, away, result>>

(* The transaction folder goes last, and the root is looked at once more.  *)
Teardown ==
  /\ pc = "folder" /\ todo = {}
  /\ \/ (aborted \/ root # NoTree) /\ Throw /\ UNCHANGED txn /\ NoFault
     \/ ~aborted /\ root = NoTree /\ txn' = FALSE /\ pc' = "teardown" /\ NoFault
     \/ Fault(1) /\ txn' \in BOOLEAN /\ Throw
  /\ forwardUnchanged /\ UNCHANGED <<root, quarantine, memory, away, result>>

(* A mutated form: the last look at the root is left out.                  *)
DoneUnchecked ==
  /\ pc = "teardown"
  /\ Finish("done") /\ NoFault
  /\ forwardUnchanged /\ UNCHANGED <<root, quarantine, txn, memory, away>>

Done ==
  /\ pc = "teardown"
  /\ IF aborted \/ root # NoTree
       THEN Throw /\ UNCHANGED result /\ NoFault
       ELSE \/ Finish("done") /\ NoFault
            \/ Fault(1) /\ Throw /\ UNCHANGED result
  /\ forwardUnchanged /\ UNCHANGED <<root, quarantine, txn, memory, away>>

-----------------------------------------------------------------------------
(* rollbackWipeTransaction.  An error in it is reported as such: the wipe  *)
(* is stuck and what is left on disk is left to the user.                  *)
backUnchanged == UNCHANGED <<memory, aborted, base, foreign, writes>>

LateFault == Fault(1) /\ lateFault' = TRUE
OnTime == UNCHANGED <<faults, lateFault>>

Rollback ==
  /\ pc = "rollback"
  /\ \/ LateFault /\ Finish("stuck") /\ UNCHANGED txn
     \/ LateFault /\ ~attempted /\ Finish("stuck") /\ txn' \in BOOLEAN
     \/ /\ OnTime
        /\ IF root # NoTree /\ quarantine = NoTree /\ snapshot # NoTree
             THEN pc' = "preserve" /\ UNCHANGED <<txn, result>>
           ELSE IF ~attempted \/ (root # NoTree /\ quarantine = NoTree)
             THEN Finish("failed") /\ txn' = FALSE
           ELSE IF quarantine = NoTree /\ snapshot = NoTree
             THEN Finish("stuck") /\ UNCHANGED txn
           ELSE /\ pc' = IF snapshot # NoTree THEN "restore" ELSE "checkBack"
                /\ UNCHANGED <<txn, result>>
  /\ backUnchanged /\ UNCHANGED <<root, quarantine, recovery, away>>

(* What restoreDomainTree writes: all files of a tree that is gone, of one *)
(* that is there only those the wipe knows it removed.                     *)
Missing == Files(snapshot) \ (IF quarantine = NoTree THEN {} ELSE Files(quarantine))
Rewritten == IF quarantine = NoTree THEN Missing ELSE Missing \cap removed

Rebuilt(kept) ==
  [files |-> [f \in File |->
     IF f \in Files(snapshot) \ kept THEN snapshot.files[f] ELSE Absent],
   folders |-> snapshot.folders]

(* A mutated form: folders that were removed are not made again.           *)
RestoreFilesOnly ==
  /\ pc = "restore"
  /\ OnTime
  /\ quarantine' = [Rebuilt({}) EXCEPT !.folders =
       IF quarantine = NoTree THEN {Top} ELSE quarantine.folders]
  /\ txn' = TRUE /\ pc' = "checkBack"
  /\ backUnchanged /\ UNCHANGED <<root, recovery, away, result>>

(* Folders first, then the files; a file that is missing but not known to  *)
(* be removed, or that cannot be written, is passed over and the whole is  *)
(* refused in the end.                                                     *)
Restore ==
  /\ pc = "restore"
  /\ \/ /\ OnTime
        /\ quarantine' = Rebuilt(Missing \ Rewritten) /\ txn' = TRUE
        /\ IF Rewritten = Missing
             THEN pc' = "checkBack" /\ UNCHANGED result
             ELSE Finish("stuck")
     \/ /\ LateFault /\ Finish("stuck")
        /\ \/ UNCHANGED <<quarantine, txn>>
           \/ \E lost \in SUBSET Rewritten :
                quarantine' = Rebuilt((Missing \ Rewritten) \cup lost) /\ txn' = TRUE
  /\ backUnchanged /\ UNCHANGED <<root, recovery, away>>

(* A mutated form: the old tree is written back into the public root.      *)
PreserveInRoot ==
  /\ pc = "preserve"
  /\ OnTime /\ root' = snapshot /\ Finish("stuck")
  /\ backUnchanged /\ UNCHANGED <<quarantine, recovery, txn, away>>

(* preserveSnapshotInRecovery: the new public root is not touched.         *)
Preserve ==
  /\ pc = "preserve" /\ Finish("stuck")
  /\ \/ OnTime /\ recovery' = snapshot /\ txn' = TRUE
     \/ /\ LateFault /\ txn' \in BOOLEAN
        /\ \/ UNCHANGED recovery
           \/ \E lost \in SUBSET Files(snapshot) : recovery' = Rebuilt(lost)
        /\ recovery' # NoTree => txn'
  /\ backUnchanged /\ UNCHANGED <<root, quarantine, away>>

CheckBack ==
  /\ pc = "checkBack"
  /\ \/ root # NoTree /\ Finish("stuck") /\ OnTime
     \/ root = NoTree /\ pc' = "renameBack" /\ OnTime /\ UNCHANGED result
     \/ LateFault /\ Finish("stuck")
  /\ backUnchanged /\ UNCHANGED <<disk, away>>

(* A public root made since the check makes the rename fail.               *)
RenameBack ==
  /\ pc = "renameBack"
  /\ IF root # NoTree
       THEN Finish("stuck") /\ OnTime /\ UNCHANGED <<root, quarantine, away>>
       ELSE \/ /\ OnTime /\ pc' = "dropBack" /\ UNCHANGED result
               /\ root' = quarantine /\ quarantine' = NoTree /\ away' = FALSE
            \/ /\ LateFault /\ Finish("stuck")
               /\ \/ root' = quarantine /\ quarantine' = NoTree /\ away' = FALSE
                  \/ UNCHANGED <<root, quarantine, away>>
  /\ backUnchanged /\ UNCHANGED <<recovery, txn>>

DropBack ==
  /\ pc = "dropBack"
  /\ \/ OnTime /\ txn' = FALSE /\ Finish("failed")
     \/ LateFault /\ txn' \in BOOLEAN /\ Finish("stuck")
  /\ backUnchanged /\ UNCHANGED <<root, quarantine, recovery, away>>

-----------------------------------------------------------------------------
(* Another writer puts a file under the public root, making it if need be. *)
WriteRoot(f) ==
  /\ result = "none" /\ writes < MaxWrites /\ writes' = writes + 1
  /\ LET old == IF root = NoTree
                  THEN [files |-> [g \in File |-> Absent], folders |-> {}] ELSE root
     IN root' = [files |-> [old.files EXCEPT ![f] = Foreign],
                 folders |-> old.folders \cup Above[f]]
  /\ IF away
       THEN foreign' = foreign \cup {f} /\ UNCHANGED base
       ELSE base' = root' /\ UNCHANGED foreign
  /\ UNCHANGED <<quarantine, recovery, txn, pc, memory, aborted, result, away,
                 lateFault, faults>>

Abort ==
  /\ pc # "idle" /\ ~aborted /\ aborted' = TRUE
  /\ UNCHANGED <<disk, pc, memory, result, history, bounds>>

Forward == \/ Start \/ Allocate \/ CheckTransaction \/ Rename \/ CheckRename
           \/ Inventory \/ CheckFile \/ RemoveFile \/ FilesRemoved
           \/ RemoveFolder \/ Teardown \/ Done
Back == \/ Rollback \/ Restore \/ Preserve \/ CheckBack \/ RenameBack \/ DropBack

Next == Forward \/ Back \/ Abort \/ \E f \in File : WriteRoot(f)

Spec == Init /\ [][Next]_vars

(* Every await of the wipe is resumed.                                     *)
FairSpec == Spec /\ WF_vars(Forward \/ Back)

-----------------------------------------------------------------------------
(* Places hold trees and nothing is in the transaction folder when it does *)
(* not exist.                                                              *)
TypeOK ==
  /\ {root, quarantine, recovery, snapshot, base} \subseteq Tree \cup {NoTree}
  /\ {txn, attempted, renameError, aborted, away, lateFault} \subseteq BOOLEAN
  /\ pc \in Pc /\ result \in {"none", "done", "failed", "stuck"}
  /\ removed \subseteq File /\ foreign \subseteq File
  /\ todo \subseteq File \/ todo \subseteq Folder
  /\ faults \in 0..MaxFaults /\ writes \in 0..MaxWrites
  /\ quarantine # NoTree \/ recovery # NoTree => txn

Holds(place, f) == place # NoTree /\ place.files[f] = base.files[f]

(* Until the wipe is done, the bytes of every file of the domain are       *)
(* somewhere: in the public root, the quarantine or the recovery folder,   *)
(* or, while it runs, in memory.  A wipe that ended otherwise leaves them  *)
(* on disk, unless a call failed again during its rollback.                *)
BytesKept ==
  result # "done" /\ base # NoTree /\ ~lateFault =>
    \A f \in Files(base) :
      \/ \E place \in {root, quarantine, recovery} : Holds(place, f)
      \/ pc # "idle" /\ Holds(snapshot, f)

(* An error that is not reported as a failed rollback left the public tree *)
(* as it was, empty folders included, and nothing of it elsewhere.         *)
CleanFailure ==
  result = "failed" => root = base /\ quarantine = NoTree /\ recovery = NoTree

(* What other writers put into a new public root is still there, whatever  *)
(* the wipe does afterwards.                                               *)
ForeignKept ==
  \A f \in foreign : root # NoTree /\ root.files[f] = Foreign

(* A wipe that reports success left nothing behind, found the public root  *)
(* absent last, and its manifest lists exactly the tree that was there.    *)
DoneMeansGone ==
  result = "done" =>
    /\ root = NoTree /\ quarantine = NoTree /\ recovery = NoTree
    /\ snapshot = base

(* Every wipe comes to an end, also when its rollback fails.               *)
Pending == pc # "idle"

(* The instance that is checked: a page at the top, one in a folder below. *)
Layout == [x \in {"index", "page", "top", "sub"} |->
  CASE x = "page" -> {"top", "sub"}
    [] x = "top" -> {}
    [] OTHER -> {"top"}]
=============================================================================
