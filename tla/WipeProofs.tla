----------------------------- MODULE WipeProofs -----------------------------
(***************************************************************************)
(* What a wipe keeps, proved for every tree, every number of faults and    *)
(* every number of writes by others.  The properties speak of the end of   *)
(* the wipe and of what was public before it; the invariant WipeInv says   *)
(* where the tree is at every step between the two.                        *)
(***************************************************************************)
EXTENDS WipeTransaction, TLAPS

-----------------------------------------------------------------------------
(* Nothing has been touched before the rename of the public root.          *)
Before == pc \in {"allocate", "rename"} \/ (pc = "idle" /\ result = "none")

NotBegun ==
  /\ Before => ~attempted /\ ~away /\ snapshot = NoTree
  /\ pc \in {"allocate", "rename"} => root # NoTree
  /\ pc = "rename" => txn

(* Either the tree is public, with what others wrote to it, or it is in    *)
(* the quarantine until it is read, and as read in memory from then on.    *)
AtHome == ~away => root = base /\ quarantine = NoTree /\ foreign = {}

TakenAway ==
  away => /\ attempted /\ base # NoTree
          /\ snapshot = NoTree => quarantine = base
          /\ snapshot # NoTree => snapshot = base

Rooted == base # NoTree => Top \in base.folders

(* Where the tree is at each place of the code; folders still to remove    *)
(* are those of the quarantine, and the root of it goes last.              *)
Places ==
  /\ pc = "checkRename" => snapshot = NoTree
  /\ pc = "inventory" => away /\ snapshot = NoTree
  /\ pc \in {"file", "remove", "folder", "teardown", "restore", "preserve"} => away /\ snapshot # NoTree
  /\ pc = "rollback" /\ ~away => snapshot = NoTree
  /\ pc \in {"file", "remove"} =>
       quarantine # NoTree /\ quarantine.folders = base.folders /\ todo \subseteq File
  /\ pc = "folder" =>
       IF quarantine = NoTree THEN todo = {} ELSE Top \in todo /\ todo = quarantine.folders
  /\ pc \in {"teardown", "preserve"} => quarantine = NoTree
  /\ pc \in {"checkBack", "renameBack"} => away /\ quarantine = base
  /\ pc = "dropBack" => ~away

(* A file that is not in the quarantine any more is known to be removed:   *)
(* this is what exists() after every removal is for, when it cannot fail.  *)
KnownGone ==
  /\ ~ProbesFail /\ away /\ quarantine # NoTree
  /\ pc \in {"file", "remove", "folder", "rollback", "restore"}
  => \A f \in Files(base) : quarantine.files[f] = base.files[f] \/ f \in removed

Ended ==
  /\ pc # "idle" => result = "none"
  /\ recovery # NoTree => pc = "idle" /\ result = "stuck"
  /\ result = "failed" => ~away
  /\ ~ProbesFail /\ result = "stuck" /\ away /\ ~lateFault => quarantine = base \/ recovery = base

WipeInv ==
  /\ TypeOK /\ NotBegun /\ AtHome /\ TakenAway /\ Rooted /\ Places /\ KnownGone /\ Ended
  /\ ForeignKept /\ DoneMeansGone

-----------------------------------------------------------------------------
(* What the operations on trees return.                                    *)
LEMMA EmptiedTree ==
  ASSUME NEW t \in Tree, NEW f \in File
  PROVE  /\ [t EXCEPT !.files[f] = Absent] \in Tree
         /\ [t EXCEPT !.files[f] = Absent].folders = t.folders
         /\ \A g \in File : [t EXCEPT !.files[f] = Absent].files[g] = IF g = f THEN Absent ELSE t.files[g]
  BY DEF Tree, Image

LEMMA WithoutFolder ==
  ASSUME NEW t \in Tree, NEW d \in Folder \ {Top}
  PROVE  /\ Without(t, d) \in Tree
         /\ Without(t, d).folders = t.folders \ {d}
         /\ Without(t, d).files = t.files
  BY DEF Tree, Without

LEMMA RebuiltTree ==
  ASSUME snapshot \in Tree, NEW S
  PROVE  Rebuilt(S) \in Tree
  BY DEF Tree, Image, Rebuilt, Files

LEMMA RebuiltWhole ==
  ASSUME snapshot \in Tree
  PROVE  Rebuilt({}) = snapshot
  BY DEF Tree, Image, Rebuilt, Files

Written(t, f, made) == [files |-> [t.files EXCEPT ![f] = Foreign], folders |-> t.folders \cup made]

LEMMA WrittenTree ==
  ASSUME NEW t \in Tree, NEW f \in File, NEW made \in SUBSET Folder
  PROVE  /\ Written(t, f, made) \in Tree
         /\ Written(t, f, made).folders = t.folders \cup made
         /\ \A g \in File : Written(t, f, made).files[g] = IF g = f THEN Foreign ELSE t.files[g]
  BY DEF Tree, Image, Written

LEMMA InitEstablishes == Init => WipeInv
<1> SUFFICES ASSUME Init PROVE WipeInv
  OBVIOUS
<1>1. \A S \in SUBSET File : Full(S) \in Tree /\ Full(S).folders = Folder
  BY DEF Full, Tree, Image
<1>2. root \in Tree \cup {NoTree} /\ (root # NoTree => Top \in root.folders)
  BY <1>1, LayoutAssumption DEF Init
<1>3. TypeOK
  <2>1. {txn, attempted, renameError, aborted, away, lateFault} \subseteq BOOLEAN
    BY DEF Init
  <2>2. faults \in 0..MaxFaults /\ writes \in 0..MaxWrites
    BY BoundsAssumption DEF Init
  <2> QED
    BY <1>2, <2>1, <2>2 DEF Init, TypeOK, Pc, RollbackPc
<1> QED
  BY <1>2, <1>3 DEF Init, WipeInv, NotBegun, Before, AtHome, TakenAway, Rooted, Places,
                    KnownGone, Ended, ForeignKept, DoneMeansGone

-----------------------------------------------------------------------------
(* Every step keeps the invariant: the type first, then where the tree is, *)
(* then what the places and the ends of the wipe say, then the writers.    *)

LEMMA StartKeeps == WipeInv /\ Start => WipeInv'
<1> SUFFICES ASSUME WipeInv, Start PROVE WipeInv'
  OBVIOUS
<1> USE DEF WipeInv, Start, forwardUnchanged, Fault, NoFault, Throw, Finish, memory
<1>1. TypeOK'
  BY BoundsAssumption DEF TypeOK, Pc, RollbackPc, NotBegun, AtHome, Places, Ended
<1>2. NotBegun' /\ AtHome' /\ TakenAway' /\ Rooted'
  BY DEF TypeOK, NotBegun, Before, AtHome, TakenAway, Rooted, Places, Ended, ForeignKept
<1>3. Places' /\ KnownGone' /\ Ended'
  BY DEF TypeOK, NotBegun, Before, AtHome, TakenAway, Places, KnownGone, Ended
<1>4. ForeignKept' /\ DoneMeansGone'
  BY DEF TypeOK, NotBegun, Before, AtHome, TakenAway, Places, Ended, ForeignKept, DoneMeansGone
<1> QED
  BY <1>1, <1>2, <1>3, <1>4

LEMMA AllocateKeeps == WipeInv /\ Allocate => WipeInv'
<1> SUFFICES ASSUME WipeInv, Allocate PROVE WipeInv'
  OBVIOUS
<1> USE DEF WipeInv, Allocate, forwardUnchanged, Fault, NoFault, Throw, Finish, memory
<1>1. TypeOK'
  <2> USE DEF TypeOK
  <2>1. ({root, quarantine, recovery, snapshot, base} \subseteq Tree \cup {NoTree})'
    BY DEF Places
  <2>2. ({txn, attempted, renameError, aborted, away, lateFault} \subseteq BOOLEAN)'
    OBVIOUS
  <2>3. (pc \in Pc /\ result \in {"none", "done", "failed", "stuck"})'
    BY DEF Pc, RollbackPc
  <2>4. (removed \subseteq File /\ foreign \subseteq File /\ (todo \subseteq File \/ todo \subseteq Folder))'
    BY DEF Files, Places
  <2>5. (faults \in 0..MaxFaults /\ writes \in 0..MaxWrites)'
    BY BoundsAssumption
  <2>6. (quarantine # NoTree \/ recovery # NoTree => txn)'
    BY DEF NotBegun, Before, AtHome, Places, Ended
  <2> QED
    BY <2>1, <2>2, <2>3, <2>4, <2>5, <2>6
<1>2. NotBegun' /\ AtHome' /\ TakenAway' /\ Rooted'
  BY DEF TypeOK, NotBegun, Before, AtHome, TakenAway, Rooted, Places, Ended, ForeignKept
<1>3. Places' /\ KnownGone' /\ Ended'
  BY DEF TypeOK, NotBegun, Before, AtHome, TakenAway, Places, KnownGone, Ended
<1>4. ForeignKept' /\ DoneMeansGone'
  BY DEF TypeOK, NotBegun, Before, AtHome, TakenAway, Places, Ended, ForeignKept, DoneMeansGone
<1> QED
  BY <1>1, <1>2, <1>3, <1>4

LEMMA CheckTransactionKeeps == WipeInv /\ CheckTransaction => WipeInv'
<1> SUFFICES ASSUME WipeInv, CheckTransaction PROVE WipeInv'
  OBVIOUS
<1> USE DEF WipeInv, CheckTransaction, forwardUnchanged, Fault, NoFault, Throw, Finish, memory
<1>1. TypeOK'
  BY BoundsAssumption DEF TypeOK, Pc, RollbackPc, NotBegun, AtHome, Places, Ended
<1>2. NotBegun' /\ AtHome' /\ TakenAway' /\ Rooted'
  BY DEF TypeOK, NotBegun, Before, AtHome, TakenAway, Rooted, Places, Ended, ForeignKept
<1>3. Places' /\ KnownGone' /\ Ended'
  BY DEF TypeOK, NotBegun, Before, AtHome, TakenAway, Places, KnownGone, Ended
<1>4. ForeignKept' /\ DoneMeansGone'
  BY DEF TypeOK, NotBegun, Before, AtHome, TakenAway, Places, Ended, ForeignKept, DoneMeansGone
<1> QED
  BY <1>1, <1>2, <1>3, <1>4

LEMMA RenameKeeps == WipeInv /\ Rename => WipeInv'
<1> SUFFICES ASSUME WipeInv, Rename PROVE WipeInv'
  OBVIOUS
<1> USE DEF WipeInv, Rename, forwardUnchanged, Fault, NoFault, Throw, Finish, memory, Outcome
<1>1. TypeOK'
  BY BoundsAssumption DEF TypeOK, Pc, RollbackPc, NotBegun, AtHome, Places, Ended
<1>2. NotBegun' /\ AtHome' /\ TakenAway' /\ Rooted'
  BY DEF TypeOK, NotBegun, Before, AtHome, TakenAway, Rooted, Places, Ended, ForeignKept
<1>3. Places' /\ KnownGone' /\ Ended'
  BY DEF TypeOK, NotBegun, Before, AtHome, TakenAway, Places, KnownGone, Ended
<1>4. ForeignKept' /\ DoneMeansGone'
  BY DEF TypeOK, NotBegun, Before, AtHome, TakenAway, Places, Ended, ForeignKept, DoneMeansGone
<1> QED
  BY <1>1, <1>2, <1>3, <1>4

LEMMA CheckRenameKeeps == WipeInv /\ CheckRename => WipeInv'
<1> SUFFICES ASSUME WipeInv, CheckRename PROVE WipeInv'
  OBVIOUS
<1> USE DEF WipeInv, CheckRename, forwardUnchanged, Fault, NoFault, Throw, Finish, memory
<1>1. TypeOK'
  BY BoundsAssumption DEF TypeOK, Pc, RollbackPc, NotBegun, AtHome, Places, Ended
<1>2. NotBegun' /\ AtHome' /\ TakenAway' /\ Rooted'
  BY DEF TypeOK, NotBegun, Before, AtHome, TakenAway, Rooted, Places, Ended, ForeignKept
<1>3. Places' /\ KnownGone' /\ Ended'
  BY DEF TypeOK, NotBegun, Before, AtHome, TakenAway, Places, KnownGone, Ended
<1>4. ForeignKept' /\ DoneMeansGone'
  BY DEF TypeOK, NotBegun, Before, AtHome, TakenAway, Places, Ended, ForeignKept, DoneMeansGone
<1> QED
  BY <1>1, <1>2, <1>3, <1>4

LEMMA InventoryKeeps == WipeInv /\ Inventory => WipeInv'
<1> SUFFICES ASSUME WipeInv, Inventory PROVE WipeInv'
  OBVIOUS
<1> USE DEF WipeInv, Inventory, forwardUnchanged, Fault, NoFault, Throw, Finish, memory
<1>1. TypeOK'
  <2> USE DEF TypeOK
  <2>1. ({root, quarantine, recovery, snapshot, base} \subseteq Tree \cup {NoTree})'
    BY DEF Places
  <2>2. ({txn, attempted, renameError, aborted, away, lateFault} \subseteq BOOLEAN)'
    OBVIOUS
  <2>3. (pc \in Pc /\ result \in {"none", "done", "failed", "stuck"})'
    BY DEF Pc, RollbackPc
  <2>4. (removed \subseteq File /\ foreign \subseteq File /\ (todo \subseteq File \/ todo \subseteq Folder))'
    BY DEF Files, Places
  <2>5. (faults \in 0..MaxFaults /\ writes \in 0..MaxWrites)'
    BY BoundsAssumption
  <2>6. (quarantine # NoTree \/ recovery # NoTree => txn)'
    BY DEF NotBegun, Before, AtHome, Places, Ended
  <2> QED
    BY <2>1, <2>2, <2>3, <2>4, <2>5, <2>6
<1>2. NotBegun' /\ AtHome' /\ TakenAway' /\ Rooted'
  BY DEF TypeOK, NotBegun, Before, AtHome, TakenAway, Rooted, Places, Ended, ForeignKept
<1>3. Places' /\ KnownGone' /\ Ended'
  BY DEF Files, TypeOK, NotBegun, Before, TakenAway, Places, KnownGone, Ended
<1>4. ForeignKept' /\ DoneMeansGone'
  BY DEF TypeOK, NotBegun, Before, AtHome, TakenAway, Places, Ended, ForeignKept, DoneMeansGone
<1> QED
  BY <1>1, <1>2, <1>3, <1>4

LEMMA CheckFileKeeps == WipeInv /\ CheckFile => WipeInv'
<1> SUFFICES ASSUME WipeInv, CheckFile PROVE WipeInv'
  OBVIOUS
<1> USE DEF WipeInv, CheckFile, forwardUnchanged, Fault, NoFault, Throw, Finish, memory
<1>1. TypeOK'
  BY BoundsAssumption DEF TypeOK, Pc, RollbackPc, NotBegun, AtHome, Places, Ended
<1>2. NotBegun' /\ AtHome' /\ TakenAway' /\ Rooted'
  BY DEF TypeOK, NotBegun, Before, AtHome, TakenAway, Rooted, Places, Ended, ForeignKept
<1>3. Places' /\ KnownGone' /\ Ended'
  BY DEF TypeOK, NotBegun, Before, AtHome, TakenAway, Places, KnownGone, Ended
<1>4. ForeignKept' /\ DoneMeansGone'
  BY DEF TypeOK, NotBegun, Before, AtHome, TakenAway, Places, Ended, ForeignKept, DoneMeansGone
<1> QED
  BY <1>1, <1>2, <1>3, <1>4

LEMMA RemoveFileKeeps == WipeInv /\ RemoveFile => WipeInv'
<1> SUFFICES ASSUME WipeInv, RemoveFile PROVE WipeInv'
  OBVIOUS
<1> USE DEF WipeInv, RemoveFile, forwardUnchanged, Fault, NoFault, Throw, Finish, memory
<1>1. TypeOK'
  <2> USE DEF TypeOK
  <2>1. ({root, quarantine, recovery, snapshot, base} \subseteq Tree \cup {NoTree})'
    BY EmptiedTree DEF Places
  <2>2. ({txn, attempted, renameError, aborted, away, lateFault} \subseteq BOOLEAN)'
    OBVIOUS
  <2>3. (pc \in Pc /\ result \in {"none", "done", "failed", "stuck"})'
    BY DEF Pc, RollbackPc
  <2>4. (removed \subseteq File /\ foreign \subseteq File /\ (todo \subseteq File \/ todo \subseteq Folder))'
    BY DEF Files, Places
  <2>5. (faults \in 0..MaxFaults /\ writes \in 0..MaxWrites)'
    BY BoundsAssumption
  <2>6. (quarantine # NoTree \/ recovery # NoTree => txn)'
    BY DEF NotBegun, Before, AtHome, Places, Ended
  <2> QED
    BY <2>1, <2>2, <2>3, <2>4, <2>5, <2>6
<1>2. NotBegun' /\ AtHome' /\ TakenAway' /\ Rooted'
  BY DEF TypeOK, NotBegun, Before, AtHome, TakenAway, Rooted, Places, Ended, ForeignKept
<1>3. Places' /\ KnownGone' /\ Ended'
  <2>1. PICK f \in todo : \E effect, threw, probed \in BOOLEAN :
          /\ ~probed => ProbesFail
          /\ quarantine' = IF effect THEN [quarantine EXCEPT !.files[f] = Absent] ELSE quarantine
          /\ removed' = IF effect /\ probed THEN removed \cup {f} ELSE removed
          /\ todo' = todo \ {f}
          /\ IF effect /\ ~threw /\ probed /\ ~aborted THEN pc' = "file" ELSE Throw
    OBVIOUS
  <2>2. quarantine \in Tree /\ f \in File
    BY DEF TypeOK, Places
  <2>3. quarantine' \in Tree /\ quarantine'.folders = quarantine.folders
    BY <2>1, <2>2, EmptiedTree
  <2>4. \A g \in File : g # f => quarantine'.files[g] = quarantine.files[g]
    BY <2>1, <2>2, EmptiedTree
  <2>5. ProbesFail \/ quarantine' = quarantine \/ f \in removed'
    BY <2>1
  <2>6. removed \subseteq removed' /\ todo' \subseteq todo /\ pc' \in {"file", "rollback"}
    BY <2>1
  <2>7. KnownGone'
    BY <2>2, <2>4, <2>5, <2>6, TokensAssumption DEF KnownGone, Files
  <2> QED
    BY <2>2, <2>3, <2>6, <2>7, TokensAssumption DEF Places, Ended
<1>4. ForeignKept' /\ DoneMeansGone'
  BY DEF TypeOK, NotBegun, Before, AtHome, TakenAway, Places, Ended, ForeignKept, DoneMeansGone
<1> QED
  BY <1>1, <1>2, <1>3, <1>4

LEMMA FilesRemovedKeeps == WipeInv /\ FilesRemoved => WipeInv'
<1> SUFFICES ASSUME WipeInv, FilesRemoved PROVE WipeInv'
  OBVIOUS
<1> USE DEF WipeInv, FilesRemoved, forwardUnchanged, Fault, NoFault, Throw, Finish, memory
<1>1. TypeOK'
  <2> USE DEF TypeOK
  <2>1. ({root, quarantine, recovery, snapshot, base} \subseteq Tree \cup {NoTree})'
    BY DEF Places
  <2>2. ({txn, attempted, renameError, aborted, away, lateFault} \subseteq BOOLEAN)'
    OBVIOUS
  <2>3. (pc \in Pc /\ result \in {"none", "done", "failed", "stuck"})'
    BY DEF Pc, RollbackPc
  <2>4. (removed \subseteq File /\ foreign \subseteq File /\ (todo \subseteq File \/ todo \subseteq Folder))'
    <3>1. quarantine \in Tree
      BY DEF Places
    <3>2. todo' = todo \/ todo' = quarantine.folders
      OBVIOUS
    <3> QED
      BY <3>1, <3>2 DEF Tree
  <2>5. (faults \in 0..MaxFaults /\ writes \in 0..MaxWrites)'
    BY BoundsAssumption
  <2>6. (quarantine # NoTree \/ recovery # NoTree => txn)'
    BY DEF NotBegun, Before, AtHome, Places, Ended
  <2> QED
    BY <2>1, <2>2, <2>3, <2>4, <2>5, <2>6
<1>2. NotBegun' /\ AtHome' /\ TakenAway' /\ Rooted'
  BY DEF TypeOK, NotBegun, Before, AtHome, TakenAway, Rooted, Places, Ended, ForeignKept
<1>3. Places' /\ KnownGone' /\ Ended'
  BY DEF TypeOK, TakenAway, Rooted, Places, KnownGone, Ended
<1>4. ForeignKept' /\ DoneMeansGone'
  BY DEF TypeOK, NotBegun, Before, AtHome, TakenAway, Places, Ended, ForeignKept, DoneMeansGone
<1> QED
  BY <1>1, <1>2, <1>3, <1>4

LEMMA RemoveFolderKeeps == WipeInv /\ RemoveFolder => WipeInv'
<1> SUFFICES ASSUME WipeInv, RemoveFolder PROVE WipeInv'
  OBVIOUS
<1> USE DEF WipeInv, RemoveFolder, forwardUnchanged, Fault, NoFault, Throw, Finish, memory, Outcome
<1>1. TypeOK'
  <2> USE DEF TypeOK
  <2>1. ({root, quarantine, recovery, snapshot, base} \subseteq Tree \cup {NoTree})'
    <3>1. PICK d \in todo : quarantine' = quarantine \/ quarantine' = Without(quarantine, d)
      OBVIOUS
    <3>2. quarantine \in Tree /\ todo \subseteq Folder
      BY DEF Places, Tree
    <3> QED
      BY <3>1, <3>2, WithoutFolder DEF Without
  <2>2. ({txn, attempted, renameError, aborted, away, lateFault} \subseteq BOOLEAN)'
    OBVIOUS
  <2>3. (pc \in Pc /\ result \in {"none", "done", "failed", "stuck"})'
    BY DEF Pc, RollbackPc
  <2>4. (removed \subseteq File /\ foreign \subseteq File /\ (todo \subseteq File \/ todo \subseteq Folder))'
    BY DEF Files, Places
  <2>5. (faults \in 0..MaxFaults /\ writes \in 0..MaxWrites)'
    BY BoundsAssumption
  <2>6. (quarantine # NoTree \/ recovery # NoTree => txn)'
    BY DEF NotBegun, Before, AtHome, Places, Ended
  <2> QED
    BY <2>1, <2>2, <2>3, <2>4, <2>5, <2>6
<1>2. NotBegun' /\ AtHome' /\ TakenAway' /\ Rooted'
  BY DEF TypeOK, NotBegun, Before, AtHome, TakenAway, Rooted, Places, Ended, ForeignKept
<1>3. Places' /\ KnownGone' /\ Ended'
  <2>1. PICK d \in todo :
          /\ \A e \in todo : d \notin Above[e]
          /\ todo' = todo \ {d}
          /\ \/ pc' = "rollback" /\ (quarantine' = quarantine \/ quarantine' = Without(quarantine, d))
             \/ pc' = "folder" /\ quarantine' = Without(quarantine, d)
    OBVIOUS
  <2>2. quarantine \in Tree /\ todo = quarantine.folders /\ Top \in todo /\ todo \subseteq Folder
    BY DEF TypeOK, Places, Tree
  <2>3. d = Top => todo' = {} /\ Without(quarantine, d) = NoTree
    BY <2>1, <2>2, LayoutAssumption DEF Without
  <2>4. d # Top => /\ Without(quarantine, d) \in Tree
                   /\ Without(quarantine, d).folders = todo'
                   /\ Without(quarantine, d).files = quarantine.files
    BY <2>1, <2>2, WithoutFolder
  <2>5. KnownGone'
    BY <2>1, <2>2, <2>3, <2>4, TokensAssumption DEF KnownGone, Files
  <2>6. Places'
    BY <2>1, <2>2, <2>3, <2>4, TokensAssumption DEF Places
  <2>7. Ended'
    BY <2>1, <2>2, TokensAssumption DEF Ended
  <2> QED
    BY <2>5, <2>6, <2>7
<1>4. ForeignKept' /\ DoneMeansGone'
  BY DEF TypeOK, NotBegun, Before, AtHome, TakenAway, Places, Ended, ForeignKept, DoneMeansGone
<1> QED
  BY <1>1, <1>2, <1>3, <1>4

LEMMA TeardownKeeps == WipeInv /\ Teardown => WipeInv'
<1> SUFFICES ASSUME WipeInv, Teardown PROVE WipeInv'
  OBVIOUS
<1> USE DEF WipeInv, Teardown, forwardUnchanged, Fault, NoFault, Throw, Finish, memory
<1>1. TypeOK'
  <2> USE DEF TypeOK
  <2>1. ({root, quarantine, recovery, snapshot, base} \subseteq Tree \cup {NoTree})'
    BY DEF Places
  <2>2. ({txn, attempted, renameError, aborted, away, lateFault} \subseteq BOOLEAN)'
    OBVIOUS
  <2>3. (pc \in Pc /\ result \in {"none", "done", "failed", "stuck"})'
    BY DEF Pc, RollbackPc
  <2>4. (removed \subseteq File /\ foreign \subseteq File /\ (todo \subseteq File \/ todo \subseteq Folder))'
    BY DEF Files, Places
  <2>5. (faults \in 0..MaxFaults /\ writes \in 0..MaxWrites)'
    BY BoundsAssumption
  <2>6. (quarantine # NoTree \/ recovery # NoTree => txn)'
    BY DEF NotBegun, Before, AtHome, Places, Ended
  <2> QED
    BY <2>1, <2>2, <2>3, <2>4, <2>5, <2>6
<1>2. NotBegun' /\ AtHome' /\ TakenAway' /\ Rooted'
  BY DEF TypeOK, NotBegun, Before, AtHome, TakenAway, Rooted, Places, Ended, ForeignKept
<1>3. Places' /\ KnownGone' /\ Ended'
  BY DEF TypeOK, NotBegun, Before, AtHome, TakenAway, Places, KnownGone, Ended
<1>4. ForeignKept' /\ DoneMeansGone'
  BY DEF TypeOK, NotBegun, Before, AtHome, TakenAway, Places, Ended, ForeignKept, DoneMeansGone
<1> QED
  BY <1>1, <1>2, <1>3, <1>4

LEMMA DoneKeeps == WipeInv /\ Done => WipeInv'
<1> SUFFICES ASSUME WipeInv, Done PROVE WipeInv'
  OBVIOUS
<1> USE DEF WipeInv, Done, forwardUnchanged, Fault, NoFault, Throw, Finish, memory
<1>1. TypeOK'
  BY BoundsAssumption DEF TypeOK, Pc, RollbackPc, NotBegun, AtHome, Places, Ended
<1>2. NotBegun' /\ AtHome' /\ TakenAway' /\ Rooted'
  BY DEF TypeOK, NotBegun, Before, AtHome, TakenAway, Rooted, Places, Ended, ForeignKept
<1>3. Places' /\ KnownGone' /\ Ended'
  BY DEF TypeOK, NotBegun, Before, AtHome, TakenAway, Places, KnownGone, Ended
<1>4. ForeignKept' /\ DoneMeansGone'
  BY DEF TypeOK, NotBegun, Before, AtHome, TakenAway, Places, Ended, ForeignKept, DoneMeansGone
<1> QED
  BY <1>1, <1>2, <1>3, <1>4

LEMMA RollbackKeeps == WipeInv /\ Rollback => WipeInv'
<1> SUFFICES ASSUME WipeInv, Rollback PROVE WipeInv'
  OBVIOUS
<1> USE DEF WipeInv, Rollback, backUnchanged, LateFault, OnTime, Fault, Finish, memory
<1>1. TypeOK'
  <2> USE DEF TypeOK
  <2>1. ({root, quarantine, recovery, snapshot, base} \subseteq Tree \cup {NoTree})'
    BY DEF Places
  <2>2. ({txn, attempted, renameError, aborted, away, lateFault} \subseteq BOOLEAN)'
    OBVIOUS
  <2>3. (pc \in Pc /\ result \in {"none", "done", "failed", "stuck"})'
    BY DEF Pc, RollbackPc
  <2>4. (removed \subseteq File /\ foreign \subseteq File /\ (todo \subseteq File \/ todo \subseteq Folder))'
    BY DEF Files, Places
  <2>5. (faults \in 0..MaxFaults /\ writes \in 0..MaxWrites)'
    BY BoundsAssumption
  <2>6. (quarantine # NoTree \/ recovery # NoTree => txn)'
    <3>1. recovery = NoTree /\ UNCHANGED <<quarantine, recovery>>
      BY DEF Ended
    <3>2. txn' = txn \/ ~attempted \/ quarantine = NoTree
      OBVIOUS
    <3>3. ~attempted => quarantine = NoTree
      BY DEF TakenAway, AtHome
    <3> QED
      BY <3>1, <3>2, <3>3
  <2> QED
    BY <2>1, <2>2, <2>3, <2>4, <2>5, <2>6
<1>2. NotBegun' /\ AtHome' /\ TakenAway' /\ Rooted'
  BY DEF TypeOK, NotBegun, Before, AtHome, TakenAway, Rooted, Places, Ended, ForeignKept
<1>3. Places' /\ KnownGone' /\ Ended'
  BY DEF TypeOK, NotBegun, Before, AtHome, TakenAway, Places, KnownGone, Ended
<1>4. ForeignKept' /\ DoneMeansGone'
  BY DEF TypeOK, NotBegun, Before, AtHome, TakenAway, Places, Ended, ForeignKept, DoneMeansGone
<1> QED
  BY <1>1, <1>2, <1>3, <1>4

LEMMA RestoreKeeps == WipeInv /\ Restore => WipeInv'
<1> SUFFICES ASSUME WipeInv, Restore PROVE WipeInv'
  OBVIOUS
<1> USE DEF WipeInv, Restore, backUnchanged, LateFault, OnTime, Fault, Finish, memory, Rewritten, Missing
<1>1. TypeOK'
  <2> USE DEF TypeOK
  <2>1. ({root, quarantine, recovery, snapshot, base} \subseteq Tree \cup {NoTree})'
    BY RebuiltTree DEF Places
  <2>2. ({txn, attempted, renameError, aborted, away, lateFault} \subseteq BOOLEAN)'
    OBVIOUS
  <2>3. (pc \in Pc /\ result \in {"none", "done", "failed", "stuck"})'
    BY DEF Pc, RollbackPc
  <2>4. (removed \subseteq File /\ foreign \subseteq File /\ (todo \subseteq File \/ todo \subseteq Folder))'
    BY DEF Files, Places
  <2>5. (faults \in 0..MaxFaults /\ writes \in 0..MaxWrites)'
    BY BoundsAssumption
  <2>6. (quarantine # NoTree \/ recovery # NoTree => txn)'
    BY DEF NotBegun, Before, AtHome, Places, Ended
  <2> QED
    BY <2>1, <2>2, <2>3, <2>4, <2>5, <2>6
<1>2. NotBegun' /\ AtHome' /\ TakenAway' /\ Rooted'
  BY DEF TypeOK, NotBegun, Before, AtHome, TakenAway, Rooted, Places, Ended, ForeignKept
<1>3. Places' /\ KnownGone' /\ Ended'
  <2>1. snapshot \in Tree /\ snapshot = base /\ away
    BY DEF TypeOK, Places, TakenAway
  <2>2. Rebuilt({}) = base
    BY <2>1, RebuiltWhole
  <2>3. ~ProbesFail => Rewritten = Missing
    BY <2>1 DEF KnownGone, Files
  <2>4. Rewritten = Missing => Missing \ Rewritten = {}
    OBVIOUS
  <2>5. \/ pc' = "checkBack" /\ quarantine' = base /\ result' = result
        \/ pc' = "idle" /\ result' = "stuck" /\ lateFault'
        \/ pc' = "idle" /\ result' = "stuck" /\ ProbesFail
    BY <2>2, <2>3, <2>4
  <2> QED
    BY <2>1, <2>5 DEF Places, KnownGone, Ended
<1>4. ForeignKept' /\ DoneMeansGone'
  BY DEF TypeOK, NotBegun, Before, AtHome, TakenAway, Places, Ended, ForeignKept, DoneMeansGone
<1> QED
  BY <1>1, <1>2, <1>3, <1>4

LEMMA PreserveKeeps == WipeInv /\ Preserve => WipeInv'
<1> SUFFICES ASSUME WipeInv, Preserve PROVE WipeInv'
  OBVIOUS
<1> USE DEF WipeInv, Preserve, backUnchanged, LateFault, OnTime, Fault, Finish, memory
<1>1. TypeOK'
  <2> USE DEF TypeOK
  <2>1. ({root, quarantine, recovery, snapshot, base} \subseteq Tree \cup {NoTree})'
    <3>1. snapshot \in Tree
      BY DEF Places
    <3>2. recovery' = recovery \/ recovery' = snapshot \/ \E lost : recovery' = Rebuilt(lost)
      OBVIOUS
    <3> QED
      BY <3>1, <3>2, RebuiltTree
  <2>2. ({txn, attempted, renameError, aborted, away, lateFault} \subseteq BOOLEAN)'
    OBVIOUS
  <2>3. (pc \in Pc /\ result \in {"none", "done", "failed", "stuck"})'
    BY DEF Pc, RollbackPc
  <2>4. (removed \subseteq File /\ foreign \subseteq File /\ (todo \subseteq File \/ todo \subseteq Folder))'
    BY DEF Files, Places
  <2>5. (faults \in 0..MaxFaults /\ writes \in 0..MaxWrites)'
    BY BoundsAssumption
  <2>6. (quarantine # NoTree \/ recovery # NoTree => txn)'
    BY DEF NotBegun, Before, AtHome, Places, Ended
  <2> QED
    BY <2>1, <2>2, <2>3, <2>4, <2>5, <2>6
<1>2. NotBegun' /\ AtHome' /\ TakenAway' /\ Rooted'
  BY DEF TypeOK, NotBegun, Before, AtHome, TakenAway, Rooted, Places, Ended, ForeignKept
<1>3. Places' /\ KnownGone' /\ Ended'
  BY DEF TypeOK, NotBegun, Before, AtHome, TakenAway, Places, KnownGone, Ended
<1>4. ForeignKept' /\ DoneMeansGone'
  BY DEF TypeOK, NotBegun, Before, AtHome, TakenAway, Places, Ended, ForeignKept, DoneMeansGone
<1> QED
  BY <1>1, <1>2, <1>3, <1>4

LEMMA CheckBackKeeps == WipeInv /\ CheckBack => WipeInv'
<1> SUFFICES ASSUME WipeInv, CheckBack PROVE WipeInv'
  OBVIOUS
<1> USE DEF WipeInv, CheckBack, backUnchanged, LateFault, OnTime, Fault, Finish, memory, disk
<1>1. TypeOK'
  <2> USE DEF TypeOK
  <2>1. ({root, quarantine, recovery, snapshot, base} \subseteq Tree \cup {NoTree})'
    BY DEF Places
  <2>2. ({txn, attempted, renameError, aborted, away, lateFault} \subseteq BOOLEAN)'
    OBVIOUS
  <2>3. (pc \in Pc /\ result \in {"none", "done", "failed", "stuck"})'
    BY DEF Pc, RollbackPc
  <2>4. (removed \subseteq File /\ foreign \subseteq File /\ (todo \subseteq File \/ todo \subseteq Folder))'
    BY DEF Files, Places
  <2>5. (faults \in 0..MaxFaults /\ writes \in 0..MaxWrites)'
    BY BoundsAssumption
  <2>6. (quarantine # NoTree \/ recovery # NoTree => txn)'
    BY DEF NotBegun, Before, AtHome, Places, Ended
  <2> QED
    BY <2>1, <2>2, <2>3, <2>4, <2>5, <2>6
<1>2. NotBegun' /\ AtHome' /\ TakenAway' /\ Rooted'
  BY DEF TypeOK, NotBegun, Before, AtHome, TakenAway, Rooted, Places, Ended, ForeignKept
<1>3. Places' /\ KnownGone' /\ Ended'
  BY DEF TypeOK, NotBegun, Before, AtHome, TakenAway, Places, KnownGone, Ended
<1>4. ForeignKept' /\ DoneMeansGone'
  BY DEF TypeOK, NotBegun, Before, AtHome, TakenAway, Places, Ended, ForeignKept, DoneMeansGone
<1> QED
  BY <1>1, <1>2, <1>3, <1>4

LEMMA RenameBackKeeps == WipeInv /\ RenameBack => WipeInv'
<1> SUFFICES ASSUME WipeInv, RenameBack PROVE WipeInv'
  OBVIOUS
<1> USE DEF WipeInv, RenameBack, backUnchanged, LateFault, OnTime, Fault, Finish, memory
<1>1. TypeOK'
  <2> USE DEF TypeOK
  <2>1. ({root, quarantine, recovery, snapshot, base} \subseteq Tree \cup {NoTree})'
    BY DEF Places
  <2>2. ({txn, attempted, renameError, aborted, away, lateFault} \subseteq BOOLEAN)'
    OBVIOUS
  <2>3. (pc \in Pc /\ result \in {"none", "done", "failed", "stuck"})'
    BY DEF Pc, RollbackPc
  <2>4. (removed \subseteq File /\ foreign \subseteq File /\ (todo \subseteq File \/ todo \subseteq Folder))'
    BY DEF Files, Places
  <2>5. (faults \in 0..MaxFaults /\ writes \in 0..MaxWrites)'
    BY BoundsAssumption
  <2>6. (quarantine # NoTree \/ recovery # NoTree => txn)'
    BY DEF NotBegun, Before, AtHome, Places, Ended
  <2> QED
    BY <2>1, <2>2, <2>3, <2>4, <2>5, <2>6
<1>2. NotBegun' /\ AtHome' /\ TakenAway' /\ Rooted'
  BY DEF TypeOK, NotBegun, Before, AtHome, TakenAway, Rooted, Places, Ended, ForeignKept
<1>3. Places' /\ KnownGone' /\ Ended'
  BY DEF TypeOK, NotBegun, Before, AtHome, TakenAway, Places, KnownGone, Ended
<1>4. ForeignKept' /\ DoneMeansGone'
  BY DEF TypeOK, NotBegun, Before, AtHome, TakenAway, Places, Ended, ForeignKept, DoneMeansGone
<1> QED
  BY <1>1, <1>2, <1>3, <1>4

LEMMA DropBackKeeps == WipeInv /\ DropBack => WipeInv'
<1> SUFFICES ASSUME WipeInv, DropBack PROVE WipeInv'
  OBVIOUS
<1> USE DEF WipeInv, DropBack, backUnchanged, LateFault, OnTime, Fault, Finish, memory
<1>1. TypeOK'
  <2> USE DEF TypeOK
  <2>1. ({root, quarantine, recovery, snapshot, base} \subseteq Tree \cup {NoTree})'
    BY DEF Places
  <2>2. ({txn, attempted, renameError, aborted, away, lateFault} \subseteq BOOLEAN)'
    OBVIOUS
  <2>3. (pc \in Pc /\ result \in {"none", "done", "failed", "stuck"})'
    BY DEF Pc, RollbackPc
  <2>4. (removed \subseteq File /\ foreign \subseteq File /\ (todo \subseteq File \/ todo \subseteq Folder))'
    BY DEF Files, Places
  <2>5. (faults \in 0..MaxFaults /\ writes \in 0..MaxWrites)'
    BY BoundsAssumption
  <2>6. (quarantine # NoTree \/ recovery # NoTree => txn)'
    BY DEF NotBegun, Before, AtHome, Places, Ended
  <2> QED
    BY <2>1, <2>2, <2>3, <2>4, <2>5, <2>6
<1>2. NotBegun' /\ AtHome' /\ TakenAway' /\ Rooted'
  BY DEF TypeOK, NotBegun, Before, AtHome, TakenAway, Rooted, Places, Ended, ForeignKept
<1>3. Places' /\ KnownGone' /\ Ended'
  BY DEF TypeOK, NotBegun, Before, AtHome, TakenAway, Places, KnownGone, Ended
<1>4. ForeignKept' /\ DoneMeansGone'
  BY DEF TypeOK, NotBegun, Before, AtHome, TakenAway, Places, Ended, ForeignKept, DoneMeansGone
<1> QED
  BY <1>1, <1>2, <1>3, <1>4

LEMMA AbortKeeps == WipeInv /\ Abort => WipeInv'
<1> SUFFICES ASSUME WipeInv, Abort PROVE WipeInv'
  OBVIOUS
<1> USE DEF WipeInv, Abort, disk, memory, history, bounds
<1>1. TypeOK'
  BY BoundsAssumption DEF TypeOK, Pc, RollbackPc, NotBegun, AtHome, Places, Ended
<1>2. NotBegun' /\ AtHome' /\ TakenAway' /\ Rooted'
  BY DEF TypeOK, NotBegun, Before, AtHome, TakenAway, Rooted, Places, Ended, ForeignKept
<1>3. Places' /\ KnownGone' /\ Ended'
  BY DEF TypeOK, NotBegun, Before, AtHome, TakenAway, Places, KnownGone, Ended
<1>4. ForeignKept' /\ DoneMeansGone'
  BY DEF TypeOK, NotBegun, Before, AtHome, TakenAway, Places, Ended, ForeignKept, DoneMeansGone
<1> QED
  BY <1>1, <1>2, <1>3, <1>4

LEMMA WriteRootKeeps ==
  ASSUME WipeInv, NEW f \in File, WriteRoot(f)
  PROVE  WipeInv'
<1> DEFINE old == IF root = NoTree THEN [files |-> [g \in File |-> Absent], folders |-> {}] ELSE root
<1>1. /\ root' = Written(old, f, Above[f])
      /\ IF away THEN foreign' = foreign \cup {f} /\ base' = base ELSE base' = root' /\ foreign' = foreign
      /\ result = "none" /\ writes' \in 0..MaxWrites
      /\ UNCHANGED <<quarantine, recovery, txn, pc, aborted, result, away, lateFault, faults>>
      /\ UNCHANGED <<attempted, renameError, snapshot, removed, todo>>
  BY BoundsAssumption DEF WriteRoot, Written, memory, WipeInv, TypeOK
<1>2. Above[f] \in SUBSET Folder /\ Top \in Above[f]
  BY LayoutAssumption
<1>3. old \in Tree
  <2>1. [files |-> [g \in File |-> Absent], folders |-> {}] \in Tree
    BY DEF Tree, Image
  <2> QED
    BY <2>1 DEF WipeInv, TypeOK
<1> HIDE DEF old
<1>4. /\ root' \in Tree /\ Top \in root'.folders
      /\ \A g \in File : root'.files[g] = IF g = f THEN Foreign ELSE old.files[g]
  BY <1>1, <1>2, <1>3, WrittenTree
<1>5. root' # NoTree
  BY <1>4, TokensAssumption
<1> USE <1>1, <1>4, <1>5 DEF WipeInv
<1>6. TypeOK'
  BY DEF TypeOK
<1>7. NotBegun' /\ AtHome' /\ TakenAway' /\ Rooted'
  BY DEF NotBegun, Before, AtHome, TakenAway, Rooted
<1>8. Places' /\ KnownGone' /\ Ended'
  BY DEF TakenAway, AtHome, Places, KnownGone, Ended
<1>9. ForeignKept' /\ DoneMeansGone'
  BY DEF TypeOK, AtHome, ForeignKept, DoneMeansGone, old
<1> QED
  BY <1>6, <1>7, <1>8, <1>9

LEMMA StutterKeeps == WipeInv /\ UNCHANGED vars => WipeInv'
  BY DEF vars, disk, memory, history, bounds, WipeInv, TypeOK, NotBegun, Before, AtHome, TakenAway,
         Rooted, Places, KnownGone, Files, Ended, ForeignKept, DoneMeansGone

LEMMA NextKeeps == WipeInv /\ [Next]_vars => WipeInv'
<1> SUFFICES ASSUME WipeInv, [Next]_vars PROVE WipeInv'
  OBVIOUS
<1>1. CASE Forward
  BY <1>1, StartKeeps, AllocateKeeps, CheckTransactionKeeps, RenameKeeps, CheckRenameKeeps,
     InventoryKeeps, CheckFileKeeps, RemoveFileKeeps, FilesRemovedKeeps, RemoveFolderKeeps,
     TeardownKeeps, DoneKeeps DEF Forward
<1>2. CASE Back
  BY <1>2, RollbackKeeps, RestoreKeeps, PreserveKeeps, CheckBackKeeps, RenameBackKeeps,
     DropBackKeeps DEF Back
<1>3. CASE Abort
  BY <1>3, AbortKeeps
<1>4. ASSUME NEW f \in File, WriteRoot(f) PROVE WipeInv'
  BY <1>4, WriteRootKeeps
<1>5. CASE UNCHANGED vars
  BY <1>5, StutterKeeps
<1> QED
  BY <1>1, <1>2, <1>3, <1>4, <1>5 DEF Next

(* The tree is where the code believes it to be, at every step.            *)
THEOREM WipeInvariant == Spec => []WipeInv
<1>1. WipeInv /\ [Next]_vars => WipeInv'
  BY NextKeeps
<1> QED
  BY InitEstablishes, <1>1, PTL DEF Spec

-----------------------------------------------------------------------------
(* Places hold trees; nothing is in a transaction folder that is not there. *)
THEOREM WipeTypeCorrect == Spec => []TypeOK
  BY WipeInvariant, PTL DEF WipeInv

LEMMA InvKeepsBytes == WipeInv /\ ~ProbesFail => BytesKept
<1> SUFFICES ASSUME WipeInv, ~ProbesFail, result # "done", base # NoTree, ~lateFault,
                    NEW f \in Files(base)
             PROVE  \/ \E place \in {root, quarantine, recovery} : Holds(place, f)
                    \/ pc # "idle" /\ Holds(snapshot, f)
  BY DEF BytesKept
<1>1. CASE ~away
  BY <1>1 DEF WipeInv, AtHome, Holds
<1>2. CASE away /\ (snapshot = NoTree \/ pc # "idle")
  BY <1>2 DEF WipeInv, TakenAway, Holds
<1>3. CASE away /\ pc = "idle"
  <2>1. result = "stuck"
    BY <1>3 DEF WipeInv, TypeOK, NotBegun, Before, Ended
  <2>2. quarantine = base \/ recovery = base
    BY <1>3, <2>1 DEF WipeInv, Ended
  <2> QED
    BY <2>2 DEF Holds
<1> QED
  BY <1>1, <1>2, <1>3

(* No byte of the domain is lost before the wipe is done, whichever call   *)
(* fails and whoever writes, if the question after a removal is answered.  *)
THEOREM WipeKeepsBytes ==
  ASSUME ~ProbesFail
  PROVE  Spec => []BytesKept
<1>1. WipeInv => BytesKept
  BY InvKeepsBytes
<1> QED
  BY <1>1, WipeInvariant, PTL

(* A wipe that reports a plain failure left the public tree as it was.     *)
THEOREM WipeFailsClean == Spec => []CleanFailure
<1>1. WipeInv => CleanFailure
  BY DEF WipeInv, CleanFailure, AtHome, Ended
<1> QED
  BY <1>1, WipeInvariant, PTL

(* What others write into a new public root is never overwritten.          *)
THEOREM WipeKeepsForeign == Spec => []ForeignKept
  BY WipeInvariant, PTL DEF WipeInv

(* Success means that nothing is left, and that the manifest names it all. *)
THEOREM WipeDoneIsGone == Spec => []DoneMeansGone
  BY WipeInvariant, PTL DEF WipeInv
=============================================================================
