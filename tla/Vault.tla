------------------------------- MODULE Vault -------------------------------
(***************************************************************************)
(* What the plugin keeps of itself in the vault, and the dispatch of its   *)
(* runs: the registry of the domains, the migrations of the stored files   *)
(* and of the pages, and the controller.  A behaviour is a behaviour of    *)
(* one part, chosen at the start; its variables are s1, s2, ... in the     *)
(* order of its module.                                                    *)
(***************************************************************************)
EXTENDS Naturals, Sequences, FiniteSets

CONSTANTS
  StoreDomains, StoreCalls, TmpBeside, \* of DomainStore; one call at a time
  LayoutDomains, Layouts, LayoutEdits, \* of StorageMigration
  PageCount, Links, Histories, Various, \* of PageMigration
  Runs, Events, HistoryLimit, NoRun,  \* of RunDispatch; one click at a time
  Crashes, Faults                     \* bounds: how often the application is closed, and calls fail

VARIABLES
  part,  \* the part at work, chosen at the start
  s1, s2, s3, s4, s5, s6, s7, s8, s9, s10, s11, s12, s13, s14, s15, s16  \* its variables, in the order of its module

vars == <<part, s1, s2, s3, s4, s5, s6, s7, s8, s9, s10, s11, s12, s13, s14, s15, s16>>

(* The variables a part with fewer leaves alone, from a number on.         *)
Off16 == s16 = "off"
Off15 == s15 = "off" /\ Off16
Off14 == s14 = "off" /\ Off15
Off13 == s13 = "off" /\ Off14
Off12 == s12 = "off" /\ Off13
Off11 == s11 = "off" /\ Off12
Off10 == s10 = "off" /\ Off11
Off9 == s9 = "off" /\ Off10
Off8 == s8 = "off" /\ Off9
Idle16 == <<s16>>
Idle15 == <<s15, Idle16>>
Idle14 == <<s14, Idle15>>
Idle13 == <<s13, Idle14>>
Idle12 == <<s12, Idle13>>
Idle11 == <<s11, Idle12>>
Idle10 == <<s10, Idle11>>
Idle9 == <<s9, Idle10>>
Idle8 == <<s8, Idle9>>

Store == INSTANCE DomainStore WITH
  N <- StoreDomains, Callers <- {"caller"}, MaxChanges <- StoreCalls, MaxCrashes <- Crashes, TmpBeside <- TmpBeside,
  meta <- s1, tmp <- s2, legacy <- s3, call <- s4, begun <- s5, crashes <- s6, kept <- s7,
  deleted <- s8, gone <- s9, old <- s10

Layout == INSTANCE StorageMigration WITH
  N <- LayoutDomains, Layouts <- Layouts, MaxCrashes <- Crashes, MaxFaults <- Faults, MaxEdits <- LayoutEdits,
  oldReg <- s1, oldFiles <- s2, reg <- s3, files <- s4, meta <- s5, index <- s6, log <- s7,
  pend <- s8, backed <- s9, at <- s10, todo <- s11, held <- s12, crashes <- s13, faults <- s14,
  edits <- s15, had <- s16

Pages == INSTANCE PageMigration WITH
  N <- PageCount, Links <- Links, Histories <- Histories, Various <- Various, MaxCrashes <- Crashes, MaxFaults <- Faults,
  page <- s1, flags <- s2, at <- s3, todo <- s4, crashes <- s5, faults <- s6, failed <- s7,
  first <- s8

Dispatch == INSTANCE RunDispatch WITH
  Runs <- Runs, QuickClicks <- FALSE, MaxEvents <- Events, HistoryLimit <- HistoryLimit, NoRun <- NoRun,
  run <- s1, current <- s2, label <- s3, view <- s4, history <- s5, graph <- s6, unlabelled <- s7

ASSUME VaultAssumption ==
  /\ Store!StoreAssumption /\ Layout!MigrationAssumption
  /\ Pages!PageAssumption /\ Dispatch!DispatchAssumption

Init ==
  \/ part = "store" /\ Store!Init /\ Off11
  \/ part = "layout" /\ Layout!Init
  \/ part = "pages" /\ Pages!Init /\ Off9
  \/ part = "dispatch" /\ Dispatch!Init /\ Off8

DoStore == part = "store" /\ Store!Next /\ UNCHANGED <<part, Idle11>>
DoLayout == part = "layout" /\ Layout!Next /\ UNCHANGED part
DoPages == part = "pages" /\ Pages!Next /\ UNCHANGED <<part, Idle9>>
DoDispatch == part = "dispatch" /\ Dispatch!Next /\ UNCHANGED <<part, Idle8>>

Next ==
  DoStore \/ DoLayout \/ DoPages \/ DoDispatch

Spec == Init /\ [][Next]_vars

-----------------------------------------------------------------------------
(* The registry loses no change a caller was told of, whatever fails or is closed *)
(* afterwards, and what a call changes is what the files say, or the old registry no *)
(* save has replaced yet; metadata that is in no list is only the copy of a write    *)
(* that was interrupted beside it.                                                   *)
RegistryKept == part = "store" => Store!TypeOK /\ Store!NothingLost /\ Store!ListIsRead

(* Wherever a migration was closed or failed, nothing is gone that is in no backup, no edge *)
(* between pages is lost that more than a change history named, and a second visit of a    *)
(* page changes nothing.                                                                    *)
MigrationLosesNothing ==
  /\ part = "layout" => Layout!TypeOK /\ Layout!GoneIsBackedUp /\ Layout!RecordsKept
  /\ part = "pages" => Pages!TypeOK /\ Pages!EdgesKept /\ Pages!OnceIsEnough /\ Pages!FlaggedIsFinal

(* The button to cancel reaches the run whose steps the view shows, the history says of a *)
(* run what became of it, and the graph of the pages is not older than the last run.      *)
RunsTrue ==
  part = "dispatch" => /\ Dispatch!TypeOK /\ Dispatch!CancelReaches
                       /\ Dispatch!StatusTrue /\ Dispatch!GraphFresh

(* No call touches what is corrupt, except to write the domain anew, and the history holds *)
(* the last runs that ended.                                                               *)
KeptForInspection ==
  [][/\ part = "store" => Store!CorruptKept
     /\ part = "dispatch" => Dispatch!HistoryNewest]_vars

=============================================================================
