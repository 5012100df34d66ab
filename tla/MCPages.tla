------------------------------ MODULE MCPages ------------------------------
(***************************************************************************)
(* What is written to the pages of a domain: an ingest, the reconciliation *)
(* of technical evidence, the patches of sections, a lint run and the chat *)
(* about its report.  A behaviour is a behaviour of one part, chosen at    *)
(* the start; its variables are s1, s2, ... in the order of its module.    *)
(***************************************************************************)
EXTENDS Naturals, Sequences, FiniteSets

CONSTANT Gone  \* model value: there is no such page

VARIABLES
  part,  \* the part at work, chosen at the start
  s1, s2, s3, s4, s5, s6, s7, s8, s9, s10, s11, s12, s13, s14, s15, s16, s17, s18, s19, s20  \* its variables, in the order of its module

vars == <<part, s1, s2, s3, s4, s5, s6, s7, s8, s9, s10, s11, s12, s13, s14, s15, s16, s17, s18, s19, s20>>

(* The variables a part with fewer leaves alone, from a number on.         *)
Off20 == s20 = "off"
Off19 == s19 = "off" /\ Off20
Off18 == s18 = "off" /\ Off19
Off17 == s17 = "off" /\ Off18
Off16 == s16 = "off" /\ Off17
Off15 == s15 = "off" /\ Off16
Off14 == s14 = "off" /\ Off15
Off13 == s13 = "off" /\ Off14
Off12 == s12 = "off" /\ Off13
Off11 == s11 = "off" /\ Off12
Off10 == s10 = "off" /\ Off11
Off9 == s9 = "off" /\ Off10
Off8 == s8 = "off" /\ Off9
Off7 == s7 = "off" /\ Off8
Off6 == s6 = "off" /\ Off7
Idle20 == <<s20>>
Idle19 == <<s19, Idle20>>
Idle18 == <<s18, Idle19>>
Idle17 == <<s17, Idle18>>
Idle16 == <<s16, Idle17>>
Idle15 == <<s15, Idle16>>
Idle14 == <<s14, Idle15>>
Idle13 == <<s13, Idle14>>
Idle12 == <<s12, Idle13>>
Idle11 == <<s11, Idle12>>
Idle10 == <<s10, Idle11>>
Idle9 == <<s9, Idle10>>
Idle8 == <<s8, Idle9>>
Idle7 == <<s7, Idle8>>
Idle6 == <<s6, Idle7>>

-----------------------------------------------------------------------------
(* Pages of up to two sections, with a frontmatter, a list or a fence.     *)
Bodies == {<<>>, <<"x">>, <<"- x">>, <<"~~~", "## b", "~~~">>}
ShownPages ==
  {front \o <<"## a">> \o b : front \in {<<>>, <<"---", "## a", "---">>}, b \in Bodies}
  \cup {<<"## a">> \o b \o <<"">> \o <<h>> \o c : h \in {"## a", "## b"}, b \in Bodies, c \in Bodies}
FewPages == {p \in ShownPages : Len(p) = 5 /\ p[1] # "---"}

(* An edit of one line that keeps the length, and one that adds a line.    *)
Edits(p) == {p} \cup {[p EXCEPT ![i] = "y"] : i \in {j \in DOMAIN p : p[j] \in {"x", "- x"}}} \cup {Append(p, "y")}

PatchTexts == {<<"x">>, <<"y">>, <<"x", "y">>, <<"", "- x", "">>, <<"~~~", "## b", "~~~">>, <<"## b">>, <<"~~~", "## b">>}
FewTexts == {<<"y">>, <<"~~~", "## b", "~~~">>}

(* Three pages in two folders; the first has two sections, in different batches. *)
Folder == [p \in {"a", "b", "c"} |-> IF p = "c" THEN "rare" ELSE "common"]
TwoBatches == <<{<<"a", 1>>}, {<<"a", 2>>, <<"b", 1>>}>>
FirstBatch == <<{<<"a", 1>>, <<"b", 1>>}>>
ThreeBatches == <<{<<"a", 1>>}, {<<"a", 2>>, <<"b", 1>>}, {<<"c", 1>>}>>

Page(links, aliased, notes, valid) ==
  [links |-> links, aliased |-> aliased, notes |-> notes, patched |-> {}, valid |-> valid]

(* All pages; one of them without a note; one missing; one invalid.        *)
SomeVaults ==
  {[p \in {"a", "b", "c"} |->
      CASE p = "a" -> Page({"b", "c"}, {"b"}, {"n"}, TRUE)
        [] p = "b" -> Page({"a"}, {"c"}, IF noted THEN {"n", "m"} ELSE {}, TRUE)
        [] p = "c" -> IF third = "gone" THEN Gone ELSE Page({"a", "b"}, {}, {"m"}, third = "valid")] :
     noted \in BOOLEAN, third \in {"gone", "valid", "invalid"}}

-----------------------------------------------------------------------------
Run == INSTANCE Ingest WITH
  Pages <- {"p1", "p2", "p3"}, Dedup <- TRUE, NoPage <- Gone, MaxEdits <- 1,
  page <- s1, idx <- s2, source <- s3, run <- s4, aborted <- s5, edits <- s6, slipped <- s7,
  deletedByUser <- s8

Merges == INSTANCE Ingest WITH
  Pages <- {"p1", "p2", "p3", "p4"}, Dedup <- TRUE, NoPage <- Gone, MaxEdits <- 0,
  page <- s1, idx <- s2, source <- s3, run <- s4, aborted <- s5, edits <- s6, slipped <- s7,
  deletedByUser <- s8

Evidence == INSTANCE TechnicalEvidence WITH
  Technical <- {"t"}, Urls <- {"u"}, Within <- {}, MaxAnswer <- 2, MaxRounds <- 2,
  Sources <- {<<"t", "u">>, <<"prose", "open", "c", "d", "blank", "e", "close">>},
  Lines <- {"open", "close", "c", "u", "head", "sources"},
  page <- s1, before <- s2, source <- s3, round <- s4, refused <- s5

One == INSTANCE SectionPatches WITH
  Pages <- ShownPages, Edited <- Edits, Contents <- PatchTexts, MaxPatches <- 1,
  seen <- s1, granted <- s2, page <- s3, patches <- s4, turn <- s5, content <- s6, changed <- s7,
  outcome <- s8, replaced <- s9

Two == INSTANCE SectionPatches WITH
  Pages <- FewPages, Edited <- Edits, Contents <- FewTexts, MaxPatches <- 2,
  seen <- s1, granted <- s2, page <- s3, patches <- s4, turn <- s5, content <- s6, changed <- s7,
  outcome <- s8, replaced <- s9

Lint == INSTANCE LintRun WITH
  Pages <- {"a", "b", "c"}, Types <- {"common", "rare"}, Notes <- {"n", "m"}, TypeOf <- Folder,
  Batches <- ThreeBatches, Vaults <- SomeVaults, Faults <- {},
  pc <- s1, disk <- s2, mem <- s3, listed <- s4, index <- s5, articles <- s6, types <- s7,
  useLlm <- s8, batch <- s9, patches <- s10, deletes <- s11, written <- s12, refs <- s13,
  decided <- s14, halfway <- s15, unsynced <- s16

Faulty == INSTANCE LintRun WITH
  Pages <- {"a", "b", "c"}, Types <- {"common", "rare"}, Notes <- {"n", "m"}, TypeOf <- Folder,
  Batches <- TwoBatches, Vaults <- SomeVaults, Faults <- {"write"},
  pc <- s1, disk <- s2, mem <- s3, listed <- s4, index <- s5, articles <- s6, types <- s7,
  useLlm <- s8, batch <- s9, patches <- s10, deletes <- s11, written <- s12, refs <- s13,
  decided <- s14, halfway <- s15, unsynced <- s16

Stuck == INSTANCE LintRun WITH
  Pages <- {"a", "b", "c"}, Types <- {"common", "rare"}, Notes <- {"n", "m"}, TypeOf <- Folder,
  Batches <- FirstBatch, Vaults <- SomeVaults, Faults <- {"remove", "read"},
  pc <- s1, disk <- s2, mem <- s3, listed <- s4, index <- s5, articles <- s6, types <- s7,
  useLlm <- s8, batch <- s9, patches <- s10, deletes <- s11, written <- s12, refs <- s13,
  decided <- s14, halfway <- s15, unsynced <- s16

Chat == INSTANCE LintChat WITH
  Pages <- {"a", "b"}, Size <- 2, Budgets <- {3, 5, 8}, MaxOlder <- 3, MaxPatches <- 2,
  at <- s1, stopped <- s2, budget <- s3, limit <- s4, explicit <- s5, active <- s6, schema <- s7,
  older <- s8, attempt <- s9, kept <- s10, patches <- s11, turn <- s12, written <- s13,
  indexed <- s14, applying <- s15, succeeded <- s16, failed <- s17, pending <- s18, phases <- s19,
  late <- s20

ASSUME PagesAssumption ==
  /\ Run!PagesAssumption /\ Merges!PagesAssumption /\ Evidence!EvidenceAssumption
  /\ One!SectionPatchesAssumption /\ Two!SectionPatchesAssumption /\ Lint!LintAssumption /\ Faulty!LintAssumption
  /\ Stuck!LintAssumption
  /\ Chat!LintChatAssumption

Init ==
  \/ part = "ingest" /\ Run!Init /\ Off9
  \/ part = "merges" /\ Merges!Init /\ Off9
  \/ part = "evidence" /\ Evidence!Init /\ Off6
  \/ part = "patch" /\ One!Init /\ Off10
  \/ part = "patches" /\ Two!Init /\ Off10
  \/ part = "lint" /\ Lint!Init /\ Off17
  \/ part = "faults" /\ Faulty!Init /\ Off17
  \/ part = "stuck" /\ Stuck!Init /\ Off17
  \/ part = "chat" /\ Chat!Init

DoRun == part = "ingest" /\ Run!Next /\ UNCHANGED <<part, Idle9>>
DoMerges == part = "merges" /\ Merges!Next /\ UNCHANGED <<part, Idle9>>
DoEvidence == part = "evidence" /\ Evidence!Next /\ UNCHANGED <<part, Idle6>>
DoOne == part = "patch" /\ One!Next /\ UNCHANGED <<part, Idle10>>
DoTwo == part = "patches" /\ Two!Next /\ UNCHANGED <<part, Idle10>>
DoLint == part = "lint" /\ Lint!Next /\ UNCHANGED <<part, Idle17>>
DoFaulty == part = "faults" /\ Faulty!Next /\ UNCHANGED <<part, Idle17>>
DoStuck == part = "stuck" /\ Stuck!Next /\ UNCHANGED <<part, Idle17>>
DoChat == part = "chat" /\ Chat!Next /\ UNCHANGED part

Next ==
  DoRun \/ DoMerges \/ DoEvidence \/ DoOne \/ DoTwo \/ DoLint \/ DoFaulty \/ DoStuck \/ DoChat

Spec == Init /\ [][Next]_vars

-----------------------------------------------------------------------------
(* What a page held and nobody asked to change is in it still, after a rewrite by the *)
(* model or a patch of a section, also when the user edited the page in between: the  *)
(* evidence of its sources, the sections no patch names, the lines it had, once.      *)
TextKept ==
  /\ part = "evidence" => /\ Evidence!EvidencePresent /\ Evidence!NothingInvented
                          /\ Evidence!SectionKept /\ Evidence!NeverRefused
  /\ part = "patch" => /\ One!TypeOK /\ One!UntouchedKept /\ One!ReplacedAsShown
                       /\ One!HeadingsAdded /\ One!LinesOnce
  /\ part = "patches" => Two!UntouchedKept /\ Two!ReplacedAsShown /\ Two!HeadingsAdded

(* The pages, the index and the notes that name the pages agree when a run is over,  *)
(* however it ended: a page has its record, a removed one has none, a note names the *)
(* pages made from it, and nothing disappears that the run did not decide to remove. *)
ReferencesAgree ==
  /\ part = "ingest" => Run!RecordsKept /\ Run!IngestedIsThere /\ Run!ArticlesExist
  /\ part = "merges" => Merges!RecordsKept /\ Merges!IngestedIsThere /\ Merges!ArticlesExist
  /\ part = "lint" => /\ Lint!TypeOK /\ Lint!IndexMatches /\ Lint!BacklinksComplete /\ Lint!NoStaleBacklink
                      /\ Lint!OldDeadLinksGone /\ Lint!OnlyDecided /\ Lint!TypesBacked
  /\ part = "faults" => /\ Faulty!TypeOK /\ Faulty!IndexMatches /\ Faulty!RemovedUnindexed /\ Faulty!BacklinksComplete
                        /\ Faulty!NoStaleBacklink
                        /\ Faulty!OldDeadLinksGone /\ Faulty!OnlyDecided /\ Faulty!TypesBacked
  /\ part = "stuck" => Stuck!TypeOK /\ Stuck!RemovedUnindexed
  /\ part = "chat" => Chat!StoppedConsistent

(* A run says of itself what happened: the trace is closed once and as completed only  *)
(* when the writes that were begun succeeded, what is reported as changed was changed, *)
(* and only what the model was shown is written, before a stop.                        *)
OutcomeTrue ==
  /\ part = "ingest" => Run!TypeOK
  /\ part = "patch" => One!ChangedTruthful
  /\ part = "chat" => /\ Chat!TypeOK /\ Chat!TerminalOnce /\ Chat!OnlySelected
                      /\ Chat!PromptFits /\ Chat!NoLateWrite

(* No step of an ingest takes away what a page or the source says, the user's latest *)
(* words included, and none writes a page after a cancel.                            *)
NothingTakenAway ==
  [][/\ part = "ingest" => Run!WordsKept /\ Run!SourceKept /\ Run!CancelStopsWrites
     /\ part = "merges" => Merges!WordsKept /\ Merges!CancelStopsWrites]_vars
=============================================================================
