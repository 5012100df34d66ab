----------------------------- MODULE VaultProofs -----------------------------
(***************************************************************************)
(* Proofs about the module Vault, part by part: the inductive invariants   *)
(* of the migrations and of the registry are those their modules end with. *)
(* The variables of a part are s1, s2, ... in the order of its module.     *)
(***************************************************************************)
EXTENDS Vault, TLAPS

-----------------------------------------------------------------------------
(* The numbers of the domains and of the calls, and the names of the files. *)
LEMMA LayoutFacts ==
  ASSUME Layout!MigrationAssumption
  PROVE  /\ Layout!NoReg \in Layout!Registries /\ DOMAIN Layout!NoReg = {}
         /\ \A d \in Layout!Domains : d \in Nat /\ d # 0 /\ d \in 0..LayoutDomains
         /\ 0 \in 0..LayoutDomains
         /\ \A i \in 1..3 : Layout!Kind(i) \in Layout!Kinds
         /\ \A k \in Layout!Kinds : \E i \in 1..3 : Layout!Kind(i) = k
         /\ \A i \in 1..3, j \in 1..3 : Layout!Kind(i) = Layout!Kind(j) => i = j
<1>1. Layout!Kind(1) = "index" /\ Layout!Kind(2) = "log" /\ Layout!Kind(3) = "emb"
  BY DEF Layout!Kind
<1>2. \A i \in 1..3 : i = 1 \/ i = 2 \/ i = 3
  OBVIOUS
<1>3. 1 \in 1..3 /\ 2 \in 1..3 /\ 3 \in 1..3
  OBVIOUS
<1>4. /\ \A i \in 1..3 : Layout!Kind(i) \in Layout!Kinds
      /\ \A k \in Layout!Kinds : \E i \in 1..3 : Layout!Kind(i) = k
      /\ \A i \in 1..3, j \in 1..3 : Layout!Kind(i) = Layout!Kind(j) => i = j
  BY <1>1, <1>2, <1>3 DEF Layout!Kinds
<1>5. /\ \A d \in Layout!Domains : d \in Nat /\ d # 0 /\ d \in 0..LayoutDomains
      /\ 0 \in 0..LayoutDomains
  BY DEF Layout!Domains, Layout!MigrationAssumption
<1>6. Layout!NoReg \in Layout!Registries /\ DOMAIN Layout!NoReg = {}
  BY DEF Layout!NoReg, Layout!Registries
<1> QED
  BY <1>4, <1>5, <1>6

(* A registry is NoReg or has a record of every domain.                    *)
LEMMA Registry ==
  ASSUME Layout!MigrationAssumption, NEW r \in Layout!Registries
  PROVE  /\ r # Layout!NoReg <=> r \in [Layout!Domains -> Layout!Records]
         /\ r # Layout!NoReg <=> DOMAIN r = Layout!Domains
         /\ r = Layout!NoReg <=> DOMAIN r = {}
<1>1. 1 \in Layout!Domains
  BY DEF Layout!MigrationAssumption, Layout!Domains
<1>2. DOMAIN Layout!NoReg = {}
  BY DEF Layout!NoReg
<1>3. r = Layout!NoReg \/ r \in [Layout!Domains -> Layout!Records]
  BY DEF Layout!Registries
<1> QED
  BY <1>1, <1>2, <1>3

(* What the list of the domains is after a load: records of domains.       *)
LEMMA LayoutList ==
  ASSUME Layout!MigrationAssumption, Layout!OnDisk
  PROVE  /\ DOMAIN Layout!List = IF Layout!Stored # {} THEN Layout!Stored ELSE DOMAIN s3
         /\ Layout!Stored \subseteq Layout!Domains
         /\ \A d \in DOMAIN Layout!List : d \in Layout!Domains /\ Layout!List[d] \in Layout!Records
<1>1. ASSUME NEW d \in Layout!Stored PROVE d \in Layout!Domains /\ s5[d] \in Layout!Records
  BY DEF Layout!Stored, Layout!OnDisk
<1>2. ASSUME NEW d \in DOMAIN s3 PROVE d \in Layout!Domains /\ Layout!Record(s3[d].mark, "paths") \in Layout!Records
  <2>1. s3 \in [Layout!Domains -> Layout!Records]
    BY Registry, <1>2 DEF Layout!OnDisk
  <2> QED
    BY <2>1, <1>2 DEF Layout!Records, Layout!Record
<1> QED
  BY <1>1, <1>2 DEF Layout!List

(* A save of a list of records keeps the files what they are, and no record of *)
(* the registry it removes is lost.                                            *)
LEMMA LayoutSave ==
  ASSUME Layout!MigrationAssumption, Layout!OnDisk, Layout!AllStored, Layout!RecordsKept,
         NEW list, DOMAIN list = DOMAIN Layout!List,
         \A d \in DOMAIN list : list[d] \in Layout!Records,
         Layout!Save(list), UNCHANGED <<s1, s9>>
  PROVE  /\ s3' \in Layout!Registries /\ s5' \in [Layout!Domains -> Layout!Records \cup {Layout!None}]
         /\ Layout!AllStored' /\ Layout!RecordsKept'
<1>1. s3' \in Layout!Registries /\ s5' \in [Layout!Domains -> Layout!Records \cup {Layout!None}]
  BY LayoutFacts DEF Layout!Save, Layout!OnDisk
<1>2. \A r \in Layout!Records : r # Layout!None
  BY DEF Layout!Records, Layout!None, Layout!Record
<1>3. \A d \in Layout!Domains : d \in Layout!Stored' <=> d \in DOMAIN Layout!List \/ d \in Layout!Stored
  BY <1>2 DEF Layout!Save, Layout!Stored
<1>4. Layout!Stored \subseteq Layout!Domains /\ Layout!Stored' \subseteq Layout!Domains
  BY DEF Layout!Stored
<1>5. CASE Layout!Stored # {}
  <2>1. Layout!Stored' = Layout!Stored
    BY <1>3, <1>4, <1>5, LayoutList
  <2>2. Layout!AllStored'
    BY <2>1 DEF Layout!AllStored
  <2>3. Layout!RecordsKept'
    BY <2>1, <1>5 DEF Layout!AllStored, Layout!RecordsKept
  <2> QED
    BY <1>1, <2>2, <2>3
<1>6. CASE Layout!Stored = {} /\ s3 # Layout!NoReg
  <2>1. DOMAIN Layout!List = Layout!Domains
    BY <1>6, LayoutList, Registry DEF Layout!OnDisk
  <2>2. Layout!Stored' = Layout!Domains
    BY <1>3, <1>4, <2>1
  <2> QED
    BY <1>1, <2>2 DEF Layout!AllStored, Layout!RecordsKept
<1>7. CASE Layout!Stored = {} /\ s3 = Layout!NoReg
  <2>1. DOMAIN Layout!List = {}
    BY <1>7, LayoutList, LayoutFacts
  <2>2. Layout!Stored' = {}
    BY <1>3, <1>4, <1>7, <2>1
  <2>3. s3' = s3
    BY <1>7 DEF Layout!Save
  <2> QED
    BY <1>1, <1>7, <2>2, <2>3 DEF Layout!AllStored, Layout!RecordsKept
<1> QED
  BY <1>5, <1>6, <1>7

LEMMA LayoutInit == Layout!MigrationAssumption /\ Layout!Init => Layout!Inv
<1> SUFFICES ASSUME Layout!MigrationAssumption, Layout!Init PROVE Layout!Inv
  OBVIOUS
<1>1. Layout!Record(0, "paths") \in Layout!Records /\ Layout!Record(0, "list") \in Layout!Records
  BY DEF Layout!MigrationAssumption, Layout!Record, Layout!Records
<1>2. /\ s1 \in Layout!Registries /\ s3 \in Layout!Registries
      /\ s2 \in [Layout!Domains -> SUBSET Layout!Kinds] /\ s4 \in [Layout!Domains -> SUBSET Layout!Kinds]
      /\ s16 \in [Layout!Domains -> SUBSET Layout!Kinds]
      /\ s12 = Layout!NoReg
      /\ s1 # Layout!NoReg \/ s3 # Layout!NoReg
  BY <1>1, Registry DEF Layout!Init, Layout!Registries, Layout!Kinds
<1>3. s5 = [d \in Layout!Domains |-> Layout!None] /\ Layout!Stored = {}
  BY DEF Layout!Init, Layout!Stored
<1>4. Layout!OnDisk /\ Layout!Control /\ Layout!AllStored
  BY <1>2, <1>3 DEF Layout!OnDisk, Layout!Control, Layout!AllStored, Layout!Init, Layout!MigrationAssumption, Layout!Registries
<1>5. Layout!Moving /\ Layout!BackingUp
  BY DEF Layout!Init, Layout!Moving, Layout!BackingUp
<1>6. Layout!GoneIsBackedUp
  BY DEF Layout!Init, Layout!GoneIsBackedUp
<1>7. Layout!RecordsKept
  BY <1>2, Registry DEF Layout!RecordsKept
<1> QED
  BY <1>4, <1>5, <1>6, <1>7 DEF Layout!Inv

LEMMA LayoutStep == Layout!MigrationAssumption /\ Layout!Inv /\ [Layout!Next]_(Layout!vars) => Layout!Inv'
<1> SUFFICES ASSUME Layout!MigrationAssumption, Layout!Inv, [Layout!Next]_(Layout!vars) PROVE Layout!Inv'
  OBVIOUS
<1> USE DEF Layout!Session, Layout!Goes, Layout!Inv
<1>1. CASE Layout!Launch
  <2>1. Layout!OnDisk'
    BY <1>1, LayoutFacts DEF Layout!Launch, Layout!OnDisk
  <2>2. Layout!Control'
    BY <1>1 DEF Layout!Launch, Layout!Control, Layout!Migrating, Layout!disk
  <2>3. Layout!AllStored'
    BY <1>1 DEF Layout!Launch, Layout!AllStored, Layout!Stored, Layout!disk
  <2>4. Layout!Moving'
    BY <1>1 DEF Layout!Launch, Layout!Moving, Layout!disk
  <2>5. Layout!BackingUp'
    BY <1>1 DEF Layout!Launch, Layout!BackingUp, Layout!disk
  <2>6. Layout!GoneIsBackedUp'
    BY <1>1 DEF Layout!Launch, Layout!GoneIsBackedUp, Layout!OnDisk, Layout!disk
  <2>7. Layout!RecordsKept'
    BY <1>1 DEF Layout!Launch, Layout!RecordsKept, Layout!Stored, Layout!disk
  <2> QED
    BY <2>1, <2>2, <2>3, <2>4, <2>5, <2>6, <2>7
<1>2. CASE Layout!OldCheck
  <2>r. s1 # Layout!NoReg => DOMAIN s1 = Layout!Domains
    BY Registry DEF Layout!OnDisk
  <2>1. Layout!OnDisk'
    BY <1>2 DEF Layout!OldCheck, Layout!OnDisk, Layout!disk
  <2>2. Layout!Control'
    BY <1>2, <2>r, LayoutFacts DEF Layout!OldCheck, Layout!Control, Layout!Migrating, Layout!Paths
  <2>3. Layout!AllStored'
    BY <1>2 DEF Layout!OldCheck, Layout!AllStored, Layout!Stored, Layout!disk
  <2>4. Layout!Moving'
    BY <1>2, <2>r DEF Layout!OldCheck, Layout!Moving
  <2>5. Layout!BackingUp'
    BY <1>2 DEF Layout!OldCheck, Layout!BackingUp, Layout!disk
  <2>6. Layout!GoneIsBackedUp'
    BY <1>2 DEF Layout!OldCheck, Layout!GoneIsBackedUp, Layout!OnDisk, Layout!disk
  <2>7. Layout!RecordsKept'
    BY <1>2, LayoutFacts DEF Layout!OldCheck, Layout!RecordsKept, Layout!Stored, Layout!disk
  <2> QED
    BY <2>1, <2>2, <2>3, <2>4, <2>5, <2>6, <2>7
<1>3. CASE Layout!Move
  <2>d. PICK d \in Layout!Domains, i \in 1..4 :
            /\ Layout!First(d, i) /\ Layout!Done(d, i, "dropReg")
            /\ \/ i <= 2 /\ UNCHANGED s2
                  /\ s4' = IF Layout!Kind(i) \in s2[d] THEN [s4 EXCEPT ![d] = @ \cup {Layout!Kind(i)}] ELSE s4
               \/ i > 2 /\ s2' = [s2 EXCEPT ![d] = @ \ {Layout!Kind(i - 2)}] /\ UNCHANGED s4
    BY <1>3 DEF Layout!Move
  <2>a. i \in 1..2 \/ (i > 2 /\ i - 2 \in 1..2 /\ i - 2 # i /\ ~(i <= i - 2))
    OBVIOUS
  <2>k. Layout!Kind(1) = "index" /\ Layout!Kind(2) = "log" /\ Layout!Kind(1) \in Layout!Kinds /\ Layout!Kind(2) \in Layout!Kinds
    BY DEF Layout!Kind, Layout!Kinds
  <2>i. i \in 1..2 => Layout!Kind(i) \in Layout!Kinds
    BY <2>k
  <2>j. i > 2 => i - 2 \in 1..2 /\ (i - 2 = 1 \/ i - 2 = 2)
    OBVIOUS
  <2>c. i > 2 => <<d, i - 2>> \notin s11
    BY <2>a, <2>d, LayoutFacts DEF Layout!First
  <2>1. Layout!OnDisk'
    <3>1. s2' \in [Layout!Domains -> SUBSET Layout!Kinds]
      BY <2>d DEF Layout!OnDisk
    <3>2. s4' \in [Layout!Domains -> SUBSET Layout!Kinds]
      BY <2>d, <2>a, <2>i DEF Layout!OnDisk
    <3> QED
      BY <1>3, <3>1, <3>2 DEF Layout!Move, Layout!OnDisk
  <2>2. Layout!Control'
    BY <1>3, <2>d DEF Layout!Move, Layout!Done, Layout!Control, Layout!Migrating
  <2>3. Layout!AllStored'
    BY <1>3 DEF Layout!Move, Layout!Done, Layout!AllStored, Layout!Stored, Layout!disk
  <2>4. Layout!Moving'
    BY <1>3, <2>d, <2>a, <2>k DEF Layout!Move, Layout!Done, Layout!Moving, Layout!OnDisk
  <2>5. Layout!BackingUp'
    BY <1>3 DEF Layout!Move, Layout!Done, Layout!BackingUp, Layout!disk
  <2>6. Layout!GoneIsBackedUp'
    <3>1. ASSUME i <= 2, NEW e \in Layout!Domains PROVE s2[e] \subseteq s2'[e] /\ s4[e] \subseteq s4'[e]
      <4>1. s2' = s2 /\ (s4' = s4 \/ s4' = [s4 EXCEPT ![d] = @ \cup {Layout!Kind(i)}])
        BY <2>d, <3>1
      <4>2. s4 \in [Layout!Domains -> SUBSET Layout!Kinds]
        BY DEF Layout!OnDisk
      <4> QED
        BY <4>1, <4>2
    <3>2. ASSUME i > 2, NEW e \in Layout!Domains PROVE s4'[e] = s4[e] /\ s2[e] \subseteq s2'[e] \cup s4[e]
      <4>1. Layout!Kind(i - 2) \in s2[d] => Layout!Kind(i - 2) \in s4[d]
        BY <1>3, <2>c, <2>j, <3>2 DEF Layout!Move, Layout!Moving
      <4>2. s4' = s4 /\ s2' = [s2 EXCEPT ![d] = @ \ {Layout!Kind(i - 2)}]
        BY <2>d, <3>2
      <4>3. s2 \in [Layout!Domains -> SUBSET Layout!Kinds]
        BY DEF Layout!OnDisk
      <4>4. CASE e = d
        BY <4>1, <4>2, <4>3, <4>4
      <4>5. CASE e # d
        BY <4>2, <4>3, <4>5
      <4> QED
        BY <4>4, <4>5
    <3>3. s9' = s9 /\ s16' = s16
      BY <1>3 DEF Layout!Move
    <3>4. \A e \in Layout!Domains : s2[e] \cup s4[e] \subseteq s2'[e] \cup s4'[e]
      BY <2>a, <3>1, <3>2
    <3> QED
      BY <3>3, <3>4 DEF Layout!GoneIsBackedUp
  <2>7. Layout!RecordsKept'
    BY <1>3 DEF Layout!Move, Layout!Done, Layout!RecordsKept, Layout!Stored, Layout!disk
  <2> QED
    BY <2>1, <2>2, <2>3, <2>4, <2>5, <2>6, <2>7
<1>4. CASE Layout!DropReg
  <2>r. s3 # Layout!NoReg /\ DOMAIN s3 = Layout!Domains
    BY <1>4, Registry DEF Layout!DropReg, Layout!OnDisk, Layout!Moving
  <2>1. Layout!OnDisk'
    BY <1>4, LayoutFacts DEF Layout!DropReg, Layout!OnDisk
  <2>2. Layout!Control'
    BY <1>4 DEF Layout!DropReg, Layout!Control, Layout!Migrating, Layout!disk
  <2>3. Layout!AllStored'
    BY <1>4 DEF Layout!DropReg, Layout!AllStored, Layout!Stored, Layout!disk
  <2>4. Layout!Moving'
    BY <1>4 DEF Layout!DropReg, Layout!Moving, Layout!disk
  <2>5. Layout!BackingUp'
    BY <1>4 DEF Layout!DropReg, Layout!BackingUp, Layout!disk
  <2>6. Layout!GoneIsBackedUp'
    BY <1>4 DEF Layout!DropReg, Layout!GoneIsBackedUp, Layout!OnDisk, Layout!disk
  <2>7. Layout!RecordsKept'
    BY <1>4, <2>r DEF Layout!DropReg, Layout!RecordsKept
  <2> QED
    BY <2>1, <2>2, <2>3, <2>4, <2>5, <2>6, <2>7
<1>5. CASE Layout!Detect
  <2>r. s3 # Layout!NoReg => DOMAIN s3 = Layout!Domains
    BY Registry DEF Layout!OnDisk
  <2>p. s3 # Layout!NoReg => Layout!LegacyPaths(s3) \subseteq Layout!Paths /\ <<0, 1>> \in Layout!LegacyPaths(s3)
                             /\ \A d \in Layout!Domains, i \in 1..3 : <<d, i>> \in Layout!LegacyPaths(s3)
    BY <2>r, LayoutFacts DEF Layout!LegacyPaths, Layout!Paths
  <2>1. Layout!OnDisk'
    BY <1>5 DEF Layout!Detect, Layout!OnDisk, Layout!disk
  <2>2. Layout!Control'
    BY <1>5, <2>p DEF Layout!Detect, Layout!Control, Layout!Migrating
  <2>3. Layout!AllStored'
    BY <1>5 DEF Layout!Detect, Layout!AllStored, Layout!Stored, Layout!disk
  <2>4. Layout!Moving'
    BY <1>5 DEF Layout!Detect, Layout!Moving, Layout!disk
  <2>5. Layout!BackingUp'
    BY <1>5, <2>p DEF Layout!Detect, Layout!BackingUp, Layout!disk
  <2>6. Layout!GoneIsBackedUp'
    BY <1>5 DEF Layout!Detect, Layout!GoneIsBackedUp, Layout!OnDisk, Layout!disk
  <2>7. Layout!RecordsKept'
    BY <1>5 DEF Layout!Detect, Layout!RecordsKept, Layout!Stored, Layout!disk
  <2> QED
    BY <2>1, <2>2, <2>3, <2>4, <2>5, <2>6, <2>7
<1>6. CASE Layout!Back
  <2>d. PICK d \in 0..LayoutDomains, i \in 1..3 :
            /\ Layout!First(d, i) /\ Layout!Done(d, i, "manifest")
            /\ s8' = IF Layout!Present(d, i) THEN s8 \cup {Layout!File(d, i)} ELSE s8
    BY <1>6 DEF Layout!Back
  <2>1. Layout!OnDisk'
    BY <1>6 DEF Layout!Back, Layout!Done, Layout!OnDisk, Layout!disk
  <2>2. Layout!Control'
    BY <1>6 DEF Layout!Back, Layout!Done, Layout!Control, Layout!Migrating, Layout!disk
  <2>3. Layout!AllStored'
    BY <1>6 DEF Layout!Back, Layout!Done, Layout!AllStored, Layout!Stored, Layout!disk
  <2>4. Layout!Moving'
    BY <1>6 DEF Layout!Back, Layout!Done, Layout!Moving, Layout!disk
  <2>5. Layout!BackingUp'
    <3>1. /\ s9' = s9 /\ s3' = s3 /\ s4' = s4 /\ s12' = s12 /\ s8 \subseteq s8'
          /\ s12 # Layout!NoReg /\ s3 # Layout!NoReg
          /\ s10 = "back"
      BY <1>6, <2>d DEF Layout!Back, Layout!BackingUp
    <3>2. \/ s10' = "back" /\ s11' = s11 \ {<<d, i>>}
          \/ s10' = "manifest" /\ s11 = {<<d, i>>}
      BY <2>d, <3>1 DEF Layout!Done
    <3>3. s10' = "back" => s11' \subseteq Layout!LegacyPaths(s12)'
      BY <3>1, <3>2 DEF Layout!BackingUp, Layout!LegacyPaths
    <3>4. (s10' = "back" /\ <<0, 1>> \in s11') \/ <<0, "reg">> \in s8'
      <4>1. CASE <<d, i>> = <<0, 1>>
        BY <2>d, <3>1, <4>1 DEF Layout!Present, Layout!File
      <4>2. CASE <<d, i>> # <<0, 1>>
        BY <3>1, <3>2, <4>2 DEF Layout!BackingUp
      <4> QED
        BY <4>1, <4>2
    <3>5. ASSUME NEW e \in Layout!Domains, NEW j \in 1..3, Layout!Kind(j) \in s4'[e]
          PROVE  (s10' = "back" /\ <<e, j>> \in s11') \/ <<e, Layout!Kind(j)>> \in s8'
      <4>1. CASE d = e /\ i = j
        BY <2>d, <3>1, <3>5, <4>1, LayoutFacts DEF Layout!Present, Layout!File
      <4>2. CASE <<d, i>> # <<e, j>>
        BY <3>1, <3>2, <3>5, <4>2 DEF Layout!BackingUp
      <4> QED
        BY <4>1, <4>2
    <3> QED
      BY <3>1, <3>2, <3>3, <3>4, <3>5 DEF Layout!BackingUp
  <2>6. Layout!GoneIsBackedUp'
    BY <1>6 DEF Layout!Back, Layout!Done, Layout!GoneIsBackedUp, Layout!OnDisk, Layout!disk
  <2>7. Layout!RecordsKept'
    BY <1>6 DEF Layout!Back, Layout!Done, Layout!RecordsKept, Layout!Stored, Layout!disk
  <2> QED
    BY <2>1, <2>2, <2>3, <2>4, <2>5, <2>6, <2>7
<1>7. CASE Layout!Manifest
  <2>r. s12 # Layout!NoReg /\ DOMAIN s12 = Layout!Domains
    BY <1>7, Registry DEF Layout!Manifest, Layout!OnDisk, Layout!BackingUp
  <2>1. Layout!OnDisk'
    BY <1>7 DEF Layout!Manifest, Layout!OnDisk, Layout!disk
  <2>2. Layout!Control'
    BY <1>7, <2>r, LayoutFacts DEF Layout!Manifest, Layout!Control, Layout!Migrating, Layout!Paths
  <2>3. Layout!AllStored'
    BY <1>7 DEF Layout!Manifest, Layout!AllStored, Layout!Stored, Layout!disk
  <2>4. Layout!Moving'
    BY <1>7 DEF Layout!Manifest, Layout!Moving, Layout!disk
  <2>5. Layout!BackingUp'
    BY <1>7, <2>r DEF Layout!Manifest, Layout!BackingUp
  <2>6. Layout!GoneIsBackedUp'
    BY <1>7 DEF Layout!Manifest, Layout!GoneIsBackedUp, Layout!OnDisk, Layout!disk
  <2>7. Layout!RecordsKept'
    BY <1>7 DEF Layout!Manifest, Layout!RecordsKept, Layout!Stored, Layout!disk
  <2> QED
    BY <2>1, <2>2, <2>3, <2>4, <2>5, <2>6, <2>7
<1>8. CASE Layout!Convert
  <2>d. PICK d \in Layout!Domains, i \in 1..3 :
            /\ Layout!First(d, i) /\ Layout!Done(d, i, "verify")
            /\ s5' = IF i = 1 THEN [s5 EXCEPT ![d] = Layout!Converted(s12[d])] ELSE s5
            /\ s6' = IF i = 2 THEN [s6 EXCEPT ![d] = TRUE] ELSE s6
            /\ s7' = IF i = 3 THEN [s7 EXCEPT ![d] = IF "log" \in s4[d] THEN <<0>> ELSE <<>>] ELSE s7
    BY <1>8 DEF Layout!Convert
  <2>r. s12 \in [Layout!Domains -> Layout!Records]
    BY <1>8, Registry DEF Layout!Convert, Layout!OnDisk, Layout!BackingUp
  <2>m. Layout!Converted(s12[d]) \in Layout!Records
    BY <2>r DEF Layout!Converted, Layout!Record, Layout!Records
  <2>b. <<0, "reg">> \in s9 /\ <<0, "reg">> \in s9'
    BY <1>8 DEF Layout!Convert, Layout!BackingUp
  <2>1. Layout!OnDisk'
    <3>1. s5' \in [Layout!Domains -> Layout!Records \cup {Layout!None}] /\ s6' \in [Layout!Domains -> BOOLEAN]
      BY <2>d, <2>m DEF Layout!OnDisk
    <3>2. <<0>> \in Seq(0..LayoutEdits) /\ <<>> \in Seq(0..LayoutEdits)
      BY DEF Layout!MigrationAssumption
    <3>3. s7' \in [Layout!Domains -> Seq(0..LayoutEdits)]
      BY <2>d, <3>2 DEF Layout!OnDisk
    <3> QED
      BY <1>8, <3>1, <3>3 DEF Layout!Convert, Layout!OnDisk
  <2>2. Layout!Control'
    BY <1>8, <2>d DEF Layout!Convert, Layout!Done, Layout!Control, Layout!Migrating
  <2>3. Layout!AllStored'
    BY <2>b DEF Layout!AllStored
  <2>4. Layout!Moving'
    BY <1>8 DEF Layout!Convert, Layout!Done, Layout!Moving, Layout!disk
  <2>5. Layout!BackingUp'
    BY <1>8, <2>d DEF Layout!Convert, Layout!Done, Layout!BackingUp
  <2>6. Layout!GoneIsBackedUp'
    BY <1>8 DEF Layout!Convert, Layout!Done, Layout!GoneIsBackedUp, Layout!OnDisk, Layout!disk
  <2>7. Layout!RecordsKept'
    BY <2>b DEF Layout!RecordsKept
  <2> QED
    BY <2>1, <2>2, <2>3, <2>4, <2>5, <2>6, <2>7
<1>9. CASE Layout!Verify
  <2>r. s12 # Layout!NoReg /\ DOMAIN s12 = Layout!Domains
    BY <1>9, Registry DEF Layout!Verify, Layout!OnDisk, Layout!BackingUp
  <2>p. Layout!LegacyPaths(s12) \subseteq Layout!Paths
    BY <2>r, LayoutFacts DEF Layout!LegacyPaths, Layout!Paths
  <2>1. Layout!OnDisk'
    BY <1>9 DEF Layout!Verify, Layout!OnDisk, Layout!disk
  <2>2. Layout!Control'
    BY <1>9, <2>p DEF Layout!Verify, Layout!Control, Layout!Migrating
  <2>3. Layout!AllStored'
    BY <1>9 DEF Layout!Verify, Layout!AllStored, Layout!Stored, Layout!disk
  <2>4. Layout!Moving'
    BY <1>9 DEF Layout!Verify, Layout!Moving, Layout!disk
  <2>5. Layout!BackingUp'
    BY <1>9 DEF Layout!Verify, Layout!BackingUp, Layout!disk
  <2>6. Layout!GoneIsBackedUp'
    BY <1>9 DEF Layout!Verify, Layout!GoneIsBackedUp, Layout!OnDisk, Layout!disk
  <2>7. Layout!RecordsKept'
    BY <1>9 DEF Layout!Verify, Layout!RecordsKept, Layout!Stored, Layout!disk
  <2> QED
    BY <2>1, <2>2, <2>3, <2>4, <2>5, <2>6, <2>7
<1>10. CASE Layout!Unlink
  <2>d. PICK d \in 0..LayoutDomains, i \in 1..3 :
            /\ Layout!First(d, i) /\ Layout!Done(d, i, "load")
            /\ s3' = IF d = 0 THEN Layout!NoReg ELSE s3
            /\ s4' = IF d = 0 THEN s4 ELSE [s4 EXCEPT ![d] = @ \ {Layout!Kind(i)}]
    BY <1>10 DEF Layout!Unlink
  <2>b. /\ <<0, "reg">> \in s9 /\ <<0, "reg">> \in s9'
        /\ \A e \in Layout!Domains, j \in 1..3 : Layout!Kind(j) \in s4[e] => <<e, Layout!Kind(j)>> \in s9
    BY <1>10 DEF Layout!Unlink, Layout!BackingUp
  <2>1. Layout!OnDisk'
    BY <1>10, <2>d, LayoutFacts DEF Layout!Unlink, Layout!OnDisk
  <2>2. Layout!Control'
    BY <1>10, <2>d DEF Layout!Unlink, Layout!Done, Layout!Control, Layout!Migrating
  <2>3. Layout!AllStored'
    BY <1>10 DEF Layout!Unlink, Layout!Done, Layout!AllStored, Layout!Stored, Layout!disk
  <2>4. Layout!Moving'
    BY <1>10 DEF Layout!Unlink, Layout!Done, Layout!Moving, Layout!disk
  <2>5. Layout!BackingUp'
    BY <1>10, <2>d, <2>b DEF Layout!Unlink, Layout!Done, Layout!BackingUp, Layout!OnDisk
  <2>6. Layout!GoneIsBackedUp'
    <3>1. s2' = s2 /\ s9' = s9 /\ s16' = s16
      BY <1>10 DEF Layout!Unlink
    <3>2. ASSUME NEW e \in Layout!Domains, NEW k \in s4[e] PROVE k \in s4'[e] \/ <<e, k>> \in s9
      <4>1. PICK j \in 1..3 : Layout!Kind(j) = k
        BY LayoutFacts DEF Layout!OnDisk
      <4> QED
        BY <2>b, <4>1
    <3> QED
      BY <3>1, <3>2 DEF Layout!GoneIsBackedUp
  <2>7. Layout!RecordsKept'
    BY <2>b DEF Layout!RecordsKept
  <2> QED
    BY <2>1, <2>2, <2>3, <2>4, <2>5, <2>6, <2>7
<1>11. CASE Layout!Load
  <2>s. Layout!Stored = {} /\ (\E d \in DOMAIN s3 : s3[d].sources = "list") => Layout!Save(Layout!List)
    BY <1>11 DEF Layout!Load
  <2>u. Layout!Save(Layout!List) \/ UNCHANGED <<s3, s5>>
    BY <1>11 DEF Layout!Load
  <2>l. /\ s3' \in Layout!Registries /\ s5' \in [Layout!Domains -> Layout!Records \cup {Layout!None}]
        /\ Layout!AllStored' /\ Layout!RecordsKept'
    <3>1. UNCHANGED <<s1, s9>>
      BY <1>11 DEF Layout!Load
    <3>2. CASE Layout!Save(Layout!List)
      BY <3>1, <3>2, LayoutList, LayoutSave
    <3>3. CASE UNCHANGED <<s3, s5>>
      BY <3>1, <3>3 DEF Layout!OnDisk, Layout!AllStored, Layout!RecordsKept, Layout!Stored
    <3> QED
      BY <2>u, <3>2, <3>3
  <2>1. Layout!OnDisk'
    BY <1>11, <2>l DEF Layout!Load, Layout!OnDisk
  <2>2. Layout!Control'
    BY <1>11 DEF Layout!Load, Layout!Save, Layout!Control, Layout!Migrating, Layout!disk
  <2>3. Layout!AllStored'
    BY <2>l
  <2>4. Layout!Moving'
    BY <1>11 DEF Layout!Load, Layout!Save, Layout!Moving, Layout!disk
  <2>5. Layout!BackingUp'
    BY <1>11 DEF Layout!Load, Layout!Save, Layout!BackingUp, Layout!disk
  <2>6. Layout!GoneIsBackedUp'
    BY <1>11 DEF Layout!Load, Layout!Save, Layout!GoneIsBackedUp, Layout!OnDisk, Layout!disk
  <2>7. Layout!RecordsKept'
    BY <2>l
  <2> QED
    BY <2>1, <2>2, <2>3, <2>4, <2>5, <2>6, <2>7
<1>12. ASSUME NEW d \in Layout!Domains, Layout!Edit(d) PROVE Layout!Inv'
  <2> DEFINE list == [Layout!List EXCEPT ![d].mark = s15 + 1]
  <2>l. /\ s3' \in Layout!Registries /\ s5' \in [Layout!Domains -> Layout!Records \cup {Layout!None}]
        /\ Layout!AllStored' /\ Layout!RecordsKept'
    <3>1. UNCHANGED <<s1, s9>> /\ Layout!Save(list)
      BY <1>12 DEF Layout!Edit
    <3>2. s15 + 1 \in 0..LayoutEdits
      BY <1>12 DEF Layout!Edit, Layout!Edits, Layout!OnDisk, Layout!MigrationAssumption
    <3>3. DOMAIN list = DOMAIN Layout!List /\ \A e \in DOMAIN list : list[e] \in Layout!Records
      BY <3>2, LayoutList DEF Layout!Records
    <3> QED
      BY <3>1, <3>3, LayoutSave
  <2>1. Layout!OnDisk'
    BY <1>12, <2>l DEF Layout!Edit, Layout!Edits, Layout!OnDisk, Layout!MigrationAssumption
  <2>2. Layout!Control'
    BY <1>12 DEF Layout!Edit, Layout!Edits, Layout!Save, Layout!Control, Layout!Migrating, Layout!disk
  <2>3. Layout!AllStored'
    BY <2>l
  <2>4. Layout!Moving'
    BY <1>12 DEF Layout!Edit, Layout!Edits, Layout!Save, Layout!Moving, Layout!disk
  <2>5. Layout!BackingUp'
    BY <1>12 DEF Layout!Edit, Layout!Edits, Layout!Save, Layout!BackingUp, Layout!disk
  <2>6. Layout!GoneIsBackedUp'
    BY <1>12 DEF Layout!Edit, Layout!Edits, Layout!Save, Layout!GoneIsBackedUp, Layout!OnDisk, Layout!disk
  <2>7. Layout!RecordsKept'
    BY <2>l
  <2> QED
    BY <2>1, <2>2, <2>3, <2>4, <2>5, <2>6, <2>7
<1>13. ASSUME NEW d \in Layout!Domains, Layout!Logged(d) PROVE Layout!Inv'
  <2>1. Layout!OnDisk'
    BY <1>13 DEF Layout!Logged, Layout!Edits, Layout!OnDisk, Layout!MigrationAssumption
  <2>2. Layout!Control'
    BY <1>13 DEF Layout!Logged, Layout!Edits, Layout!Control, Layout!Migrating, Layout!disk
  <2>3. Layout!AllStored'
    BY <1>13 DEF Layout!Logged, Layout!Edits, Layout!AllStored, Layout!Stored, Layout!disk
  <2>4. Layout!Moving'
    BY <1>13 DEF Layout!Logged, Layout!Edits, Layout!Moving, Layout!disk
  <2>5. Layout!BackingUp'
    BY <1>13 DEF Layout!Logged, Layout!Edits, Layout!BackingUp, Layout!disk
  <2>6. Layout!GoneIsBackedUp'
    BY <1>13 DEF Layout!Logged, Layout!Edits, Layout!GoneIsBackedUp, Layout!OnDisk, Layout!disk
  <2>7. Layout!RecordsKept'
    BY <1>13 DEF Layout!Logged, Layout!Edits, Layout!RecordsKept, Layout!Stored, Layout!disk
  <2> QED
    BY <2>1, <2>2, <2>3, <2>4, <2>5, <2>6, <2>7
<1>14. CASE Layout!Throws
  BY <1>14 DEF Layout!OnDisk, Layout!Control, Layout!AllStored, Layout!Moving, Layout!BackingUp, Layout!GoneIsBackedUp, Layout!RecordsKept, Layout!Stored, Layout!disk, Layout!Migrating, Layout!Throws
<1>15. CASE Layout!Crash
  BY <1>15 DEF Layout!OnDisk, Layout!Control, Layout!AllStored, Layout!Moving, Layout!BackingUp, Layout!GoneIsBackedUp, Layout!RecordsKept, Layout!Stored, Layout!disk, Layout!Migrating, Layout!Crash
<1>16. CASE Layout!Quit
  BY <1>16 DEF Layout!OnDisk, Layout!Control, Layout!AllStored, Layout!Moving, Layout!BackingUp, Layout!GoneIsBackedUp, Layout!RecordsKept, Layout!Stored, Layout!disk, Layout!Migrating, Layout!Quit
<1>17. CASE UNCHANGED Layout!vars
  BY <1>17 DEF Layout!OnDisk, Layout!Control, Layout!AllStored, Layout!Moving, Layout!BackingUp, Layout!GoneIsBackedUp, Layout!RecordsKept, Layout!Stored, Layout!disk, Layout!Migrating, Layout!vars
<1> QED
  BY <1>1, <1>2, <1>3, <1>4, <1>5, <1>6, <1>7, <1>8, <1>9, <1>10, <1>11, <1>12, <1>13, <1>14, <1>15, <1>16, <1>17 DEF Layout!Next, Layout!Migration

(* What the run checks of the migration of the files follows from the invariant. *)
LEMMA LayoutSays ==
  Layout!MigrationAssumption /\ Layout!Inv => Layout!TypeOK /\ Layout!GoneIsBackedUp /\ Layout!RecordsKept
<1> SUFFICES ASSUME Layout!MigrationAssumption, Layout!Inv
    PROVE Layout!TypeOK /\ Layout!GoneIsBackedUp /\ Layout!RecordsKept
  OBVIOUS
<1>1. ASSUME NEW r \in Layout!Registries
      PROVE  DOMAIN r \subseteq Layout!Domains /\ \A d \in DOMAIN r : r[d] \in Layout!Records
  BY Registry
<1> QED
  BY <1>1 DEF Layout!Inv, Layout!OnDisk, Layout!Control, Layout!TypeOK, Layout!Paths

-----------------------------------------------------------------------------
(* What became of a section that is optional.                              *)
LEMMA Section ==
  /\ UNION {} = {} /\ {} \in Pages!Sections
  /\ \A t \in SUBSET Links : UNION {t} = t /\ {t} \in Pages!Sections
  /\ \A s \in Pages!Sections : UNION s \in SUBSET Links
<1>1. UNION {} = {} /\ {} \in Pages!Sections
  BY DEF Pages!Sections
<1>2. ASSUME NEW t \in SUBSET Links PROVE UNION {t} = t /\ {t} \in Pages!Sections
  BY DEF Pages!Sections
<1>3. ASSUME NEW s \in Pages!Sections PROVE UNION s \in SUBSET Links
  <2>1. CASE s = {}
    BY <1>1, <2>1
  <2>2. CASE s # {}
    <3>1. PICK t \in SUBSET Links : s = {t}
      BY <2>2 DEF Pages!Sections
    <3> QED
      BY <1>2, <3>1
  <2> QED
    BY <2>1, <2>2
<1> QED
  BY <1>1, <1>2, <1>3

(* The fields of a page, and when two pages are the same.                  *)
SameFields(p, q) ==
  /\ p.front = q.front /\ p.key = q.key /\ p.outgoing = q.outgoing
  /\ p.legacy = q.legacy /\ p.typed = q.typed /\ p.described = q.described

LEMMA PageEqual ==
  ASSUME NEW p \in Pages!Shape, NEW q \in Pages!Shape, SameFields(p, q),
         p.old = q.old, p.history = q.history, p.related = q.related
  PROVE  p = q
BY DEF Pages!Shape, SameFields

LEMMA PageWithLinks ==
  ASSUME NEW p \in Pages!Shape, NEW links \in SUBSET Links
  PROVE  LET q == Pages!WithLinks(p, links) IN
         /\ q \in Pages!Shape /\ SameFields(q, p) /\ q.old = p.old /\ q.history = p.history
         /\ UNION q.related = (UNION p.related) \cup links
         /\ links = {} => q = p
<1>1. (UNION p.related) \cup links \in SUBSET Links
  <2>1. p.related \in Pages!Sections
    BY DEF Pages!Shape
  <2>2. UNION p.related \in SUBSET Links
    BY <2>1, Section
  <2> QED
    BY <2>2
<1>2. {(UNION p.related) \cup links} \in Pages!Sections
      /\ UNION {(UNION p.related) \cup links} = (UNION p.related) \cup links
  BY <1>1, Section
<1> QED
  BY <1>2 DEF Pages!WithLinks, Pages!Shape, SameFields

(* The old sections go, the links outside the change history stay, and there *)
(* is nothing left to do.                                                    *)
LEMMA PageDrop ==
  ASSUME NEW p \in Pages!Shape
  PROVE  LET q == Pages!DropSections(p) IN
         /\ q \in Pages!Shape /\ SameFields(q, p) /\ Pages!Body(q) = Pages!Body(p)
         /\ q.old = {} /\ q.history = {} /\ Pages!DropSections(q) = q
<1> DEFINE w == Pages!WithLinks(p, UNION p.old)
           q == Pages!DropSections(p)
<1>1. UNION p.old \in SUBSET Links
  BY Section DEF Pages!Shape
<1>2. /\ w \in Pages!Shape /\ SameFields(w, p)
      /\ UNION w.related = (UNION p.related) \cup (UNION p.old)
  BY <1>1, PageWithLinks
<1>3. q = [w EXCEPT !.old = {}, !.history = {}]
  BY DEF Pages!DropSections
<1> HIDE DEF w, q
<1>4. q \in Pages!Shape /\ SameFields(q, w) /\ q.related = w.related /\ q.old = {} /\ q.history = {}
  BY <1>2, <1>3, Section DEF Pages!Shape, SameFields
<1>5. SameFields(q, p)
  BY <1>2, <1>4 DEF SameFields
<1>6. Pages!Body(q) = Pages!Body(p)
  <2>1. UNION q.old = {} /\ UNION q.related = (UNION p.related) \cup (UNION p.old) /\ q.outgoing = p.outgoing
    BY <1>2, <1>4, <1>5, Section DEF SameFields
  <2> QED
    BY <2>1 DEF Pages!Body
<1>7. Pages!DropSections(q) = q
  <2>1. Pages!WithLinks(q, UNION q.old) = q
    BY <1>4, Section DEF Pages!WithLinks
  <2>2. Pages!DropSections(q) = [q EXCEPT !.old = {}, !.history = {}]
    BY <2>1 DEF Pages!DropSections
  <2> QED
    BY <1>4, <2>2, Section, PageEqual DEF Pages!Shape, SameFields
<1> QED
  BY <1>4, <1>5, <1>6, <1>7 DEF q

(* The fields have their final form, and there is nothing left to do.      *)
LEMMA PageOkf ==
  ASSUME NEW p \in Pages!Shape, Pages!Possible(p)
  PROVE  LET q == Pages!Okf(p) IN
         /\ q \in Pages!Shape /\ Pages!Possible(q) /\ q.old = p.old /\ q.history = p.history
         /\ q.front = p.front /\ Pages!Body(q) = Pages!Body(p)
         /\ p.front = "yaml" => ~q.legacy /\ q.key # "list" /\ q.typed /\ q.described
         /\ Pages!Okf(q) = q
<1>1. CASE p.front # "yaml"
  BY <1>1 DEF Pages!Okf
<1>2. CASE p.front = "yaml"
  <2> DEFINE r == Pages!Relocate(p)
             w == Pages!WithLinks(p, p.outgoing)
             q == Pages!Okf(p)
  <2>1. /\ w \in Pages!Shape /\ SameFields(w, p) /\ w.old = p.old /\ w.history = p.history
        /\ UNION w.related = (UNION p.related) \cup p.outgoing
    BY PageWithLinks DEF Pages!Shape
  <2>2. IF p.key = "list" THEN r = [w EXCEPT !.key = "absent", !.outgoing = {}] ELSE r = p
    BY DEF Pages!Relocate
  <2>3. q = [r EXCEPT !.legacy = FALSE, !.typed = TRUE, !.described = TRUE]
    BY <1>2 DEF Pages!Okf
  <2> HIDE DEF r, w, q
  <2>4. /\ r \in Pages!Shape /\ r.old = p.old /\ r.history = p.history /\ r.front = p.front
        /\ r.key # "list" /\ r.outgoing = {}
        /\ (UNION r.old) \cup (UNION r.related) \cup r.outgoing = (UNION p.old) \cup (UNION p.related) \cup p.outgoing
    <3>1. CASE p.key = "list"
      BY <2>1, <2>2, <3>1 DEF Pages!Shape, SameFields
    <3>2. CASE p.key # "list"
      BY <2>2, <3>2 DEF Pages!Possible
    <3> QED
      BY <3>1, <3>2
  <2>5. /\ q \in Pages!Shape /\ q.old = r.old /\ q.history = r.history /\ q.front = r.front
        /\ q.related = r.related /\ q.outgoing = r.outgoing /\ q.key = r.key
        /\ q.legacy = FALSE /\ q.typed = TRUE /\ q.described = TRUE
    BY <2>3, <2>4 DEF Pages!Shape
  <2>6. Pages!Body(q) = Pages!Body(p)
    BY <2>4, <2>5 DEF Pages!Body
  <2>7. Pages!Okf(q) = q
    <3>1. Pages!Relocate(q) = q
      BY <2>4, <2>5 DEF Pages!Relocate
    <3>2. Pages!Okf(q) = [q EXCEPT !.legacy = FALSE, !.typed = TRUE, !.described = TRUE]
      BY <1>2, <2>4, <2>5, <3>1 DEF Pages!Okf
    <3> QED
      BY <2>5, <3>2, PageEqual DEF Pages!Shape, SameFields
  <2> QED
    BY <1>2, <2>4, <2>5, <2>6, <2>7 DEF Pages!Possible, q
<1> QED
  BY <1>1, <1>2

(* A visit by either migration: a page that can be, with its edges outside the   *)
(* change history, and what the other migration has done stays done.             *)
LEMMA PageMigrated ==
  ASSUME NEW m \in {"drop", "okf"}, NEW p \in Pages!Shape, Pages!Possible(p)
  PROVE  LET q == Pages!Migrated(m, p) IN
         /\ q \in Pages!Shape /\ Pages!Possible(q)
         /\ Pages!Body(q) = Pages!Body(p) /\ q.history \in {{}, p.history}
         /\ q.front = p.front /\ Pages!Migrated(m, q) = q
         /\ (m = "drop" \/ (p.old = {} /\ p.history = {})) => q.old = {} /\ q.history = {}
         /\ m = "okf" /\ q.front = "yaml" => ~q.legacy /\ q.key # "list" /\ q.typed /\ q.described
         /\ m = "drop" => SameFields(q, p)
<1>1. CASE m = "drop"
  BY <1>1, PageDrop DEF Pages!Migrated, Pages!Possible, SameFields
<1>2. CASE m = "okf"
  BY <1>2, PageOkf DEF Pages!Migrated
<1> QED
  BY <1>1, <1>2

LEMMA PagesInit == Pages!PageAssumption /\ Pages!Init => Pages!Inv
<1> SUFFICES ASSUME Pages!PageAssumption, Pages!Init PROVE Pages!Inv
  OBVIOUS
<1>1. s1 \in [Pages!Pages -> Pages!Shape] /\ \A p \in Pages!Pages : Pages!Possible(s1[p])
  <2>1. \A p \in Pages!FewShapes : p \in Pages!Shape /\ Pages!Possible(p)
    BY DEF Pages!FewShapes, Pages!Possible
  <2> QED
    BY <2>1 DEF Pages!Init
<1>2. Pages!TypeOK
  BY <1>1 DEF Pages!Init, Pages!TypeOK
<1>3. \A p \in Pages!Pages : Pages!SameEdges(s1[p], s8[p])
  BY DEF Pages!Init, Pages!SameEdges
<1> QED
  BY <1>1, <1>2, <1>3 DEF Pages!Init, Pages!Inv, Pages!Visited

LEMMA PagesStep == Pages!PageAssumption /\ Pages!Inv /\ [Pages!Next]_(Pages!vars) => Pages!Inv'
<1> SUFFICES ASSUME Pages!PageAssumption, Pages!Inv, [Pages!Next]_(Pages!vars) PROVE Pages!Inv'
  OBVIOUS
<1> USE DEF Pages!Inv, Pages!TypeOK
<1>1. CASE Pages!Launch
  BY <1>1 DEF Pages!Launch, Pages!Start, Pages!SameEdges, Pages!Visited, Pages!Dropped, Pages!InForm
<1>2. CASE Pages!Second
  BY <1>2 DEF Pages!Second, Pages!Start, Pages!SameEdges, Pages!Visited, Pages!Dropped, Pages!InForm
<1>3. ASSUME NEW p \in Pages!Pages, Pages!Visit(p) \/ Pages!VisitFails(p) PROVE Pages!Inv'
  <2> DEFINE q == Pages!Migrated(s3, s1[p])
  <2>1. /\ s3 \in {"drop", "okf"} /\ s1[p] \in Pages!Shape /\ Pages!Possible(s1[p])
        /\ s4' = s4 \ {p} /\ UNCHANGED <<s2, s3, s8>>
        /\ s1' = s1 \/ s1' = [s1 EXCEPT ![p] = q]
        /\ (s1' = [s1 EXCEPT ![p] = q] /\ s7' = s7) \/ s7' = s7 \cup {p}
    BY <1>3 DEF Pages!Visit, Pages!VisitFails
  <2>2. /\ q \in Pages!Shape /\ Pages!Possible(q)
        /\ Pages!Body(q) = Pages!Body(s1[p]) /\ q.history \in {{}, s1[p].history}
        /\ q.front = s1[p].front
        /\ (s3 = "drop" \/ (s1[p].old = {} /\ s1[p].history = {})) => q.old = {} /\ q.history = {}
        /\ s3 = "okf" /\ q.front = "yaml" => ~q.legacy /\ q.key # "list" /\ q.typed /\ q.described
        /\ s3 = "drop" => SameFields(q, s1[p])
    BY <2>1, PageMigrated
  <2> HIDE DEF q
  <2>3. Pages!TypeOK' /\ s7' \subseteq Pages!Pages
    BY <2>1, <2>2
  <2>4. \A e \in Pages!Pages : Pages!Possible(s1'[e]) /\ Pages!SameEdges(s1'[e], s8'[e])
    BY <2>1, <2>2 DEF Pages!SameEdges
  <2>5. ASSUME NEW e \in Pages!Pages \ s7', Pages!Visited("drop", e)' PROVE Pages!Dropped(e)'
    BY <2>1, <2>2, <2>5 DEF Pages!Visited, Pages!Dropped
  <2>6. ASSUME NEW e \in Pages!Pages \ s7', Pages!Visited("okf", e)' PROVE Pages!InForm(e)'
    BY <2>1, <2>2, <2>6 DEF Pages!Visited, Pages!InForm, SameFields
  <2> QED
    BY <2>1, <2>3, <2>4, <2>5, <2>6
<1>4. CASE Pages!Flag
  BY <1>4 DEF Pages!Flag, Pages!SameEdges, Pages!Visited, Pages!Dropped, Pages!InForm
<1>5. CASE Pages!Quit
  BY <1>5 DEF Pages!Quit, Pages!SameEdges, Pages!Visited, Pages!Dropped, Pages!InForm
<1>6. CASE Pages!Crash
  BY <1>6 DEF Pages!Crash, Pages!SameEdges, Pages!Visited, Pages!Dropped, Pages!InForm
<1>7. CASE UNCHANGED Pages!vars
  BY <1>7 DEF Pages!vars, Pages!SameEdges, Pages!Visited, Pages!Dropped, Pages!InForm
<1> QED
  BY <1>1, <1>2, <1>3, <1>4, <1>5, <1>6, <1>7 DEF Pages!Next, Pages!Loading

(* What the run checks of the pages follows from the invariant.            *)
LEMMA PagesSays ==
  Pages!Inv => Pages!TypeOK /\ Pages!EdgesKept /\ Pages!OnceIsEnough /\ Pages!FlaggedIsFinal
<1> SUFFICES ASSUME Pages!Inv
    PROVE Pages!TypeOK /\ Pages!EdgesKept /\ Pages!OnceIsEnough /\ Pages!FlaggedIsFinal
  OBVIOUS
<1>1. \A p \in Pages!Pages : s1[p] \in Pages!Shape /\ Pages!Possible(s1[p])
  BY DEF Pages!Inv, Pages!TypeOK
<1>2. Pages!OnceIsEnough
  BY <1>1, PageMigrated DEF Pages!OnceIsEnough
<1>3. Pages!FlaggedIsFinal
  BY DEF Pages!FlaggedIsFinal, Pages!Inv, Pages!Visited, Pages!Dropped, Pages!InForm, Pages!Final
<1>4. Pages!EdgesKept
  BY DEF Pages!EdgesKept, Pages!Inv, Pages!SameEdges, Pages!Edges
<1> QED
  BY <1>2, <1>3, <1>4 DEF Pages!Inv

-----------------------------------------------------------------------------
(* The one call of the registry, and the lists it may hold.                *)
Call == s4["caller"]

LEMMA StoreFacts ==
  ASSUME Store!StoreAssumption
  PROVE  /\ 1 \in Store!Domains /\ \A d \in Store!Domains : d \in Nat
         /\ Store!NoLegacy \in Store!Lists /\ DOMAIN Store!NoLegacy = {}
         /\ [d \in Store!Domains |-> {0}] \in Store!Lists
         /\ 0 \in Store!Changes
<1>1. {} \in SUBSET Store!Domains /\ Store!Domains \in SUBSET Store!Domains
  OBVIOUS
<1>2. 0 \in Store!Changes /\ 1 \in Store!Domains /\ \A d \in Store!Domains : d \in Nat
  BY DEF Store!Changes, Store!StoreAssumption, Store!Domains
<1>3. Store!NoLegacy \in [{} -> SUBSET Store!Changes] /\ DOMAIN Store!NoLegacy = {}
  BY DEF Store!NoLegacy
<1>4. [d \in Store!Domains |-> {0}] \in [Store!Domains -> SUBSET Store!Changes]
  BY <1>2
<1> QED
  BY <1>1, <1>2, <1>3, <1>4 DEF Store!Lists

LEMMA StoreList ==
  ASSUME NEW list, DOMAIN list \subseteq Store!Domains
  PROVE  list \in Store!Lists <=> list \in [DOMAIN list -> SUBSET Store!Changes]
<1>1. ASSUME list \in Store!Lists PROVE list \in [DOMAIN list -> SUBSET Store!Changes]
  <2>1. PICK s \in SUBSET Store!Domains : list \in [s -> SUBSET Store!Changes]
    BY <1>1 DEF Store!Lists
  <2> QED
    BY <2>1
<1>2. ASSUME list \in [DOMAIN list -> SUBSET Store!Changes] PROVE list \in Store!Lists
  BY <1>2 DEF Store!Lists
<1> QED
  BY <1>1, <1>2

LEMMA StoreListDomain ==
  ASSUME NEW list \in Store!Lists
  PROVE  DOMAIN list \subseteq Store!Domains /\ list \in [DOMAIN list -> SUBSET Store!Changes]
<1>1. PICK s \in SUBSET Store!Domains : list \in [s -> SUBSET Store!Changes]
  BY DEF Store!Lists
<1> QED
  BY <1>1

(* An entry set in a list, and the list without one.                       *)
LEMMA StoreWith ==
  ASSUME NEW list \in Store!Lists, NEW d \in Store!Domains, NEW changes \in SUBSET Store!Changes
  PROVE  LET new == Store!With(list, d, changes) IN
         /\ new \in Store!Lists /\ DOMAIN new = DOMAIN list \cup {d} /\ new[d] = changes
         /\ \A e \in DOMAIN list : e # d => new[e] = list[e]
<1> DEFINE new == Store!With(list, d, changes)
<1>1. DOMAIN list \subseteq Store!Domains /\ list \in [DOMAIN list -> SUBSET Store!Changes]
  BY StoreListDomain
<1>2. /\ DOMAIN new = DOMAIN list \cup {d} /\ new[d] = changes
      /\ \A e \in DOMAIN list : e # d => new[e] = list[e]
      /\ new \in [DOMAIN new -> SUBSET Store!Changes]
  BY <1>1 DEF Store!With
<1>3. DOMAIN new \subseteq Store!Domains
  BY <1>1, <1>2
<1> HIDE DEF new
<1>4. new \in Store!Lists
  BY <1>2, <1>3, StoreList
<1> QED
  BY <1>2, <1>4 DEF new

(* What a file is, and what a call is that starts or ends.                 *)
LEMMA StoreFile ==
  ASSUME NEW f \in Store!Files
  PROVE  /\ f.has \in SUBSET Store!Changes
         /\ f.is = "entry" => f = Store!Entry(f.has)
         /\ f # Store!Absent /\ f # Store!Corrupt => f.is = "entry"
         /\ f = Store!Absent \/ f = Store!Corrupt => f.has = {} /\ f.is # "entry"
<1>1. CASE f = Store!Absent
  BY <1>1 DEF Store!Absent, Store!Corrupt
<1>2. CASE f = Store!Corrupt
  BY <1>2 DEF Store!Absent, Store!Corrupt
<1>3. ASSUME NEW c \in SUBSET Store!Changes, f = Store!Entry(c) PROVE f.has = c /\ f.is = "entry"
  BY <1>3 DEF Store!Entry
<1> QED
  BY <1>1, <1>2, <1>3 DEF Store!Files, Store!Absent, Store!Corrupt

LEMMA StoreEntry ==
  ASSUME NEW c \in SUBSET Store!Changes
  PROVE  /\ Store!Entry(c) \in Store!Files /\ Store!Entry(c).is = "entry" /\ Store!Entry(c).has = c
         /\ Store!Absent \in Store!Files /\ Store!Absent.has = {} /\ Store!Absent.is # "entry"
         /\ Store!Entry(c) # Store!Corrupt /\ Store!Entry(c) # Store!Absent /\ Store!Absent # Store!Corrupt
BY DEF Store!Files, Store!Entry, Store!Absent, Store!Corrupt

LEMMA StoreNoCall ==
  ASSUME Store!StoreAssumption, s5 \in Nat
  PROVE  Store!NoCall \in Store!Calls /\ Store!NoCall.at = "idle" /\ DOMAIN Store!NoCall.list = {}
BY StoreFacts DEF Store!NoCall, Store!Calls, Store!Places

(* The call as it is, and as it is set by a step.                          *)
LEMMA StoreCall ==
  ASSUME Store!CallsOK
  PROVE  /\ Call \in Store!Calls /\ Call.list \in Store!Lists /\ Call.todo \subseteq Store!Domains
         /\ DOMAIN Call.list \subseteq Store!Domains /\ Call.list \in [DOMAIN Call.list -> SUBSET Store!Changes]
         /\ Call.d \in Store!Domains /\ Call.mark \in 0..s5 /\ Call.healed \in BOOLEAN
         /\ \A d \in DOMAIN Call.list : Call.list[d] \subseteq 0..s5
<1>1. Call \in Store!Calls /\ \A d \in DOMAIN Call.list : Call.list[d] \subseteq 0..s5
  BY DEF Store!CallsOK, Call
<1>2. /\ Call.list \in Store!Lists /\ Call.todo \subseteq Store!Domains
      /\ Call.d \in Store!Domains /\ Call.mark \in 0..s5 /\ Call.healed \in BOOLEAN
  BY <1>1 DEF Store!Calls
<1> QED
  BY <1>1, <1>2, StoreListDomain

LEMMA StoreSet ==
  ASSUME Store!CallsOK, NEW r, s4' = [s4 EXCEPT !["caller"] = r], r \in Store!Calls',
         \A d \in DOMAIN r.list : r.list[d] \subseteq 0..(s5')
  PROVE  Store!CallsOK' /\ Call' = r
BY DEF Store!CallsOK, Call

(* A call that is over asks nothing.                                       *)
LEMMA StoreIdle ==
  ASSUME Store!StoreAssumption, s5' \in Nat, Store!CallsOK,
         s4' = [s4 EXCEPT !["caller"] = Store!NoCall] \/ s4' = [c \in {"caller"} |-> Store!NoCall]
  PROVE  /\ Store!CallsOK' /\ Call' = Store!NoCall
         /\ Store!Reading("caller")' /\ Store!Saving("caller")' /\ Store!Deleting("caller")'
<1>1. Store!NoCall \in Store!Calls' /\ Store!NoCall.at = "idle" /\ DOMAIN Store!NoCall.list = {}
  BY StoreFacts DEF Store!NoCall, Store!Calls, Store!Places
<1>2. Store!CallsOK' /\ Call' = Store!NoCall
  BY <1>1 DEF Store!CallsOK, Call
<1> QED
  BY <1>1, <1>2 DEF Store!Reading, Store!Saving, Store!Deleting, Call

LEMMA StoreInit == Store!StoreAssumption /\ Store!Init => Store!Inv
<1> SUFFICES ASSUME Store!StoreAssumption, Store!Init PROVE Store!Inv
  OBVIOUS
<1>1. s5 = 0 /\ s5 \in Store!Changes /\ 0 \in 0..s5 /\ {0} \in SUBSET Store!Changes
  BY StoreFacts DEF Store!Init, Store!Changes
<1>2. /\ s1 \in [Store!Domains -> Store!Files] /\ s2 \in [Store!Domains -> Store!Files]
      /\ \A d \in Store!Domains : s1[d].has \subseteq {0} /\ s2[d].has \subseteq {0}
  BY <1>1, StoreEntry DEF Store!Init, Store!Files, Store!Corrupt, Store!Absent
<1>3. s7 \in [Store!Domains -> SUBSET Store!Changes] /\ Store!NothingLost
  BY <1>1, <1>2 DEF Store!Init, Store!NothingLost
<1>4. Store!FilesOK
  BY <1>1, <1>2, <1>3 DEF Store!FilesOK, Store!Init
<1>5. Call = Store!NoCall /\ Store!NoCall \in Store!Calls /\ Store!NoCall.at = "idle" /\ DOMAIN Store!NoCall.list = {}
  BY <1>1, StoreNoCall DEF Store!Init, Call
<1>6. Store!CallsOK
  BY <1>5 DEF Store!CallsOK, Store!Init
<1>7. \A c \in {"caller"} : Store!Reading(c) /\ Store!Saving(c) /\ Store!Deleting(c)
  BY <1>5 DEF Store!Reading, Store!Saving, Store!Deleting, Call
<1> QED
  BY <1>3, <1>4, <1>6, <1>7 DEF Store!Inv

(* A step of the call that is not its end: what it leaves is said of its new record. *)
LEMMA StoreGoes ==
  ASSUME NEW r, Store!Goes("caller", r)
  PROVE  s4' = [s4 EXCEPT !["caller"] = r] /\ UNCHANGED <<s5, s6, s7, s8, s9, s10>>
BY DEF Store!Goes, Store!Step

LEMMA StoreBegin ==
  ASSUME Store!StoreAssumption, Store!Inv, NEW d \in Store!Domains,
         NEW op \in {"look", "register", "update", "delete"}, Store!Begin("caller", op, d)
  PROVE  Store!Inv'
<1> DEFINE r == [Store!NoCall EXCEPT !.at = "load", !.op = op, !.d = d, !.mark = s5 + 1, !.todo = Store!Domains]
<1>1. s5 \in Nat /\ s5' = s5 + 1 /\ s5' \in Store!Changes /\ 0..s5 \subseteq 0..(s5')
  BY DEF Store!Begin, Store!Inv, Store!FilesOK, Store!Changes, Store!StoreAssumption
<1>2. /\ r \in Store!Calls' /\ DOMAIN r.list = {} /\ r.at = "load" /\ r.op = op /\ r.d = d
      /\ r.todo = Store!Domains
  <2>1. Store!NoCall \in Store!Calls' /\ DOMAIN Store!NoCall.list = {}
    BY <1>1, StoreFacts DEF Store!NoCall, Store!Calls, Store!Places
  <2>2. s5 + 1 \in 0..(s5')
    BY <1>1
  <2> QED
    BY <2>1, <2>2 DEF Store!Calls, Store!Places
<1>3. s4' = [s4 EXCEPT !["caller"] = r]
  BY DEF Store!Begin
<1> HIDE DEF r
<1>4. Store!CallsOK' /\ Call' = r
  BY <1>2, <1>3, StoreSet DEF Store!Inv
<1>5. /\ s7' \in [Store!Domains -> SUBSET Store!Changes] /\ s8' \subseteq Store!Domains /\ s9' \subseteq s8'
      /\ \A e \in Store!Domains : s7'[e] = s7[e] \/ s7'[e] = {}
      /\ op = "delete" => s7'[d] = {} /\ d \in s8'
  BY DEF Store!Begin, Store!Inv, Store!FilesOK
<1>6. Store!FilesOK'
  BY <1>1, <1>5 DEF Store!Begin, Store!Inv, Store!FilesOK
<1>7. Store!NothingLost'
  BY <1>5 DEF Store!Begin, Store!Inv, Store!NothingLost
<1>8. Store!Reading("caller")' /\ Store!Saving("caller")' /\ Store!Deleting("caller")'
  BY <1>2, <1>4, <1>5 DEF Store!Reading, Store!Saving, Store!Deleting, Call
<1> QED
  BY <1>4, <1>6, <1>7, <1>8 DEF Store!Inv

(* A folder is read: its metadata, or what an interrupted write left beside it. *)
LEMMA StoreLoad ==
  ASSUME Store!StoreAssumption, Store!Inv, Store!Load("caller")
  PROVE  Store!Inv'
<1>1. PICK d \in Store!Domains :
        /\ Store!InTurn("caller", d)
        /\ \/ s1[d] = Store!Absent /\ Store!Promote("caller", d, Call.todo \ {d})
           \/ s1[d] = Store!Corrupt /\ Store!Fail("caller") /\ UNCHANGED s1
           \/ /\ s1[d].is = "entry" /\ UNCHANGED s1
              /\ Store!Goes("caller", [Call EXCEPT !.todo = @ \ {d}, !.list = Store!With(@, d, s1[d].has)])
  BY DEF Store!Load, Call
<1>2. /\ Call.at = "load" /\ d \in Call.todo /\ \A e \in Call.todo : d <= e
      /\ s2' = s2 /\ s3' = s3 /\ d \in Nat
      /\ \A e \in Store!Domains \ Call.todo : Store!Agrees("caller", e)
      /\ DOMAIN Call.list \cap Call.todo = {}
      /\ Call.op = "delete" => s7[Call.d] = {} /\ Call.d \in s8
  BY <1>1, StoreFacts DEF Store!Load, Store!InTurn, Store!Inv, Store!Reading, Store!Deleting, Call
<1>3. /\ Call \in Store!Calls /\ Call.list \in Store!Lists /\ Call.todo \subseteq Store!Domains
      /\ s1[d] \in Store!Files /\ s2[d] \in Store!Files /\ s1 \in [Store!Domains -> Store!Files]
      /\ \A e \in DOMAIN Call.list : Call.list[e] \subseteq 0..s5
      /\ s1[d].has \subseteq 0..s5 /\ s2[d].has \subseteq 0..s5 /\ s5 \in Nat
  BY StoreCall DEF Store!Inv, Store!FilesOK, Store!Changes
<1>4. CASE s1[d] = Store!Absent /\ s2[d].is = "entry" /\ s1' = [s1 EXCEPT ![d] = s2[d]]
           /\ Store!Goes("caller", [Call EXCEPT !.at = "untmp", !.healed = TRUE, !.list = Store!With(@, d, s2[d].has)])
  <2> DEFINE new == Store!With(Call.list, d, s2[d].has)
             r == [Call EXCEPT !.at = "untmp", !.healed = TRUE, !.list = new]
  <2>0. s2[d].has \in SUBSET Store!Changes
    BY <1>3, StoreFile
  <2>1. /\ new \in Store!Lists /\ DOMAIN new = DOMAIN Call.list \cup {d} /\ new[d] = s2[d].has
        /\ \A e \in DOMAIN Call.list : e # d => new[e] = Call.list[e]
    BY <1>3, <2>0, StoreWith
  <2>2. s4' = [s4 EXCEPT !["caller"] = r] /\ UNCHANGED <<s5, s6, s7, s8, s9, s10>>
    BY <1>4, StoreGoes
  <2> HIDE DEF new
  <2>3. /\ r \in Store!Calls /\ r.at = "untmp" /\ r.list = new /\ r.todo = Call.todo /\ r.op = Call.op /\ r.d = Call.d
        /\ r \in Store!Calls'
    BY <1>3, <2>1, <2>2 DEF Store!Calls, Store!Places
  <2> HIDE DEF r
  <2>4. Store!CallsOK' /\ Call' = r
    BY <1>3, <2>1, <2>2, <2>3, StoreSet DEF Store!Inv
  <2>5. s1[d].has = {} /\ s2[d] = Store!Entry(s2[d].has) /\ s2[d] # Store!Corrupt
    BY <1>3, <1>4, StoreFile
  <2>6. Store!FilesOK' /\ Store!NothingLost'
    <3>1. s3 = Store!NoLegacy
      BY <1>4, StoreEntry DEF Store!Inv, Store!FilesOK
    <3> QED
      BY <1>2, <1>3, <1>4, <2>2, <2>5, <3>1 DEF Store!Inv, Store!FilesOK, Store!NothingLost
  <2>7. ASSUME NEW e \in Store!Domains \ Call.todo PROVE Store!Agrees("caller", e)'
    BY <1>2, <1>4, <2>1, <2>2, <2>3, <2>4 DEF Store!Agrees, Store!LeftOut, Call
  <2>8. Store!Agrees("caller", d)' /\ s2'[d].is = "entry" /\ d \in DOMAIN (Call.list)'
    BY <1>2, <1>3, <1>4, <2>1, <2>2, <2>3, <2>4, <2>5 DEF Store!Agrees, Store!LeftOut, Call
  <2>9. ASSUME NEW e \in Store!Domains, Store!InTurn("caller", e)' PROVE e = d
    BY <1>2, <2>3, <2>4, <2>9, StoreFacts DEF Store!InTurn, Call
  <2>10. ASSUME NEW e \in DOMAIN new \cap Call.todo PROVE Store!InTurn("caller", e)'
    BY <1>2, <2>1, <2>3, <2>4 DEF Store!InTurn, Call
  <2>11. Store!Reading("caller")'
    BY <2>3, <2>4, <2>7, <2>8, <2>9, <2>10 DEF Store!Reading, Call
  <2>12. Store!Saving("caller")' /\ Store!Deleting("caller")'
    BY <1>2, <2>2, <2>3, <2>4 DEF Store!Saving, Store!Deleting, Call
  <2> QED
    BY <2>4, <2>6, <2>11, <2>12 DEF Store!Inv
<1>5. CASE s1[d] = Store!Absent /\ UNCHANGED s1 /\ Store!Goes("caller", [Call EXCEPT !.todo = Call.todo \ {d}])
  <2> DEFINE r == [Call EXCEPT !.todo = Call.todo \ {d}]
  <2>2. s4' = [s4 EXCEPT !["caller"] = r] /\ UNCHANGED <<s5, s6, s7, s8, s9, s10>>
    BY <1>5, StoreGoes
  <2>3. /\ r \in Store!Calls' /\ r.at = "load" /\ r.list = Call.list /\ r.todo = Call.todo \ {d} /\ r.op = Call.op /\ r.d = Call.d
    BY <1>2, <1>3, <2>2 DEF Store!Calls, Store!Places
  <2> HIDE DEF r
  <2>4. Store!CallsOK' /\ Call' = r
    BY <1>3, <2>2, <2>3, StoreSet DEF Store!Inv
  <2>6. Store!FilesOK' /\ Store!NothingLost'
    BY <1>2, <1>5, <2>2 DEF Store!Inv, Store!FilesOK, Store!NothingLost
  <2>7. ASSUME NEW e \in Store!Domains \ (Call.todo \ {d}) PROVE Store!Agrees("caller", e)'
    BY <1>2, <1>3, <1>5, <2>2, <2>3, <2>4, StoreFile, StoreEntry DEF Store!Agrees, Store!LeftOut, Call
  <2>11. Store!Reading("caller")'
    BY <1>2, <2>3, <2>4, <2>7 DEF Store!Reading, Call
  <2>12. Store!Saving("caller")' /\ Store!Deleting("caller")'
    BY <1>2, <2>2, <2>3, <2>4 DEF Store!Saving, Store!Deleting, Call
  <2> QED
    BY <2>4, <2>6, <2>11, <2>12 DEF Store!Inv
<1>6. CASE Store!Fail("caller") /\ UNCHANGED s1
  <2>1. s4' = [s4 EXCEPT !["caller"] = Store!NoCall] /\ UNCHANGED <<s5, s6, s7, s8, s9, s10>>
    BY <1>6, StoreGoes DEF Store!Fail
  <2>2. Store!FilesOK' /\ Store!NothingLost'
    BY <1>2, <1>6, <2>1 DEF Store!Inv, Store!FilesOK, Store!NothingLost
  <2> QED
    BY <1>3, <2>1, <2>2, StoreIdle DEF Store!Inv
<1>7. CASE s1[d].is = "entry" /\ UNCHANGED s1
           /\ Store!Goes("caller", [Call EXCEPT !.todo = @ \ {d}, !.list = Store!With(@, d, s1[d].has)])
  <2> DEFINE new == Store!With(Call.list, d, s1[d].has)
             r == [Call EXCEPT !.todo = @ \ {d}, !.list = new]
  <2>0. s1[d].has \in SUBSET Store!Changes
    BY <1>3, StoreFile
  <2>1. /\ new \in Store!Lists /\ DOMAIN new = DOMAIN Call.list \cup {d} /\ new[d] = s1[d].has
        /\ \A e \in DOMAIN Call.list : e # d => new[e] = Call.list[e]
    BY <1>3, <2>0, StoreWith
  <2>2. s4' = [s4 EXCEPT !["caller"] = r] /\ UNCHANGED <<s5, s6, s7, s8, s9, s10>>
    BY <1>7, StoreGoes
  <2> HIDE DEF new
  <2>3. /\ r \in Store!Calls' /\ r.at = "load" /\ r.list = new /\ r.todo = Call.todo \ {d} /\ r.op = Call.op /\ r.d = Call.d
    BY <1>2, <1>3, <2>1, <2>2 DEF Store!Calls, Store!Places
  <2> HIDE DEF r
  <2>4. Store!CallsOK' /\ Call' = r
    BY <1>3, <2>1, <2>2, <2>3, StoreSet DEF Store!Inv
  <2>5. s1[d] = Store!Entry(s1[d].has) /\ s1[d] # Store!Corrupt
    BY <1>3, <1>7, StoreFile
  <2>6. Store!FilesOK' /\ Store!NothingLost'
    BY <1>2, <1>7, <2>2 DEF Store!Inv, Store!FilesOK, Store!NothingLost
  <2>7. ASSUME NEW e \in Store!Domains \ Call.todo, e # d PROVE Store!Agrees("caller", e)'
    BY <1>2, <1>7, <2>1, <2>2, <2>3, <2>4, <2>7 DEF Store!Agrees, Store!LeftOut, Call
  <2>8. Store!Agrees("caller", d)'
    BY <1>2, <1>7, <2>1, <2>2, <2>3, <2>4, <2>5 DEF Store!Agrees, Store!LeftOut, Call
  <2>11. Store!Reading("caller")'
    BY <1>2, <2>1, <2>3, <2>4, <2>7, <2>8 DEF Store!Reading, Call
  <2>12. Store!Saving("caller")' /\ Store!Deleting("caller")'
    BY <1>2, <2>2, <2>3, <2>4 DEF Store!Saving, Store!Deleting, Call
  <2> QED
    BY <2>4, <2>6, <2>11, <2>12 DEF Store!Inv
<1>8. CASE s1[d] = Store!Absent /\ s2[d].is = "entry" /\ s1' = [s1 EXCEPT ![d] = s2[d]]
           /\ Store!Goes("caller", [Call EXCEPT !.todo = Call.todo \ {d}])
  <2> DEFINE r == [Call EXCEPT !.todo = Call.todo \ {d}]
  <2>2. s4' = [s4 EXCEPT !["caller"] = r] /\ UNCHANGED <<s5, s6, s7, s8, s9, s10>>
    BY <1>8, StoreGoes
  <2>3. /\ r \in Store!Calls' /\ r.at = "load" /\ r.list = Call.list /\ r.todo = Call.todo \ {d} /\ r.op = Call.op /\ r.d = Call.d
    BY <1>2, <1>3, <2>2 DEF Store!Calls, Store!Places
  <2> HIDE DEF r
  <2>4. Store!CallsOK' /\ Call' = r
    BY <1>3, <2>2, <2>3, StoreSet DEF Store!Inv
  <2>5. /\ s1[d].has = {} /\ s2[d] # Store!Corrupt /\ s7[d] = {} /\ s3 = Store!NoLegacy
    BY <1>3, <1>8, StoreFile, StoreEntry DEF Store!Inv, Store!FilesOK, Store!NothingLost
  <2>6. Store!FilesOK' /\ Store!NothingLost'
    BY <1>2, <1>3, <1>8, <2>2, <2>5 DEF Store!Inv, Store!FilesOK, Store!NothingLost
  <2>7. ASSUME NEW e \in Store!Domains \ Call.todo, e # d PROVE Store!Agrees("caller", e)'
    BY <1>2, <1>8, <2>2, <2>3, <2>4, <2>7 DEF Store!Agrees, Store!LeftOut, Call
  <2>8. Store!Agrees("caller", d)'
    BY <1>2, <1>3, <1>8, <2>2, <2>3, <2>4, <2>5 DEF Store!Agrees, Store!LeftOut, Call
  <2>11. Store!Reading("caller")'
    BY <1>2, <2>3, <2>4, <2>7, <2>8 DEF Store!Reading, Call
  <2>12. Store!Saving("caller")' /\ Store!Deleting("caller")'
    BY <1>2, <2>2, <2>3, <2>4 DEF Store!Saving, Store!Deleting, Call
  <2> QED
    BY <2>4, <2>6, <2>11, <2>12 DEF Store!Inv
<1> QED
  BY <1>1, <1>4, <1>5, <1>6, <1>7, <1>8 DEF Store!Promote, Call

LEMMA StoreRemovePromoted ==
  ASSUME Store!StoreAssumption, Store!Inv, Store!RemovePromoted("caller")
  PROVE  Store!Inv'
<1>1. PICK d \in Store!Domains :
        /\ Store!InTurn("caller", d)
        /\ s2' \in {s2, [s2 EXCEPT ![d] = Store!Absent]}
        /\ Store!Goes("caller", [Call EXCEPT !.at = "load", !.todo = @ \ {d}])
  BY DEF Store!RemovePromoted, Call
<1> DEFINE r == [Call EXCEPT !.at = "load", !.todo = @ \ {d}]
<1>2. s4' = [s4 EXCEPT !["caller"] = r] /\ UNCHANGED <<s5, s6, s7, s8, s9, s10>>
  BY <1>1, StoreGoes
<1>3. /\ Call \in Store!Calls /\ Call.todo \subseteq Store!Domains
      /\ \A e \in DOMAIN Call.list : Call.list[e] \subseteq 0..s5
      /\ Call.at = "untmp" /\ s1' = s1 /\ s3' = s3
  BY StoreCall DEF Store!Inv, Store!RemovePromoted, Call
<1>4. /\ r \in Store!Calls' /\ r.at = "load" /\ r.list = Call.list /\ r.todo = Call.todo \ {d}
      /\ r.op = Call.op /\ r.d = Call.d
  BY <1>2, <1>3 DEF Store!Calls, Store!Places
<1> HIDE DEF r
<1>5. Store!CallsOK' /\ Call' = r
  BY <1>2, <1>3, <1>4, StoreSet DEF Store!Inv
<1>6. Store!FilesOK' /\ Store!NothingLost'
  <2>1. s2' \in [Store!Domains -> Store!Files] /\ \A e \in Store!Domains : s2'[e].has \subseteq 0..s5
    BY <1>1, StoreEntry DEF Store!Inv, Store!FilesOK
  <2>2. \A e \in Store!Domains : s2'[e] = s2[e] \/ s2'[e] = Store!Absent
    BY <1>1 DEF Store!Inv, Store!FilesOK
  <2> QED
    BY <1>2, <1>3, <2>1, <2>2 DEF Store!Inv, Store!FilesOK, Store!NothingLost
<1>7. /\ \A e \in Store!Domains \ Call.todo : Store!Agrees("caller", e)
      /\ Store!Agrees("caller", d)
      /\ \A e \in DOMAIN Call.list \cap Call.todo : e = d
  <2>1. ASSUME NEW e \in DOMAIN Call.list \cap Call.todo PROVE e = d
    BY <1>1, <1>3, <2>1, StoreFacts DEF Store!Inv, Store!Reading, Store!InTurn, Call
  <2> QED
    BY <1>1, <1>3, <2>1 DEF Store!Inv, Store!Reading, Call
<1>11. d \in DOMAIN Call.list /\ \A e \in Store!Domains : e # d => s2'[e] = s2[e]
  BY <1>1, <1>3 DEF Store!Inv, Store!FilesOK, Store!Reading, Call
<1>8. ASSUME NEW e \in Store!Domains \ (Call.todo \ {d}) PROVE Store!Agrees("caller", e)'
  BY <1>2, <1>3, <1>4, <1>5, <1>7, <1>11 DEF Store!Agrees, Store!LeftOut, Call
<1>9. Store!Reading("caller")'
  BY <1>4, <1>5, <1>7, <1>8 DEF Store!Reading, Call
<1>10. Store!Saving("caller")' /\ Store!Deleting("caller")'
  BY <1>2, <1>3, <1>4, <1>5 DEF Store!Inv, Store!Saving, Store!Deleting, Call
<1> QED
  BY <1>5, <1>6, <1>9, <1>10 DEF Store!Inv

(* What was kept of a domain is in the list, when the list agrees with its files. *)
LEMMA StoreKept ==
  ASSUME Store!Inv, NEW d \in Store!Domains, Store!Agrees("caller", d), s7[d] # {}
  PROVE  d \in DOMAIN Call.list /\ s7[d] \subseteq Call.list[d]
<1>1. s7[d] \subseteq s1[d].has /\ s1[d] \in Store!Files
  BY DEF Store!Inv, Store!NothingLost, Store!FilesOK
<1>2. s1[d].is = "entry"
  BY <1>1, StoreFile
<1>3. d \in DOMAIN Call.list /\ s1[d] = Store!Entry(Call.list[d])
  BY <1>2, StoreEntry DEF Store!Agrees, Store!LeftOut, Call
<1> QED
  BY <1>1, <1>3 DEF Store!Entry

LEMMA StoreLoaded ==
  ASSUME Store!StoreAssumption, Store!Inv, Store!Loaded("caller")
  PROVE  Store!Inv'
<1> DEFINE taken == DOMAIN Call.list = {} /\ s3 # Store!NoLegacy
           healed == Call.healed \/ (taken /\ s10)
           list == IF taken THEN s3 ELSE Call.list
           place == IF healed THEN "save" ELSE "change"
           r == [Call EXCEPT !.list = list, !.healed = healed, !.at = place]
<1>1. /\ Call.at = "load" /\ Call.todo = {} /\ Store!Goes("caller", r) /\ UNCHANGED <<s1, s2, s3>>
  BY DEF Store!Loaded, Call
<1>2. s4' = [s4 EXCEPT !["caller"] = r] /\ UNCHANGED <<s5, s6, s7, s8, s9, s10>>
  BY <1>1, StoreGoes
<1>3. /\ Call \in Store!Calls /\ Call.list \in Store!Lists /\ Call.healed \in BOOLEAN
      /\ \A e \in DOMAIN Call.list : Call.list[e] \subseteq 0..s5 /\ s5 \in Nat
  BY StoreCall DEF Store!Inv, Store!FilesOK, Store!Changes
<1>4. s3 \in Store!Lists /\ \A e \in DOMAIN s3 : s3[e] \subseteq 0..s5
  <2>1. s3 = Store!NoLegacy \/ s3 = [d \in Store!Domains |-> {0}]
    BY DEF Store!Inv, Store!FilesOK
  <2>2. s5 \in Nat
    BY DEF Store!Inv, Store!FilesOK, Store!Changes
  <2>3. CASE s3 = Store!NoLegacy
    BY <2>3, StoreFacts
  <2>4. CASE s3 = [d \in Store!Domains |-> {0}]
    BY <2>2, <2>4, StoreFacts
  <2> QED
    BY <2>1, <2>3, <2>4
<1>5. list \in Store!Lists /\ healed \in BOOLEAN /\ place \in {"save", "change"} /\ (place = "save" <=> healed)
      /\ \A e \in DOMAIN list : list[e] \subseteq 0..s5
  <2>1. s10 \in BOOLEAN
    BY DEF Store!Inv, Store!FilesOK
  <2> QED
    BY <1>3, <1>4, <2>1
<1>6. /\ r \in Store!Calls' /\ r.at = place /\ r.list = list /\ r.healed = healed
      /\ r.op = Call.op /\ r.d = Call.d /\ r.mark = Call.mark
  <2> HIDE DEF list, healed, place
  <2> QED
    BY <1>2, <1>3, <1>5 DEF Store!Calls, Store!Places
<1>7. \/ list = Call.list
      \/ /\ list = s3 /\ DOMAIN s3 = Store!Domains
         /\ \A d \in Store!Domains : s1[d] = Store!Absent
  <2>1. s3 # Store!NoLegacy => DOMAIN s3 = Store!Domains /\ \A d \in Store!Domains : s1[d] = Store!Absent
    BY DEF Store!Inv, Store!FilesOK
  <2> QED
    BY <2>1
<1> HIDE DEF r, list, healed, place
<1>8. Store!CallsOK' /\ Call' = r
  BY <1>2, <1>5, <1>6, StoreSet DEF Store!Inv
<1>9. Store!FilesOK' /\ Store!NothingLost'
  BY <1>1, <1>2 DEF Store!Inv, Store!FilesOK, Store!NothingLost
<1>10. \A d \in Store!Domains : Store!Agrees("caller", d)
  BY <1>1 DEF Store!Inv, Store!Reading, Call
<1>11. ASSUME NEW d \in Store!Domains PROVE Store!Agrees("caller", d)'
  <2>1. CASE list = Call.list
    BY <1>1, <1>2, <1>6, <1>8, <1>10, <2>1 DEF Store!Agrees, Store!LeftOut, Call
  <2>2. CASE list = s3 /\ DOMAIN s3 = Store!Domains /\ s1[d] = Store!Absent
    <3>1. Store!Absent # Store!Corrupt
      BY DEF Store!Absent, Store!Corrupt
    <3> QED
      BY <1>1, <1>2, <1>6, <1>8, <2>2, <3>1 DEF Store!Agrees, Store!LeftOut, Call
  <2> QED
    BY <1>7, <2>1, <2>2
<1>12. \A d \in Store!Domains : s1'[d] # Store!Corrupt /\ Store!LeftOut("caller", d)'
  BY <1>11 DEF Store!Agrees
<1>14. Store!Reading("caller")'
  BY <1>5, <1>6, <1>8, <1>11, <1>12 DEF Store!Reading, Call
<1>15. ASSUME NEW d \in Store!Domains, s7[d] # {} PROVE d \in DOMAIN list /\ s7[d] \subseteq list[d]
  <2>1. s1[d] # Store!Absent
    BY <1>15 DEF Store!Inv, Store!NothingLost, Store!Absent
  <2> QED
    BY <1>7, <1>10, <1>15, <2>1, StoreKept
<1>17. Store!Saving("caller")'
  BY <1>1, <1>2, <1>5, <1>6, <1>8, <1>12, <1>15 DEF Store!Saving, Call
<1>18. Store!Deleting("caller")'
  BY <1>1, <1>2, <1>5, <1>6, <1>8 DEF Store!Inv, Store!Deleting, Call
<1> QED
  BY <1>8, <1>9, <1>14, <1>17, <1>18 DEF Store!Inv

(* The caller changes the list it was given and saves it, or is over.      *)
LEMMA StoreChange ==
  ASSUME Store!StoreAssumption, Store!Inv, Store!Change("caller")
  PROVE  Store!Inv'
<1>1. /\ Call.at = "change" /\ UNCHANGED <<s1, s2, s3>>
      /\ \/ Store!Fail("caller")
         \/ \E new : /\ Store!Goes("caller", [Call EXCEPT !.at = "save", !.list = new, !.healed = FALSE])
                     /\ \/ /\ Call.op = "register" /\ Call.d \notin DOMAIN Call.list
                           /\ new = Store!With(Call.list, Call.d, {Call.mark})
                        \/ /\ Call.op = "update"
                           /\ new = [e \in DOMAIN Call.list |->
                                       IF e = Call.d THEN Call.list[e] \cup {Call.mark} ELSE Call.list[e]]
                        \/ Call.op = "delete" /\ new = [e \in DOMAIN Call.list \ {Call.d} |-> Call.list[e]]
  BY DEF Store!Change, Call
<1>2. /\ Call \in Store!Calls /\ Call.list \in Store!Lists /\ Call.d \in Store!Domains
      /\ DOMAIN Call.list \subseteq Store!Domains /\ Call.list \in [DOMAIN Call.list -> SUBSET Store!Changes]
      /\ Call.mark \in 0..s5 /\ s5 \in Store!Changes /\ s5 \in Nat /\ 0..s5 \subseteq Store!Changes
      /\ \A e \in DOMAIN Call.list : Call.list[e] \subseteq 0..s5
  BY StoreCall DEF Store!Inv, Store!FilesOK, Store!Changes, Store!StoreAssumption
<1>3. \A d \in Store!Domains : Store!Agrees("caller", d) /\ s1[d] # Store!Corrupt
  BY <1>1 DEF Store!Inv, Store!Reading, Store!Agrees, Store!LeftOut, Call
<1>4. CASE Store!Fail("caller")
  <2>1. s4' = [s4 EXCEPT !["caller"] = Store!NoCall] /\ UNCHANGED <<s5, s6, s7, s8, s9, s10>>
    BY <1>4, StoreGoes DEF Store!Fail
  <2>2. Store!FilesOK' /\ Store!NothingLost'
    BY <1>1, <2>1 DEF Store!Inv, Store!FilesOK, Store!NothingLost
  <2> QED
    BY <1>2, <2>1, <2>2, StoreIdle DEF Store!Inv
<1>5. ASSUME NEW new,
             Store!Goes("caller", [Call EXCEPT !.at = "save", !.list = new, !.healed = FALSE]),
             new \in Store!Lists, \A e \in DOMAIN new : new[e] \subseteq 0..s5,
             \A e \in DOMAIN Call.list : e # Call.d \/ Call.op # "delete" =>
                                         e \in DOMAIN new /\ Call.list[e] \subseteq new[e],
             Call.op \in {"register", "update", "delete"},
             Call.op # "delete" /\ Call.d \in DOMAIN new => Call.mark \in new[Call.d]
      PROVE  Store!Inv'
  <2> DEFINE r == [Call EXCEPT !.at = "save", !.list = new, !.healed = FALSE]
  <2>1. s4' = [s4 EXCEPT !["caller"] = r] /\ UNCHANGED <<s5, s6, s7, s8, s9, s10>>
    BY <1>5, StoreGoes
  <2>2. /\ r \in Store!Calls' /\ r.at = "save" /\ r.list = new /\ r.healed = FALSE
        /\ r.op = Call.op /\ r.d = Call.d /\ r.mark = Call.mark
    BY <1>2, <1>5, <2>1 DEF Store!Calls, Store!Places
  <2> HIDE DEF r
  <2>3. Store!CallsOK' /\ Call' = r
    BY <1>2, <1>5, <2>1, <2>2, StoreSet DEF Store!Inv
  <2>4. Store!FilesOK' /\ Store!NothingLost'
    BY <1>1, <2>1 DEF Store!Inv, Store!FilesOK, Store!NothingLost
  <2>5. Store!Reading("caller")'
    BY <1>1, <1>3, <2>2, <2>3 DEF Store!Reading, Call
  <2>6. Call.op = "delete" => s7[Call.d] = {} /\ Call.d \in s8
    BY <1>1 DEF Store!Inv, Store!Deleting, Call
  <2>7. ASSUME NEW d \in Store!Domains, s7[d] # {} PROVE d \in DOMAIN new /\ s7[d] \subseteq new[d]
    BY <1>3, <1>5, <2>6, <2>7, StoreKept
  <2>8. Store!Saving("caller")'
    BY <1>5, <2>1, <2>2, <2>3, <2>7 DEF Store!Saving, Call
  <2>9. Store!Deleting("caller")'
    BY <2>1, <2>2, <2>3, <2>6 DEF Store!Deleting, Call
  <2> QED
    BY <2>3, <2>4, <2>5, <2>8, <2>9 DEF Store!Inv
<1>6. ASSUME NEW new, Store!Goes("caller", [Call EXCEPT !.at = "save", !.list = new, !.healed = FALSE]),
             Call.op = "register", Call.d \notin DOMAIN Call.list,
             new = Store!With(Call.list, Call.d, {Call.mark})
      PROVE  Store!Inv'
  <2>1. /\ new \in Store!Lists /\ DOMAIN new = DOMAIN Call.list \cup {Call.d} /\ new[Call.d] = {Call.mark}
        /\ \A e \in DOMAIN Call.list : e # Call.d => new[e] = Call.list[e]
    BY <1>2, <1>6, StoreWith
  <2>2. \A e \in DOMAIN new : new[e] \subseteq 0..s5
    BY <1>2, <2>1
  <2>3. \A e \in DOMAIN Call.list : e \in DOMAIN new /\ Call.list[e] \subseteq new[e]
    BY <1>6, <2>1
  <2>4. Call.mark \in new[Call.d]
    BY <2>1
  <2> QED
    BY <1>5, <1>6, <2>1, <2>2, <2>3, <2>4
<1>7. ASSUME NEW new, Store!Goes("caller", [Call EXCEPT !.at = "save", !.list = new, !.healed = FALSE]),
             Call.op = "update",
             new = [e \in DOMAIN Call.list |->
                      IF e = Call.d THEN Call.list[e] \cup {Call.mark} ELSE Call.list[e]]
      PROVE  Store!Inv'
  <2>1. /\ DOMAIN new = DOMAIN Call.list /\ new \in [DOMAIN new -> SUBSET Store!Changes]
        /\ \A e \in DOMAIN new : new[e] \subseteq 0..s5 /\ Call.list[e] \subseteq new[e]
        /\ Call.d \in DOMAIN new => Call.mark \in new[Call.d]
    BY <1>2, <1>7
  <2>2. new \in Store!Lists
    BY <1>2, <2>1, StoreList
  <2> QED
    BY <1>5, <1>7, <2>1, <2>2
<1>8. ASSUME NEW new, Store!Goes("caller", [Call EXCEPT !.at = "save", !.list = new, !.healed = FALSE]),
             Call.op = "delete", new = [e \in DOMAIN Call.list \ {Call.d} |-> Call.list[e]]
      PROVE  Store!Inv'
  <2>1. /\ DOMAIN new = DOMAIN Call.list \ {Call.d} /\ new \in [DOMAIN new -> SUBSET Store!Changes]
        /\ \A e \in DOMAIN new : new[e] = Call.list[e]
    BY <1>2, <1>8
  <2>2. new \in Store!Lists
    BY <1>2, <2>1, StoreList
  <2> QED
    BY <1>2, <1>5, <1>8, <2>1, <2>2
<1> QED
  BY <1>1, <1>4, <1>6, <1>7, <1>8

LEMMA StoreSaveBegins ==
  ASSUME Store!StoreAssumption, Store!Inv, Store!SaveBegins("caller")
  PROVE  Store!Inv'
<1>1. /\ Call.at = "save" /\ UNCHANGED <<s1, s2>>
      /\ \/ Store!Fail("caller") /\ s3' \in {s3, Store!NoLegacy}
         \/ s3' = Store!NoLegacy /\ Store!Goes("caller", [Call EXCEPT !.at = "clean", !.todo = Store!Domains])
  BY DEF Store!SaveBegins, Call
<1>2. Call \in Store!Calls /\ s5 \in Nat /\ \A e \in DOMAIN Call.list : Call.list[e] \subseteq 0..s5
  BY StoreCall DEF Store!Inv, Store!FilesOK, Store!Changes
<1>3. CASE Store!Fail("caller") /\ s3' \in {s3, Store!NoLegacy}
  <2>1. s4' = [s4 EXCEPT !["caller"] = Store!NoCall] /\ UNCHANGED <<s5, s6, s7, s8, s9, s10>>
    BY <1>3, StoreGoes DEF Store!Fail
  <2>2. Store!FilesOK' /\ Store!NothingLost'
    BY <1>1, <1>3, <2>1 DEF Store!Inv, Store!FilesOK, Store!NothingLost
  <2> QED
    BY <1>2, <2>1, <2>2, StoreIdle DEF Store!Inv
<1>4. CASE s3' = Store!NoLegacy /\ Store!Goes("caller", [Call EXCEPT !.at = "clean", !.todo = Store!Domains])
  <2> DEFINE r == [Call EXCEPT !.at = "clean", !.todo = Store!Domains]
  <2>1. s4' = [s4 EXCEPT !["caller"] = r] /\ UNCHANGED <<s5, s6, s7, s8, s9, s10>>
    BY <1>4, StoreGoes
  <2>2. /\ r \in Store!Calls' /\ r.at = "clean" /\ r.list = Call.list /\ r.healed = Call.healed
        /\ r.op = Call.op /\ r.d = Call.d /\ r.mark = Call.mark
    BY <1>2, <2>1 DEF Store!Calls, Store!Places
  <2> HIDE DEF r
  <2>3. Store!CallsOK' /\ Call' = r
    BY <1>2, <2>1, <2>2, StoreSet DEF Store!Inv
  <2>4. Store!FilesOK' /\ Store!NothingLost'
    BY <1>1, <1>4, <2>1 DEF Store!Inv, Store!FilesOK, Store!NothingLost
  <2>5. Store!Reading("caller")'
    BY <1>1, <2>2, <2>3 DEF Store!Inv, Store!Reading, Call
  <2>6. Store!Saving("caller")'
    BY <1>1, <1>4, <2>1, <2>2, <2>3 DEF Store!Inv, Store!Saving, Store!LeftOut, Call
  <2>7. Store!Deleting("caller")'
    BY <1>1, <2>1, <2>2, <2>3 DEF Store!Inv, Store!Deleting, Call
  <2> QED
    BY <2>3, <2>4, <2>5, <2>6, <2>7 DEF Store!Inv
<1> QED
  BY <1>1, <1>3, <1>4

(* What is not in the list has nothing that was kept.                      *)
LEMMA StoreClean ==
  ASSUME Store!StoreAssumption, Store!Inv, Store!Clean("caller")
  PROVE  Store!Inv'
<1>1. PICK d \in Store!Domains :
        /\ Store!Goes("caller", [Call EXCEPT !.todo = @ \ {d}])
        /\ \/ s1[d].is = "entry" /\ d \notin DOMAIN Call.list /\ s1' = [s1 EXCEPT ![d] = Store!Absent]
           \/ UNCHANGED s1
  BY DEF Store!Clean, Call
<1> DEFINE r == [Call EXCEPT !.todo = @ \ {d}]
<1>2. /\ s4' = [s4 EXCEPT !["caller"] = r] /\ UNCHANGED <<s5, s6, s7, s8, s9, s10>>
      /\ Call.at = "clean" /\ UNCHANGED <<s2, s3>>
  BY <1>1, StoreGoes DEF Store!Clean, Call
<1>3. /\ Call \in Store!Calls /\ s5 \in Nat /\ \A e \in DOMAIN Call.list : Call.list[e] \subseteq 0..s5
      /\ s1 \in [Store!Domains -> Store!Files]
  BY StoreCall DEF Store!Inv, Store!FilesOK, Store!Changes
<1>4. /\ r \in Store!Calls' /\ r.at = "clean" /\ r.list = Call.list /\ r.healed = Call.healed
      /\ r.op = Call.op /\ r.d = Call.d /\ r.mark = Call.mark
  BY <1>2, <1>3 DEF Store!Calls, Store!Places
<1> HIDE DEF r
<1>5. Store!CallsOK' /\ Call' = r
  BY <1>2, <1>3, <1>4, StoreSet DEF Store!Inv
<1>6. /\ s1' \in [Store!Domains -> Store!Files]
      /\ \A e \in Store!Domains : \/ s1'[e] = s1[e]
                                  \/ s1'[e] = Store!Absent /\ e \notin DOMAIN Call.list
  BY <1>1, <1>3, StoreEntry
<1>7. /\ \A e \in Store!Domains : s7[e] # {} => e \in DOMAIN Call.list
      /\ \A e \in Store!Domains : s1[e] # Store!Corrupt
  BY <1>2 DEF Store!Inv, Store!Saving, Store!Reading, Call
<1>8. Store!FilesOK'
  BY <1>2, <1>6, StoreEntry DEF Store!Inv, Store!FilesOK
<1>9. Store!NothingLost'
  BY <1>2, <1>6, <1>7 DEF Store!Inv, Store!NothingLost
<1>10. Store!Reading("caller")'
  BY <1>4, <1>5, <1>6, <1>7, StoreEntry DEF Store!Reading, Call
<1>11. Store!Saving("caller")'
  <2>1. Store!Absent.is # "entry"
    BY DEF Store!Absent
  <2> QED
    BY <1>2, <1>4, <1>5, <1>6, <2>1 DEF Store!Inv, Store!Saving, Store!LeftOut, Call
<1>12. Store!Deleting("caller")'
  BY <1>2, <1>4, <1>5 DEF Store!Inv, Store!Deleting, Call
<1> QED
  BY <1>5, <1>8, <1>9, <1>10, <1>11, <1>12 DEF Store!Inv

LEMMA StoreCleaned ==
  ASSUME Store!StoreAssumption, Store!Inv, Store!Cleaned("caller")
  PROVE  Store!Inv'
<1> DEFINE r == [Call EXCEPT !.at = "write", !.todo = DOMAIN Call.list]
<1>1. /\ s4' = [s4 EXCEPT !["caller"] = r] /\ UNCHANGED <<s5, s6, s7, s8, s9, s10>>
      /\ Call.at = "clean" /\ UNCHANGED <<s1, s2, s3>>
  BY StoreGoes DEF Store!Cleaned, Call
<1>2. /\ Call \in Store!Calls /\ \A e \in DOMAIN Call.list : Call.list[e] \subseteq 0..s5
      /\ DOMAIN Call.list \subseteq Store!Domains
  BY StoreCall DEF Store!Inv
<1>3. /\ r \in Store!Calls' /\ r.at = "write" /\ r.list = Call.list /\ r.healed = Call.healed
      /\ r.op = Call.op /\ r.d = Call.d /\ r.mark = Call.mark /\ r.todo = DOMAIN Call.list
  BY <1>1, <1>2 DEF Store!Calls, Store!Places
<1> HIDE DEF r
<1>4. Store!CallsOK' /\ Call' = r
  BY <1>1, <1>2, <1>3, StoreSet DEF Store!Inv
<1>5. Store!FilesOK' /\ Store!NothingLost'
  BY <1>1 DEF Store!Inv, Store!FilesOK, Store!NothingLost
<1>6. Store!Reading("caller")'
  BY <1>1, <1>3, <1>4 DEF Store!Inv, Store!Reading, Call
<1>7. Store!Saving("caller")'
  BY <1>1, <1>2, <1>3, <1>4 DEF Store!Inv, Store!Saving, Store!LeftOut, Call
<1>8. Store!Deleting("caller")'
  BY <1>1, <1>3, <1>4 DEF Store!Inv, Store!Deleting, Call
<1> QED
  BY <1>4, <1>5, <1>6, <1>7, <1>8 DEF Store!Inv

LEMMA StoreWrite ==
  ASSUME Store!StoreAssumption, Store!Inv, Store!Write("caller")
  PROVE  Store!Inv'
<1>1. PICK d \in Call.todo :
        /\ s2' \in {s2, [s2 EXCEPT ![d] = Store!Absent]}
        /\ \/ /\ s1' = [s1 EXCEPT ![d] = Store!Entry(Call.list[d])]
              /\ Store!Goes("caller", [Call EXCEPT !.todo = @ \ {d}]) \/ Store!Fail("caller")
           \/ UNCHANGED s1 /\ Store!Fail("caller")
  BY DEF Store!Write, Call
<1>2. /\ Call \in Store!Calls /\ s5 \in Nat /\ \A e \in DOMAIN Call.list : Call.list[e] \subseteq 0..s5
      /\ s1 \in [Store!Domains -> Store!Files] /\ Call.todo \subseteq DOMAIN Call.list
      /\ DOMAIN Call.list \subseteq Store!Domains /\ d \in DOMAIN Call.list /\ d \in Store!Domains
      /\ Call.list[d] \in SUBSET Store!Changes /\ Call.at = "write" /\ s3' = s3
  BY StoreCall DEF Store!Inv, Store!FilesOK, Store!Changes, Store!Saving, Store!Write, Call
<1>3. /\ s2' \in [Store!Domains -> Store!Files] /\ \A e \in Store!Domains : s2'[e].has \subseteq 0..s5
      /\ \A e \in Store!Domains : e # d => s2'[e] = s2[e]
  BY <1>1, StoreEntry DEF Store!Inv, Store!FilesOK
<1>0. s3 = Store!NoLegacy
  BY <1>2 DEF Store!Inv, Store!Saving, Call
<1>4. CASE UNCHANGED s1 /\ Store!Fail("caller")
  <2>1. s4' = [s4 EXCEPT !["caller"] = Store!NoCall] /\ UNCHANGED <<s5, s6, s7, s8, s9, s10>>
    BY <1>4, StoreGoes DEF Store!Fail
  <2>2. Store!FilesOK' /\ Store!NothingLost'
    BY <1>0, <1>2, <1>3, <1>4, <2>1 DEF Store!Inv, Store!FilesOK, Store!NothingLost
  <2> QED
    BY <1>2, <2>1, <2>2, StoreIdle DEF Store!Inv
<1>6. ASSUME s1' = [s1 EXCEPT ![d] = Store!Entry(Call.list[d])], UNCHANGED <<s5, s7, s8, s9, s10>>
      PROVE  /\ Store!FilesOK' /\ Store!NothingLost'
             /\ s1'[d] = Store!Entry(Call.list[d]) /\ s1'[d] # Store!Corrupt
             /\ \A e \in Store!Domains : e # d => s1'[e] = s1[e]
  <2>1. /\ s1' \in [Store!Domains -> Store!Files] /\ s1'[d] = Store!Entry(Call.list[d])
        /\ s1'[d].has = Call.list[d] /\ s1'[d] # Store!Corrupt
        /\ \A e \in Store!Domains : e # d => s1'[e] = s1[e]
    BY <1>2, <1>6, StoreEntry
  <2>2. Store!FilesOK'
    BY <1>0, <1>2, <1>3, <1>6, <2>1 DEF Store!Inv, Store!FilesOK
  <2>3. s7[d] # {} => s7[d] \subseteq Call.list[d]
    BY <1>2 DEF Store!Inv, Store!Saving, Call
  <2>4. Store!NothingLost'
    BY <1>6, <2>1, <2>3 DEF Store!Inv, Store!NothingLost
  <2> QED
    BY <2>1, <2>2, <2>4
<1>7. CASE s1' = [s1 EXCEPT ![d] = Store!Entry(Call.list[d])] /\ Store!Fail("caller")
  <2>1. s4' = [s4 EXCEPT !["caller"] = Store!NoCall] /\ UNCHANGED <<s5, s6, s7, s8, s9, s10>>
    BY <1>7, StoreGoes DEF Store!Fail
  <2> QED
    BY <1>2, <1>6, <1>7, <2>1, StoreIdle DEF Store!Inv
<1>5. CASE /\ s1' = [s1 EXCEPT ![d] = Store!Entry(Call.list[d])]
           /\ Store!Goes("caller", [Call EXCEPT !.todo = @ \ {d}])
  <2> DEFINE r == [Call EXCEPT !.todo = @ \ {d}]
  <2>1. s4' = [s4 EXCEPT !["caller"] = r] /\ UNCHANGED <<s5, s6, s7, s8, s9, s10>>
    BY <1>5, StoreGoes
  <2>2. /\ r \in Store!Calls' /\ r.at = "write" /\ r.list = Call.list /\ r.healed = Call.healed
        /\ r.op = Call.op /\ r.d = Call.d /\ r.mark = Call.mark /\ r.todo = Call.todo \ {d}
    BY <1>2, <2>1 DEF Store!Calls, Store!Places
  <2> HIDE DEF r
  <2>3. Store!CallsOK' /\ Call' = r
    BY <1>2, <2>1, <2>2, StoreSet DEF Store!Inv
  <2>4. /\ Store!FilesOK' /\ Store!NothingLost'
        /\ s1'[d] = Store!Entry(Call.list[d]) /\ s1'[d] # Store!Corrupt
        /\ \A e \in Store!Domains : e # d => s1'[e] = s1[e]
    BY <1>5, <1>6, <2>1
  <2>8. Store!Reading("caller")'
    BY <1>2, <2>2, <2>3, <2>4 DEF Store!Inv, Store!Reading, Call
  <2>9. Store!Saving("caller")'
    BY <1>0, <1>2, <1>3, <2>1, <2>2, <2>3, <2>4 DEF Store!Inv, Store!Saving, Store!LeftOut, Call
  <2>10. Store!Deleting("caller")'
    BY <1>2, <2>1, <2>2, <2>3 DEF Store!Inv, Store!Deleting, Call
  <2> QED
    BY <2>3, <2>4, <2>8, <2>9, <2>10 DEF Store!Inv
<1> QED
  BY <1>1, <1>4, <1>5, <1>7

(* The save is over: what it wrote is in the files, so what its caller is told of is. *)
LEMMA StoreSaved ==
  ASSUME Store!StoreAssumption, Store!Inv, Store!Saved("caller")
  PROVE  Store!Inv'
<1>1. /\ Call.at = "write" /\ Call.todo = {} /\ UNCHANGED <<s1, s2, s3>>
      /\ \/ Call.healed /\ Store!Goes("caller", [Call EXCEPT !.at = "change", !.healed = FALSE])
         \/ /\ ~Call.healed /\ Call.op = "delete"
            /\ Store!Step("caller", [Call EXCEPT !.at = "folder"])
            /\ s9' = s9 \cup {Call.d} /\ UNCHANGED <<s7, s8>>
         \/ /\ ~Call.healed /\ Call.op # "delete" /\ Store!Step("caller", Store!NoCall)
            /\ s7' = IF Call.d \in DOMAIN Call.list THEN [s7 EXCEPT ![Call.d] = @ \cup {Call.mark}] ELSE s7
            /\ IF Call.op = "register" THEN s9' = s9 \ {Call.d} /\ s8' = s8 \ {Call.d}
               ELSE UNCHANGED <<s9, s8>>
  BY DEF Store!Saved, Call
<1>2. /\ Call \in Store!Calls /\ s5 \in Nat /\ \A e \in DOMAIN Call.list : Call.list[e] \subseteq 0..s5
      /\ s5 \in Store!Changes /\ Call.d \in Store!Domains /\ Call.mark \in 0..s5 /\ 0..s5 \subseteq Store!Changes
      /\ DOMAIN Call.list \subseteq Store!Domains
  BY StoreCall DEF Store!Inv, Store!FilesOK, Store!Changes, Store!StoreAssumption
<1>3. /\ \A d \in DOMAIN Call.list : s1[d] = Store!Entry(Call.list[d])
      /\ \A d \in Store!Domains : s1[d] # Store!Corrupt
  BY <1>1 DEF Store!Inv, Store!Saving, Store!Reading, Call
<1>4. CASE Call.healed /\ Store!Goes("caller", [Call EXCEPT !.at = "change", !.healed = FALSE])
  <2> DEFINE r == [Call EXCEPT !.at = "change", !.healed = FALSE]
  <2>1. s4' = [s4 EXCEPT !["caller"] = r] /\ UNCHANGED <<s5, s6, s7, s8, s9, s10>>
    BY <1>4, StoreGoes
  <2>2. r \in Store!Calls' /\ r.at = "change" /\ r.list = Call.list /\ r.op = Call.op /\ r.d = Call.d
    BY <1>2, <2>1 DEF Store!Calls, Store!Places
  <2> HIDE DEF r
  <2>3. Store!CallsOK' /\ Call' = r
    BY <1>2, <2>1, <2>2, StoreSet DEF Store!Inv
  <2>4. Store!FilesOK' /\ Store!NothingLost'
    BY <1>1, <2>1 DEF Store!Inv, Store!FilesOK, Store!NothingLost
  <2>5. ASSUME NEW d \in Store!Domains PROVE Store!Agrees("caller", d)'
    <3>1. Store!LeftOut("caller", d)
      BY <1>1, <1>4 DEF Store!Inv, Store!Saving, Call
    <3> QED
      BY <1>1, <1>3, <2>1, <2>2, <2>3, <3>1 DEF Store!Agrees, Store!LeftOut, Call
  <2>6. Store!Reading("caller")' /\ Store!Saving("caller")'
    BY <1>1, <1>3, <2>2, <2>3, <2>5 DEF Store!Reading, Store!Saving, Call
  <2>7. Store!Deleting("caller")'
    BY <1>1, <2>1, <2>2, <2>3 DEF Store!Inv, Store!Deleting, Call
  <2> QED
    BY <2>3, <2>4, <2>6, <2>7 DEF Store!Inv
<1>5. CASE /\ Call.op = "delete" /\ Store!Step("caller", [Call EXCEPT !.at = "folder"])
           /\ s9' = s9 \cup {Call.d} /\ UNCHANGED <<s7, s8>>
  <2> DEFINE r == [Call EXCEPT !.at = "folder"]
  <2>1. s4' = [s4 EXCEPT !["caller"] = r] /\ UNCHANGED <<s5, s6, s7, s8, s10>>
    BY <1>5 DEF Store!Step
  <2>2. r \in Store!Calls' /\ r.at = "folder" /\ r.list = Call.list /\ r.op = Call.op /\ r.d = Call.d
    BY <1>2, <2>1 DEF Store!Calls, Store!Places
  <2> HIDE DEF r
  <2>3. Store!CallsOK' /\ Call' = r
    BY <1>2, <2>1, <2>2, StoreSet DEF Store!Inv
  <2>4. s7[Call.d] = {} /\ Call.d \in s8
    BY <1>1, <1>5 DEF Store!Inv, Store!Deleting, Call
  <2>5. Store!FilesOK' /\ Store!NothingLost'
    BY <1>1, <1>5, <2>1, <2>4 DEF Store!Inv, Store!FilesOK, Store!NothingLost
  <2>6. Store!Reading("caller")' /\ Store!Saving("caller")' /\ Store!Deleting("caller")'
    BY <1>1, <1>3, <1>5, <2>1, <2>2, <2>3, <2>4 DEF Store!Reading, Store!Saving, Store!Deleting, Call
  <2> QED
    BY <2>3, <2>5, <2>6 DEF Store!Inv
<1>6. CASE /\ ~Call.healed /\ Call.op # "delete" /\ Store!Step("caller", Store!NoCall)
           /\ s7' = IF Call.d \in DOMAIN Call.list THEN [s7 EXCEPT ![Call.d] = @ \cup {Call.mark}] ELSE s7
           /\ IF Call.op = "register" THEN s9' = s9 \ {Call.d} /\ s8' = s8 \ {Call.d} ELSE UNCHANGED <<s9, s8>>
  <2>1. s4' = [s4 EXCEPT !["caller"] = Store!NoCall] /\ UNCHANGED <<s5, s6, s10>>
    BY <1>6 DEF Store!Step
  <2>2. s7' \in [Store!Domains -> SUBSET Store!Changes] /\ s8' \subseteq Store!Domains /\ s9' \subseteq s8'
    BY <1>2, <1>6 DEF Store!Inv, Store!FilesOK
  <2>3. Store!FilesOK'
    BY <1>1, <2>1, <2>2 DEF Store!Inv, Store!FilesOK
  <2>4. Call.d \in DOMAIN Call.list => Call.mark \in s1[Call.d].has
    <3>1. Call.d \in DOMAIN Call.list => Call.mark \in Call.list[Call.d]
      BY <1>1, <1>6 DEF Store!Inv, Store!Saving, Call
    <3>2. Call.d \in DOMAIN Call.list => s1[Call.d].has = Call.list[Call.d]
      <4>1. \A c : Store!Entry(c).has = c
        BY DEF Store!Entry
      <4> QED
        BY <1>3, <4>1
    <3> QED
      BY <3>1, <3>2
  <2>5. Store!NothingLost'
    <3>1. s7 \in [Store!Domains -> SUBSET Store!Changes]
      BY DEF Store!Inv, Store!FilesOK
    <3> QED
      BY <1>1, <1>2, <1>6, <2>4, <3>1 DEF Store!Inv, Store!NothingLost
  <2> QED
    BY <1>2, <2>1, <2>3, <2>5, StoreIdle DEF Store!Inv
<1> QED
  BY <1>1, <1>4, <1>5, <1>6

(* The folder of a deleted domain: nothing was kept of it.                 *)
LEMMA StoreRemoveFiles ==
  ASSUME Store!StoreAssumption, Store!Inv, Store!RemoveFiles("caller")
  PROVE  Store!Inv'
<1> DEFINE r == [Call EXCEPT !.at = "rmdir"]
<1>1. /\ Call.at = "folder" /\ s3' = s3
      /\ s1' \in {s1, [s1 EXCEPT ![Call.d] = Store!Absent]} /\ s2' \in {s2, [s2 EXCEPT ![Call.d] = Store!Absent]}
      /\ s4' = [s4 EXCEPT !["caller"] = r] /\ UNCHANGED <<s5, s6, s7, s8, s9, s10>>
  BY StoreGoes DEF Store!RemoveFiles, Call
<1>2. /\ Call \in Store!Calls /\ \A e \in DOMAIN Call.list : Call.list[e] \subseteq 0..s5
      /\ Call.d \in Store!Domains
  BY StoreCall DEF Store!Inv
<1>3. r \in Store!Calls' /\ r.at = "rmdir" /\ r.list = Call.list /\ r.op = Call.op /\ r.d = Call.d
  BY <1>1, <1>2 DEF Store!Calls, Store!Places
<1> HIDE DEF r
<1>4. Store!CallsOK' /\ Call' = r
  BY <1>1, <1>2, <1>3, StoreSet DEF Store!Inv
<1>5. Call.op = "delete" /\ s7[Call.d] = {} /\ Call.d \in s8 /\ \A d \in Store!Domains : s1[d] # Store!Corrupt
  BY <1>1 DEF Store!Inv, Store!Deleting, Store!Reading, Call
<1>6. /\ s1' \in [Store!Domains -> Store!Files] /\ s2' \in [Store!Domains -> Store!Files]
      /\ \A d \in Store!Domains : s1'[d] = s1[d] \/ (d = Call.d /\ s1'[d] = Store!Absent)
      /\ \A d \in Store!Domains : s2'[d] = s2[d] \/ s2'[d] = Store!Absent
  BY <1>1, <1>2, StoreEntry DEF Store!Inv, Store!FilesOK
<1>7. Store!FilesOK'
  BY <1>1, <1>6, StoreEntry DEF Store!Inv, Store!FilesOK
<1>8. Store!NothingLost'
  BY <1>1, <1>5, <1>6 DEF Store!Inv, Store!NothingLost
<1>9. Store!Reading("caller")' /\ Store!Saving("caller")' /\ Store!Deleting("caller")'
  BY <1>1, <1>3, <1>4, <1>5, <1>6, StoreEntry DEF Store!Reading, Store!Saving, Store!Deleting, Call
<1> QED
  BY <1>4, <1>7, <1>8, <1>9 DEF Store!Inv

LEMMA StoreRemoveDir ==
  ASSUME Store!StoreAssumption, Store!Inv, Store!RemoveDir("caller")
  PROVE  Store!Inv'
<1>1. /\ Call.at = "rmdir" /\ s3' = s3
      /\ \/ s1' = [s1 EXCEPT ![Call.d] = Store!Absent] /\ s2' = [s2 EXCEPT ![Call.d] = Store!Absent]
         \/ UNCHANGED <<s1, s2>>
      /\ s4' = [s4 EXCEPT !["caller"] = Store!NoCall] /\ UNCHANGED <<s5, s6, s7, s8, s9, s10>>
  BY StoreGoes DEF Store!RemoveDir, Store!Fail, Call
<1>2. Call.d \in Store!Domains /\ s5 \in Nat
  BY StoreCall DEF Store!Inv, Store!FilesOK, Store!Changes
<1>3. s7[Call.d] = {}
  BY <1>1 DEF Store!Inv, Store!Deleting, Call
<1>4. /\ s1' \in [Store!Domains -> Store!Files] /\ s2' \in [Store!Domains -> Store!Files]
      /\ \A d \in Store!Domains : s1'[d] = s1[d] \/ (d = Call.d /\ s1'[d] = Store!Absent)
      /\ \A d \in Store!Domains : s2'[d] = s2[d] \/ s2'[d] = Store!Absent
  BY <1>1, <1>2, StoreEntry DEF Store!Inv, Store!FilesOK
<1>5. Store!FilesOK'
  BY <1>1, <1>4, StoreEntry DEF Store!Inv, Store!FilesOK
<1>6. Store!NothingLost'
  BY <1>1, <1>3, <1>4 DEF Store!Inv, Store!NothingLost
<1> QED
  BY <1>1, <1>2, <1>5, <1>6, StoreIdle DEF Store!Inv

LEMMA StoreStep == Store!StoreAssumption /\ Store!Inv /\ [Store!Next]_(Store!vars) => Store!Inv'
<1> SUFFICES ASSUME Store!StoreAssumption, Store!Inv, [Store!Next]_(Store!vars) PROVE Store!Inv'
  OBVIOUS
<1>1. CASE Store!Proceed("caller")
  BY <1>1, StoreLoad, StoreRemovePromoted, StoreLoaded, StoreChange, StoreSaveBegins, StoreClean, StoreCleaned,
     StoreWrite, StoreSaved, StoreRemoveFiles, StoreRemoveDir DEF Store!Proceed
<1>2. CASE Store!Crash
  <2>1. /\ s4' = [c \in {"caller"} |-> Store!NoCall] /\ UNCHANGED <<s1, s2, s3, s5, s7, s8, s9, s10>>
        /\ s5 \in Nat
    BY <1>2 DEF Store!Crash, Store!Inv, Store!FilesOK, Store!Changes
  <2>2. Store!FilesOK' /\ Store!NothingLost'
    BY <2>1 DEF Store!Inv, Store!FilesOK, Store!NothingLost
  <2> QED
    BY <2>1, <2>2, StoreIdle DEF Store!Inv
<1>3. CASE UNCHANGED Store!vars
  BY <1>3 DEF Store!vars, Store!Inv, Store!FilesOK, Store!CallsOK, Store!NothingLost, Store!Reading, Store!Saving,
     Store!Deleting, Store!Agrees, Store!LeftOut, Store!InTurn, Store!Calls
<1> QED
  BY <1>1, <1>2, <1>3, StoreBegin DEF Store!Next

(* What the run checks of the registry follows from the invariant.         *)
LEMMA StoreSays == Store!Inv => Store!TypeOK /\ Store!NothingLost /\ Store!ListIsRead
<1> SUFFICES ASSUME Store!Inv PROVE Store!TypeOK /\ Store!NothingLost /\ Store!ListIsRead
  OBVIOUS
<1>1. Store!TypeOK
  BY StoreCall DEF Store!Inv, Store!FilesOK, Store!TypeOK, Store!Saving, Call
<1>2. Store!ListIsRead
  <2>1. ASSUME Call.at = "change", NEW d \in Store!Domains
        PROVE  Store!Agrees("caller", d)
    BY <2>1 DEF Store!Inv, Store!Reading, Call
  <2> QED
    BY <2>1 DEF Store!ListIsRead, Store!Agrees, Store!LeftOut, Call
<1> QED
  BY <1>1, <1>2 DEF Store!Inv

(* No step touches what is corrupt, except to write the domain anew.       *)
LEMMA StoreCorrupt == Store!StoreAssumption /\ Store!Inv /\ [Store!Next]_(Store!vars) => Store!CorruptKept
<1> SUFFICES ASSUME Store!StoreAssumption, Store!Inv, [Store!Next]_(Store!vars), NEW d \in Store!Domains
    PROVE  /\ s1[d] = Store!Corrupt => s1'[d] = Store!Corrupt
           /\ (s2[d] = Store!Corrupt /\ s2'[d] # Store!Corrupt) =>
                \/ Call.at = "write" /\ d \in DOMAIN Call.list
                \/ Call.at \in {"folder", "rmdir"} /\ Call.d = d
  BY DEF Store!CorruptKept, Call
<1>1. /\ s1 \in [Store!Domains -> Store!Files] /\ s2 \in [Store!Domains -> Store!Files]
      /\ Store!Absent.is # "entry" /\ Store!Corrupt.is # "entry" /\ Store!Absent # Store!Corrupt
      /\ Call.at \notin {"idle", "load", "untmp"} => s1[d] # Store!Corrupt
  BY DEF Store!Inv, Store!FilesOK, Store!Reading, Store!Absent, Store!Corrupt, Call
<1>2. CASE UNCHANGED <<s1, s2>>
  BY <1>2
<1>3. CASE Store!Load("caller")
  BY <1>1, <1>3 DEF Store!Load, Store!Promote
<1>4. CASE Store!RemovePromoted("caller")
  <2>1. PICK e \in Store!Domains : Store!InTurn("caller", e) /\ s2' \in {s2, [s2 EXCEPT ![e] = Store!Absent]}
    BY <1>4 DEF Store!RemovePromoted
  <2>2. s2[e].is = "entry" /\ s1' = s1
    BY <1>4, <2>1 DEF Store!Inv, Store!Reading, Store!RemovePromoted, Call
  <2> QED
    BY <1>1, <2>1, <2>2
<1>5. CASE Store!Clean("caller")
  BY <1>1, <1>5 DEF Store!Clean, Call
<1>6. CASE Store!Write("caller")
  BY <1>1, <1>6 DEF Store!Write, Store!Inv, Store!Saving, Call
<1>7. CASE Store!RemoveFiles("caller") \/ Store!RemoveDir("caller")
  BY <1>1, <1>7 DEF Store!RemoveFiles, Store!RemoveDir, Call
<1>8. CASE Store!Loaded("caller") \/ Store!Change("caller") \/ Store!SaveBegins("caller")
           \/ Store!Cleaned("caller") \/ Store!Saved("caller")
  BY <1>2, <1>8 DEF Store!Loaded, Store!Change, Store!SaveBegins, Store!Cleaned, Store!Saved
<1> QED
  BY <1>2, <1>3, <1>4, <1>5, <1>6, <1>7, <1>8 DEF Store!Next, Store!Proceed, Store!Begin, Store!Crash, Store!vars

-----------------------------------------------------------------------------
(* The whole: each part keeps its invariant, and leaves the others alone.  *)
VaultInv ==
  /\ part = "store" => Store!Inv
  /\ part = "layout" => Layout!Inv
  /\ part = "pages" => Pages!Inv
  /\ part = "dispatch" => Dispatch!Inv /\ Dispatch!Alone

LEMMA VaultInit == Init => VaultInv
<1> SUFFICES ASSUME Init PROVE VaultInv
  OBVIOUS
<1>1. CASE part = "store" /\ Store!Init
  BY <1>1, VaultAssumption, StoreInit DEF VaultInv
<1>2. CASE part = "layout" /\ Layout!Init
  BY <1>2, VaultAssumption, LayoutInit DEF VaultInv
<1>3. CASE part = "pages" /\ Pages!Init
  BY <1>3, VaultAssumption, PagesInit DEF VaultInv
<1>4. CASE part = "dispatch" /\ Dispatch!Init
  BY <1>4, Dispatch!Beginning, Dispatch!AloneBeginning DEF VaultInv
<1> QED
  BY <1>1, <1>2, <1>3, <1>4 DEF Init

LEMMA VaultStep == VaultInv /\ [Next]_vars => VaultInv'
<1> SUFFICES ASSUME VaultInv, [Next]_vars PROVE VaultInv'
  OBVIOUS
<1>1. CASE DoStore
  BY <1>1, VaultAssumption, StoreStep DEF DoStore, VaultInv
<1>2. CASE DoLayout
  BY <1>2, VaultAssumption, LayoutStep DEF DoLayout, VaultInv
<1>3. CASE DoPages
  BY <1>3, VaultAssumption, PagesStep DEF DoPages, VaultInv
<1>4. CASE DoDispatch
  BY <1>4, VaultAssumption, Dispatch!Step, Dispatch!AloneStep DEF DoDispatch, VaultInv
<1>5. CASE UNCHANGED vars
  <2>1. part' = part
    BY <1>5 DEF vars
  <2>2. UNCHANGED Store!vars /\ UNCHANGED Layout!vars /\ UNCHANGED Pages!vars /\ UNCHANGED Dispatch!vars
    BY <1>5 DEF vars, Idle8, Idle9, Idle10, Idle11, Idle12, Idle13, Idle14, Idle15, Idle16,
                Store!vars, Layout!vars, Layout!disk, Pages!vars, Dispatch!vars
  <2>3. part = "store" => Store!Inv'
    BY <2>2, VaultAssumption, StoreStep DEF VaultInv
  <2>4. part = "layout" => Layout!Inv'
    BY <2>2, VaultAssumption, LayoutStep DEF VaultInv
  <2>5. part = "pages" => Pages!Inv'
    BY <2>2, VaultAssumption, PagesStep DEF VaultInv
  <2>6. part = "dispatch" => Dispatch!Inv' /\ Dispatch!Alone'
    BY <2>2, VaultAssumption, Dispatch!Step, Dispatch!AloneStep DEF VaultInv
  <2> QED
    BY <2>1, <2>3, <2>4, <2>5, <2>6 DEF VaultInv
<1> QED
  BY <1>1, <1>2, <1>3, <1>4, <1>5 DEF Next

(* The registry of the domains (DomainStore.load, save and what calls them): a change  *)
(* whose caller was told that it is done is in the files for good, and what a caller   *)
(* changes is what the files say, or the old registry no save has replaced yet, but    *)
(* for a copy an interrupted write left; for any number of domains and of calls one    *)
(* after the other, wherever one fails or the application is closed.                   *)
THEOREM RegistrySafe == Spec => []RegistryKept
<1>1. VaultInv => RegistryKept
  BY StoreSays DEF VaultInv, RegistryKept
<1> QED
  BY <1>1, VaultInit, VaultStep, PTL DEF Spec

(* The migrations of the stored files and of the pages: after any crash or failure every *)
(* file and every record is in its place or in a backup, and every edge is in its page,  *)
(* except those that only a change history named, for any vault.                         *)
THEOREM MigrationsSafe == Spec => []MigrationLosesNothing
<1>1. VaultInv => MigrationLosesNothing
  BY VaultAssumption, LayoutSays, PagesSays DEF VaultInv, MigrationLosesNothing
<1> QED
  BY <1>1, VaultInit, VaultStep, PTL DEF Spec

(* The controller of the runs, for any number of runs and events, with one click at a *)
(* time: a cancelled run is the one shown, the history is true, the graph is fresh.   *)
THEOREM DispatchSafe == Spec => []RunsTrue
<1>1. VaultInv => RunsTrue
  BY Dispatch!Says, Dispatch!AloneSays DEF VaultInv, RunsTrue
<1> QED
  BY <1>1, VaultInit, VaultStep, PTL DEF Spec

(* What is corrupt is left to be inspected, and a run that is recorded is the newest entry *)
(* of a history within its limit.                                                          *)
THEOREM InspectionSafe == Spec => KeptForInspection
<1>1. VaultInv /\ [Next]_vars => [/\ part = "store" => Store!CorruptKept
                                  /\ part = "dispatch" => Dispatch!HistoryNewest]_vars
  <2> SUFFICES ASSUME VaultInv, Next
               PROVE  /\ part = "store" => Store!CorruptKept
                      /\ part = "dispatch" => Dispatch!HistoryNewest
    OBVIOUS
  <2>1. CASE DoStore
    BY <2>1, VaultAssumption, StoreCorrupt DEF DoStore, VaultInv
  <2>2. CASE DoDispatch
    BY <2>2, VaultAssumption, Dispatch!Recording DEF DoDispatch, VaultInv
  <2> QED
    BY <2>1, <2>2 DEF Next, DoLayout, DoPages
<1> QED
  BY <1>1, VaultInit, VaultStep, PTL DEF Spec, KeptForInspection
=============================================================================
