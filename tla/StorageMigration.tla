--------------------------- MODULE StorageMigration ---------------------------
(***************************************************************************)
(* What the plugin does to older vaults when it is loaded: the move of the *)
(* service files from .config to _config (runStorageMigration), the        *)
(* conversion of the registry and of the folders' files to JSONL           *)
(* (migrateJsonlDomainStorage), then the load of the domains and a session *)
(* that changes them.  Every write or removal is a step of its own; a call *)
(* may throw (onload reports it and goes on) and the application may be    *)
(* closed between any two. A record is how often the user changed it and   *)
(* how it names its sources; registries that are not JSON and the          *)
(* developer's logs are left out.                                          *)
(***************************************************************************)
EXTENDS Naturals, Sequences, FiniteSets

CONSTANTS
  N,          \* bound: domains 1..N, all of them in the registry
  Layouts,    \* whether the vault may still have the .config layout, the later one, or either
  MaxCrashes, \* bound: how often the application is closed in a migration
  MaxFaults,  \* bound: calls of the adapter that throw
  MaxEdits    \* bound: changes the user makes

MigrationAssumption ==
  /\ N \in Nat \ {0} /\ Layouts \subseteq {"dotted", "plain"}
  /\ MaxCrashes \in Nat /\ MaxFaults \in Nat /\ MaxEdits \in Nat

VARIABLES
  oldReg, oldFiles, \* .config/_domain.json and the .config files of each domain
  reg, files,       \* _config/_domain.json and the _config files of each domain
  meta, index, log, \* metadata.jsonl, index.jsonl and log.jsonl of each domain
  pend, backed,     \* copies of the backup being made, and of those with a manifest
  at, todo, held,   \* where the load is, the calls ahead of it there, the parsed registry
  crashes, faults, edits,
  had               \* ghost: the service files the vault had at first

disk == <<oldReg, oldFiles, reg, files, meta, index, log, pend, backed>>
vars == <<disk, at, todo, held, crashes, faults, edits, had>>

Domains == 1..N
Kinds == {"index", "log", "emb"}
Record(mark, sources) == [mark |-> mark, sources |-> sources]
Records == [mark : 0..MaxEdits, sources : {"paths", "list", "numbers"}]
None == Record(0, "none")
NoReg == [d \in {} |-> None]

Init ==
  /\ \E layout \in Layouts, r \in [Domains -> {Record(0, "paths"), Record(0, "list")}] :
       IF layout = "dotted"
       THEN /\ oldReg = r /\ reg = NoReg /\ had \in [Domains -> SUBSET {"index", "log"}]
            /\ oldFiles = had /\ files = [d \in Domains |-> {}]
       ELSE /\ reg = r /\ oldReg = NoReg /\ had \in [Domains -> SUBSET Kinds]
            /\ files = had /\ oldFiles = [d \in Domains |-> {}]
  /\ meta = [d \in Domains |-> None]
  /\ index = [d \in Domains |-> FALSE]
  /\ log = [d \in Domains |-> <<>>]
  /\ pend = {} /\ backed = {}
  /\ at = "off" /\ todo = {} /\ held = NoReg
  /\ crashes = 0 /\ faults = 0 /\ edits = 0

-----------------------------------------------------------------------------
(* A call is <<d, i>>, the i-th for domain d at this place of the code, or *)
(* <<0, 1>>, the one for the registry; they are made domain by domain.     *)
Kind(i) == IF i = 1 THEN "index" ELSE IF i = 2 THEN "log" ELSE "emb"
File(d, i) == IF d = 0 THEN <<0, "reg">> ELSE <<d, Kind(i)>>
LegacyPaths(r) == {<<0, 1>>} \cup ((DOMAIN r) \X (1..3))
First(d, i) ==
  /\ <<d, i>> \in todo
  /\ \A c \in todo : d < c[1] \/ (d = c[1] /\ i <= c[2])

(* The metadata of a record of the registry: Object.entries of a list of   *)
(* sources has their numbers for paths.                                    *)
Converted(r) == Record(r.mark, IF r.sources = "list" THEN "numbers" ELSE r.sources)

(* A mutated form: the embeddings are not part of the backup.              *)
PresentTexts(d, i) == IF d = 0 THEN reg # NoReg ELSE Kind(i) \in files[d] \ {"emb"}
Present(d, i) == IF d = 0 THEN reg # NoReg ELSE Kind(i) \in files[d]

Goes(where, ahead) == at' = where /\ todo' = ahead
(* The call is made; after the last the code is at the place next.         *)
Done(d, i, next) == Goes(IF todo = {<<d, i>>} THEN next ELSE at, todo \ {<<d, i>>})
Session == UNCHANGED <<crashes, faults, edits, had>>

Launch == at = "off" /\ Goes("old", {}) /\ held' = NoReg /\ pend' = {}
  /\ UNCHANGED <<oldReg, oldFiles, reg, files, meta, index, log, backed>> /\ Session

(* runStorageMigration: nothing to move, the conflict that it throws, or the *)
(* copy of the registry.                                                     *)
OldCheck ==
  /\ at = "old"
  /\ \/ oldReg = NoReg /\ Goes("detect", {}) /\ UNCHANGED disk
     \/ oldReg # NoReg /\ reg # NoReg /\ Goes("load", {}) /\ UNCHANGED disk
     \/ /\ oldReg # NoReg /\ reg = NoReg
        /\ reg' = oldReg /\ Goes("move", (DOMAIN oldReg) \X (1..4))
        /\ UNCHANGED <<oldReg, oldFiles, files, meta, index, log, pend, backed>>
  /\ UNCHANGED held /\ Session

(* A domain's index and log are copied, then removed; a file that is not there *)
(* is passed over.  At last the registry is removed.                           *)
Move ==
  /\ at = "move"
  /\ \E d \in Domains, i \in 1..4 :
       /\ First(d, i) /\ Done(d, i, "dropReg")
       /\ \/ i <= 2 /\ UNCHANGED oldFiles
             /\ files' = IF Kind(i) \in oldFiles[d] THEN [files EXCEPT ![d] = @ \cup {Kind(i)}] ELSE files
          \/ i > 2 /\ oldFiles' = [oldFiles EXCEPT ![d] = @ \ {Kind(i - 2)}] /\ UNCHANGED files
  /\ UNCHANGED <<oldReg, reg, meta, index, log, pend, backed, held>> /\ Session

DropReg ==
  /\ at = "dropReg" /\ oldReg' = NoReg /\ Goes("detect", {})
  /\ UNCHANGED <<oldFiles, reg, files, meta, index, log, pend, backed, held>> /\ Session

(* detectLegacyJsonlStorageState and the parse of the registry             *)
Detect ==
  /\ at = "detect"
  /\ \/ reg = NoReg /\ Goes("load", {}) /\ UNCHANGED held \* nothing to do, or the registry is missing
     \/ reg # NoReg /\ Goes("back", LegacyPaths(reg)) /\ held' = reg
  /\ UNCHANGED disk /\ Session

(* copyBackup: what is there is copied, then the manifest is written.      *)
Back ==
  /\ at = "back"
  /\ \E d \in 0..N, i \in 1..3 :
       /\ First(d, i) /\ Done(d, i, "manifest")
       /\ pend' = IF Present(d, i) THEN pend \cup {File(d, i)} ELSE pend
  /\ UNCHANGED <<oldReg, oldFiles, reg, files, meta, index, log, backed, held>> /\ Session

Manifest ==
  /\ at = "manifest" /\ backed' = backed \cup pend
  /\ IF pend = {} THEN Goes("load", {}) ELSE Goes("convert", (DOMAIN held) \X (1..3))
  /\ UNCHANGED <<oldReg, oldFiles, reg, files, meta, index, log, pend, held>> /\ Session

(* Each domain's metadata, index and log are written in the new form.      *)
Convert ==
  /\ at = "convert"
  /\ \E d \in Domains, i \in 1..3 :
       /\ First(d, i) /\ Done(d, i, "verify")
       /\ meta' = IF i = 1 THEN [meta EXCEPT ![d] = Converted(held[d])] ELSE meta
       /\ index' = IF i = 2 THEN [index EXCEPT ![d] = TRUE] ELSE index
       /\ log' = IF i = 3 THEN [log EXCEPT ![d] = IF "log" \in files[d] THEN <<0>> ELSE <<>>] ELSE log
  /\ UNCHANGED <<oldReg, oldFiles, reg, files, pend, backed, held>> /\ Session

Verify ==
  /\ at = "verify"
  /\ IF \A d \in DOMAIN held : meta[d] # None /\ index[d] THEN Goes("unlink", LegacyPaths(held)) ELSE Goes("load", {})
  /\ UNCHANGED <<disk, held>> /\ Session

(* The registry is the first file that goes.                               *)
Unlink ==
  /\ at = "unlink"
  /\ \E d \in 0..N, i \in 1..3 :
       /\ First(d, i) /\ Done(d, i, "load")
       /\ reg' = IF d = 0 THEN NoReg ELSE reg
       /\ files' = IF d = 0 THEN files ELSE [files EXCEPT ![d] = @ \ {Kind(i)}]
  /\ UNCHANGED <<oldReg, oldFiles, meta, index, log, pend, backed, held>> /\ Session

(* onload reports a migration that throws and goes on.                     *)
Migrating == {"old", "move", "dropReg", "detect", "back", "manifest", "convert", "verify", "unlink"}
Throws ==
  /\ at \in Migrating /\ faults < MaxFaults /\ faults' = faults + 1
  /\ Goes("load", {}) /\ UNCHANGED <<disk, held, crashes, edits, had>>

-----------------------------------------------------------------------------
(* DomainStore.load: the folders' metadata, or the registry when there is  *)
(* none; lists of sources are converted (migrateDomainsV3) and then saved. *)
Stored == {d \in Domains : meta[d] # None}
List == IF Stored # {} THEN [d \in Stored |-> meta[d]]
        ELSE [d \in DOMAIN reg |-> Record(reg[d].mark, "paths")]

(* DomainStore.save, as one step: the module DomainStore has its steps.    *)
Save(list) ==
  /\ reg' = NoReg
  /\ meta' = [d \in Domains |-> IF d \in DOMAIN list THEN list[d] ELSE meta[d]]

Load ==
  /\ at = "load" /\ Goes("running", {})
  /\ IF Stored = {} /\ \E d \in DOMAIN reg : reg[d].sources = "list" THEN Save(List) ELSE UNCHANGED <<reg, meta>>
  /\ UNCHANGED <<oldReg, oldFiles, files, index, log, pend, backed, held>> /\ Session

Edits == edits < MaxEdits /\ edits' = edits + 1 /\ UNCHANGED <<crashes, faults, had, at, todo, held>>

(* A change of a domain's record that saves the list                       *)
Edit(d) ==
  /\ at = "running" /\ d \in DOMAIN List /\ Edits
  /\ Save([List EXCEPT ![d].mark = edits + 1])
  /\ UNCHANGED <<oldReg, oldFiles, files, index, log, pend, backed>>

(* An ingest in the domain appends to its log.                             *)
Logged(d) ==
  /\ at = "running" /\ d \in DOMAIN List /\ Edits
  /\ log' = [log EXCEPT ![d] = Append(@, edits + 1)]
  /\ index' = [index EXCEPT ![d] = TRUE]
  /\ UNCHANGED <<oldReg, oldFiles, reg, files, meta, pend, backed>>

Quit == at = "running" /\ Goes("off", {}) /\ UNCHANGED <<disk, held>> /\ Session

Crash ==
  /\ at \in Migrating \cup {"load"} /\ crashes < MaxCrashes /\ crashes' = crashes + 1
  /\ Goes("off", {}) /\ UNCHANGED <<disk, held, faults, edits, had>>

Migration ==
  \/ Launch \/ OldCheck \/ Move \/ DropReg \/ Detect \/ Back \/ Manifest \/ Convert \/ Verify \/ Unlink \/ Load
Next == Migration \/ Throws \/ Crash \/ Quit \/ \E d \in Domains : Edit(d) \/ Logged(d)

(* The application is opened again, and a migration goes on while it is open. *)
Spec == Init /\ [][Next]_vars /\ WF_vars(Migration)

-----------------------------------------------------------------------------
TypeOK ==
  /\ \A r \in {oldReg, reg, held} : DOMAIN r \subseteq Domains /\ \A d \in DOMAIN r : r[d] \in Records
  /\ oldFiles \in [Domains -> SUBSET Kinds] /\ files \in [Domains -> SUBSET Kinds]
  /\ meta \in [Domains -> Records \cup {None}] /\ index \in [Domains -> BOOLEAN]
  /\ log \in [Domains -> Seq(0..MaxEdits)]
  /\ at \in Migrating \cup {"off", "load", "running"} /\ todo \subseteq (0..N) \X (1..4)

(* Wherever the application was closed or a call failed: a service file of the *)
(* old layouts is in its place, in the next layout, or in a backup that has a  *)
(* manifest.                                                                   *)
GoneIsBackedUp ==
  \A d \in Domains : \A k \in had[d] : k \in oldFiles[d] \cup files[d] \/ <<d, k>> \in backed

(* The record of every domain is in a registry, in the domain's metadata, or *)
(* in a backup of the registry.                                              *)
RecordsKept ==
  \A d \in Domains : d \in DOMAIN oldReg \cup DOMAIN reg \cup Stored \/ <<0, "reg">> \in backed

(* Closed once in a migration, the vault is converted by a later load: every *)
(* domain has its own metadata for good.                                     *)
Pending == \E d \in Domains : meta[d] = None

-----------------------------------------------------------------------------
(* The inductive invariant.  A registry names every domain or none, and once *)
(* a domain has metadata all have, or the registry is in a backup.           *)
Registries == {NoReg} \cup [Domains -> Records]
Paths == (0..N) \X (1..4)

OnDisk ==
  /\ oldReg \in Registries /\ reg \in Registries /\ held \in Registries
  /\ oldFiles \in [Domains -> SUBSET Kinds] /\ files \in [Domains -> SUBSET Kinds]
  /\ meta \in [Domains -> Records \cup {None}] /\ index \in [Domains -> BOOLEAN]
  /\ log \in [Domains -> Seq(0..MaxEdits)] /\ had \in [Domains -> SUBSET Kinds]
  /\ edits \in 0..MaxEdits

Control == at \in Migrating \cup {"off", "load", "running"} /\ todo \subseteq Paths

AllStored == Stored = {} \/ Stored = Domains \/ <<0, "reg">> \in backed

(* The registry was copied, and of a domain the files whose call is made.  *)
Moving ==
  /\ at \in {"move", "dropReg"} => reg # NoReg
  /\ at = "move" =>
       /\ todo \subseteq Domains \X (1..4)
       /\ \A d \in Domains, i \in 1..2 :
            <<d, i>> \notin todo /\ Kind(i) \in oldFiles[d] => Kind(i) \in files[d]

(* The backup has what is there and whose call is made; at last it has a   *)
(* manifest and all that is going to be unlinked.                          *)
BackingUp ==
  /\ at \in {"back", "manifest", "convert", "verify", "unlink"} => held # NoReg
  /\ at \in {"back", "manifest", "convert", "verify"} => reg # NoReg
  /\ at = "back" => todo \subseteq LegacyPaths(held)
  /\ at = "convert" => todo \subseteq Domains \X (1..3)
  /\ at \in {"back", "manifest"} =>
       /\ (at = "back" /\ <<0, 1>> \in todo) \/ <<0, "reg">> \in pend
       /\ \A d \in Domains, i \in 1..3 :
            Kind(i) \in files[d] => (at = "back" /\ <<d, i>> \in todo) \/ <<d, Kind(i)>> \in pend
  /\ at \in {"convert", "verify", "unlink"} =>
       /\ <<0, "reg">> \in backed
       /\ \A d \in Domains, i \in 1..3 : Kind(i) \in files[d] => <<d, Kind(i)>> \in backed

Inv == OnDisk /\ Control /\ AllStored /\ Moving /\ BackingUp /\ GoneIsBackedUp /\ RecordsKept

=============================================================================
