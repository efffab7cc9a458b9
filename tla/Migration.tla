----------------------------- MODULE Migration ------------------------------
(***************************************************************************)
(* The import of a legacy run: runtime/migrations.py.                      *)
(*                                                                         *)
(* A migrator reads the files of a legacy directory one after another,     *)
(* while somebody may still edit them, keeps what it read as a verified    *)
(* backup, and imports it in one transaction as a run that is read-only    *)
(* and never deliverable.  Migrators race, and end at any step.            *)
(*                                                                         *)
(* A file holds one of a few versions.  A snapshot is told apart from      *)
(* another by its content, as by its digest.  The file Declaring says, for *)
(* some files, which version they must have (manifest.artifact_hashes).    *)
(***************************************************************************)
EXTENDS Naturals, FiniteSets

CONSTANTS
    Migrators,
    LegacyFiles,
    Versions,      \* what a file may hold
    Declaring,     \* manifest.json of the legacy run
    Declared       \* version of Declaring -> the versions it asks of other files

ASSUME MigrationConstants ==
    /\ Declaring \in LegacyFiles
    /\ \A v \in Versions : DOMAIN Declared[v] \subseteq LegacyFiles \ {Declaring}

VARIABLES
    source,      \* the files of the legacy directory
    migrator,    \* where each migrator is, and what it read
    backup,      \* the snapshots under .legacy-backups
    runRow,      \* the snapshots that the row of the run was made from
    leftovers    \* the run directory holds files of nobody's transaction

migrationVars == <<source, migrator, backup, runRow, leftovers>>

Snapshot == [LegacyFiles -> Versions]
NothingRead == [f \in {} |-> f]

MigrationInit ==
    /\ source \in Snapshot
    /\ migrator = [k \in Migrators |-> [at |-> "reading", files |-> NothingRead]]
    /\ backup = {} /\ runRow = {}
    /\ leftovers \in BOOLEAN

Move(k, at, files) == migrator' = [migrator EXCEPT ![k] = [at |-> at, files |-> files]]

EditSource(f, v) ==
    /\ source' = [source EXCEPT ![f] = v]
    /\ UNCHANGED <<migrator, backup, runRow, leftovers>>

ReadFile(k, f) ==
    LET files == migrator[k].files IN
    /\ migrator[k].at = "reading"
    /\ f \notin DOMAIN files
    /\ Move(k, "reading", [g \in DOMAIN files \cup {f} |->
                              IF g = f THEN source[f] ELSE files[g]])
    /\ UNCHANGED <<source, backup, runRow, leftovers>>

AnyContent(files) == TRUE

(* What the legacy manifest says of its files is what was read of them.    *)
Consistent(files) ==
    \A f \in DOMAIN Declared[files[Declaring]] : files[f] = Declared[files[Declaring]][f]

EndSnapshot(k) ==
    LET files == migrator[k].files IN
    /\ migrator[k].at = "reading" /\ DOMAIN files = LegacyFiles
    /\ Move(k, IF Consistent(files) THEN "read" ELSE "ended", files)
    /\ UNCHANGED <<source, backup, runRow, leftovers>>

(* Written aside, read again, and renamed; an existing one is compared.    *)
Backup(k) ==
    /\ migrator[k].at = "read"
    /\ backup' = backup \cup {migrator[k].files}
    /\ Move(k, "kept", migrator[k].files)
    /\ UNCHANGED <<source, runRow, leftovers>>

(* The run exists from this snapshot already, or is created, or refused.   *)
Import(k) ==
    /\ migrator[k].at = "kept"
    /\ runRow' = IF runRow = {} /\ ~leftovers THEN {migrator[k].files} ELSE runRow
    /\ Move(k, "ended", migrator[k].files)
    /\ UNCHANGED <<source, backup, leftovers>>

(* The process ends; the command may be given again.                       *)
Restart(k) ==
    /\ migrator[k].files # NothingRead
    /\ Move(k, "reading", NothingRead)
    /\ UNCHANGED <<source, backup, runRow, leftovers>>

MigrationNext ==
    \/ \E f \in LegacyFiles, v \in Versions : EditSource(f, v)
    \/ \E k \in Migrators :
        \/ \E f \in LegacyFiles : ReadFile(k, f)
        \/ EndSnapshot(k)
        \/ Backup(k)
        \/ Import(k)
        \/ Restart(k)

MigrationSpec == MigrationInit /\ [][MigrationNext]_migrationVars

-----------------------------------------------------------------------------
(* There is one import of a run for good; what it holds has a verified     *)
(* backup, whoever crashed on the way, and agrees with the hashes that the *)
(* legacy manifest in it declares, although the files changed meanwhile.   *)
ImportedIsBackedUp ==
    /\ Cardinality(runRow) <= 1
    /\ runRow \subseteq backup
    /\ \A files \in runRow :
        \E v \in Versions :
            /\ files \in Snapshot /\ files[Declaring] = v
            /\ \A f \in DOMAIN Declared[v] : files[f] = Declared[v][f]

(* Why it holds: what a migrator keeps is whole and agrees with itself,    *)
(* and what it imports is kept.                                            *)
ReadIsWhole ==
    /\ source \in Snapshot /\ DOMAIN migrator = Migrators
    /\ \A k \in Migrators :
        LET files == migrator[k].files IN
        /\ files \in [DOMAIN files -> Versions] /\ DOMAIN files \subseteq LegacyFiles
        /\ migrator[k].at \in {"read", "kept"} => DOMAIN files = LegacyFiles /\ Consistent(files)
        /\ migrator[k].at = "kept" => files \in backup

(* The inductive invariant.                                                *)
MigrationInv == ReadIsWhole /\ ImportedIsBackedUp
=============================================================================
