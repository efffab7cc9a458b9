---------------------------- MODULE RuntimeProofs -----------------------------
(***************************************************************************)
(* Proofs about the components of the runtime that share no state: the     *)
(* locks on resources, the workspaces and blobs, the import of a legacy    *)
(* run, the session registry, and the exports of the database to files.    *)
(***************************************************************************)
EXTENDS Exports, ResourceLocks, Workspaces, Migration, Sessions, FiniteSetTheorems,
        SequenceTheorems, TLAPS

-----------------------------------------------------------------------------
(* Migration.                                                              *)

(* Only a whole snapshot that agrees with itself is kept or imported.      *)
SoundImport(files) == files \in Snapshot /\ Consistent(files)

LEMMA ImportedInParts ==
    ImportedIsBackedUp <=> /\ Cardinality(runRow) <= 1
                           /\ runRow \subseteq backup
                           /\ \A row \in runRow : SoundImport(row)
  <1>1. ASSUME NEW files
        PROVE  (\E v \in Versions : /\ files \in Snapshot /\ files[Declaring] = v
                                    /\ \A f \in DOMAIN Declared[v] : files[f] = Declared[v][f])
               <=> SoundImport(files)
    <2>1. files \in Snapshot => files[Declaring] \in Versions
      BY MigrationConstants DEF Snapshot
    <2> QED
      BY <2>1 DEF SoundImport, Consistent
  <1> QED
    BY <1>1 DEF ImportedIsBackedUp

LEMMA MigrationInitInv == MigrationInit => MigrationInv
  <1> SUFFICES ASSUME MigrationInit PROVE MigrationInv
    OBVIOUS
  <1>1. ReadIsWhole
    BY DEF MigrationInit, ReadIsWhole, NothingRead
  <1>2. Cardinality(runRow) <= 1
    <2>1. Cardinality({}) = 0
      BY FS_EmptySet, Zenon
    <2> QED
      BY <2>1 DEF MigrationInit
  <1>3. ImportedIsBackedUp
    BY <1>2, ImportedInParts DEF MigrationInit
  <1> QED
    BY <1>1, <1>3 DEF MigrationInv

(* A step of one migrator k that imports nothing: it is whole after it.    *)
LEMMA MoveKeeps ==
    ASSUME MigrationInv, NEW k \in Migrators, NEW at, NEW files, Move(k, at, files),
           UNCHANGED <<source, runRow>>, backup \subseteq backup',
           files \in [DOMAIN files -> Versions], DOMAIN files \subseteq LegacyFiles,
           at \in {"read", "kept"} => DOMAIN files = LegacyFiles /\ Consistent(files),
           at = "kept" => files \in backup'
    PROVE  MigrationInv'
  <1>1. migrator' = [migrator EXCEPT ![k] = [at |-> at, files |-> files]]
        /\ DOMAIN migrator = Migrators
    BY DEF Move, MigrationInv, ReadIsWhole
  <1>2. migrator'[k] = [at |-> at, files |-> files] /\ DOMAIN migrator' = Migrators
        /\ \A j \in Migrators : j # k => migrator'[j] = migrator[j]
    BY <1>1
  <1>3. ReadIsWhole'
    <2> SUFFICES ASSUME NEW j \in Migrators
                 PROVE  LET got == migrator'[j].files IN
                        /\ got \in [DOMAIN got -> Versions] /\ DOMAIN got \subseteq LegacyFiles
                        /\ migrator'[j].at \in {"read", "kept"}
                              => DOMAIN got = LegacyFiles /\ Consistent(got)
                        /\ migrator'[j].at = "kept" => got \in backup'
      BY <1>2 DEF MigrationInv, ReadIsWhole, Consistent
    <2>1. CASE j = k
      BY <1>2, <2>1
    <2>2. CASE j # k
      BY <1>2, <2>2 DEF MigrationInv, ReadIsWhole
    <2> QED
      BY <2>1, <2>2
  <1>4. ImportedIsBackedUp'
    BY DEF MigrationInv, ImportedIsBackedUp, Snapshot
  <1> QED
    BY <1>3, <1>4 DEF MigrationInv

LEMMA MigrationStep == MigrationInv /\ [MigrationNext]_migrationVars => MigrationInv'
  <1> SUFFICES ASSUME MigrationInv, [MigrationNext]_migrationVars PROVE MigrationInv'
    OBVIOUS
  <1>0. /\ source \in Snapshot /\ DOMAIN migrator = Migrators
        /\ \A k \in Migrators : LET files == migrator[k].files IN
           /\ files \in [DOMAIN files -> Versions] /\ DOMAIN files \subseteq LegacyFiles
           /\ migrator[k].at \in {"read", "kept"}
                 => DOMAIN files = LegacyFiles /\ Consistent(files)
           /\ migrator[k].at = "kept" => files \in backup
    BY DEF MigrationInv, ReadIsWhole
  <1>1. CASE UNCHANGED migrationVars
    BY <1>1 DEF migrationVars, MigrationInv, ReadIsWhole, ImportedIsBackedUp, Snapshot, Consistent
  <1>2. ASSUME NEW f \in LegacyFiles, NEW v \in Versions, EditSource(f, v)
        PROVE  MigrationInv'
    <2>1. source' \in Snapshot
      BY <1>0, <1>2 DEF EditSource, Snapshot
    <2> QED
      BY <1>2, <2>1 DEF EditSource, MigrationInv, ReadIsWhole, ImportedIsBackedUp, Consistent, Snapshot
  <1>3. ASSUME NEW k \in Migrators, NEW f \in LegacyFiles, ReadFile(k, f)
        PROVE  MigrationInv'
    <2> DEFINE files == migrator[k].files
               more == [g \in DOMAIN files \cup {f} |-> IF g = f THEN source[f] ELSE files[g]]
    <2>1. Move(k, "reading", more) /\ UNCHANGED <<source, runRow>> /\ backup \subseteq backup'
      BY <1>3 DEF ReadFile
    <2>2. more \in [DOMAIN more -> Versions] /\ DOMAIN more \subseteq LegacyFiles
      BY <1>0 DEF Snapshot
    <2> HIDE DEF more
    <2> QED
      BY <2>1, <2>2, MoveKeeps
  <1>4. ASSUME NEW k \in Migrators, EndSnapshot(k)
        PROVE  MigrationInv'
    <2> DEFINE files == migrator[k].files
               at == IF Consistent(files) THEN "read" ELSE "ended"
    <2>1. Move(k, at, files) /\ UNCHANGED <<source, runRow>> /\ backup \subseteq backup'
          /\ DOMAIN files = LegacyFiles
      BY <1>4 DEF EndSnapshot
    <2>2. (at \in {"read", "kept"} => Consistent(files)) /\ at # "kept"
      OBVIOUS
    <2> HIDE DEF at
    <2> QED
      BY <1>0, <2>1, <2>2, MoveKeeps
  <1>5. ASSUME NEW k \in Migrators, Backup(k)
        PROVE  MigrationInv'
    <2> DEFINE files == migrator[k].files
    <2>1. Move(k, "kept", files) /\ UNCHANGED <<source, runRow>> /\ backup \subseteq backup'
          /\ files \in backup' /\ DOMAIN files = LegacyFiles /\ Consistent(files)
      BY <1>0, <1>5 DEF Backup
    <2> QED
      BY <1>0, <2>1, MoveKeeps
  <1>6. ASSUME NEW k \in Migrators, Import(k)
        PROVE  MigrationInv'
    <2> DEFINE files == migrator[k].files
    <2>1. /\ Move(k, "ended", files) /\ UNCHANGED <<source, backup, leftovers>>
          /\ runRow' \in {runRow, {files}}
      BY <1>6 DEF Import
    <2>2. files \in backup /\ SoundImport(files)
      BY <1>0, <1>6 DEF Import, SoundImport, Snapshot
    <2>3. ReadIsWhole'
      <3>1. migrator' = [migrator EXCEPT ![k] = [at |-> "ended", files |-> files]]
        BY <2>1 DEF Move
      <3>2. migrator'[k] = [at |-> "ended", files |-> files] /\ DOMAIN migrator' = Migrators
            /\ \A j \in Migrators : j # k => migrator'[j] = migrator[j]
        BY <1>0, <3>1
      <3> QED
        BY <1>0, <2>1, <3>2 DEF ReadIsWhole, Consistent, Snapshot
    <2>4. Cardinality(runRow') <= 1
      <3>1. Cardinality({files}) = 1
        BY FS_Singleton, Zenon
      <3> QED
        BY <2>1, <3>1 DEF MigrationInv, ImportedIsBackedUp
    <2>5. runRow' \subseteq backup' /\ \A row \in runRow' : SoundImport(row)
      BY <2>1, <2>2, ImportedInParts DEF MigrationInv
    <2>6. (/\ Cardinality(runRow) <= 1
           /\ runRow \subseteq backup
           /\ \A row \in runRow : SoundImport(row))'
      BY <2>4, <2>5 DEF SoundImport, Snapshot, Consistent
    <2>7. ImportedIsBackedUp'
      BY <2>6, ImportedInParts, PTL
    <2> QED
      BY <2>3, <2>7 DEF MigrationInv
  <1>7. ASSUME NEW k \in Migrators, Restart(k)
        PROVE  MigrationInv'
    <2>1. Move(k, "reading", NothingRead) /\ UNCHANGED <<source, runRow>>
          /\ backup \subseteq backup'
      BY <1>7 DEF Restart
    <2>2. NothingRead \in [DOMAIN NothingRead -> Versions]
          /\ DOMAIN NothingRead \subseteq LegacyFiles
      BY DEF NothingRead
    <2> QED
      BY <2>1, <2>2, MoveKeeps
  <1> QED
    BY <1>1, <1>2, <1>3, <1>4, <1>5, <1>6, <1>7 DEF MigrationNext

(* Whatever the migrators read, whoever edits meanwhile and whoever dies:  *)
(* the one import of a run has a backup and agrees with its manifest.      *)
THEOREM ImportsAreBackedUp == MigrationSpec => []ImportedIsBackedUp
  <1>1. MigrationInv => ImportedIsBackedUp
    BY DEF MigrationInv
  <1> QED
    BY <1>1, MigrationInitInv, MigrationStep, PTL DEF MigrationSpec

-----------------------------------------------------------------------------
(* Locks.                                                                  *)

(* A token of the current fence is the owner's, and no other's.            *)
FencesOK ==
    \A b \in bindings : \A c \in bindings :
        b.resource = c.resource =>
            /\ b.fence = c.fence => b = c
            /\ b.fence < c.fence => ~Passes(b)

WithinLease ==
    \A r \in Names :
        lock[r].owner # Unowned /\ Live(lock[r].owner)
            => lock[r].until <= holder[lock[r].owner].until

OneEach ==
    \A b \in bindings : \A c \in bindings :
        b.resource = c.resource /\ b.fence = c.fence => b = c

LEMMA FencedInParts == LocksFenced <=> LockTypeOK /\ FencesOK /\ WithinLease
  BY DEF LocksFenced, FencesOK, WithinLease

(* A fence that was followed by another is not the current one.            *)
LEMMA OldFencesRefused ==
    ASSUME LockTypeOK, FenceIsLast, OneEach
    PROVE  FencesOK
  <1> SUFFICES ASSUME NEW b \in bindings, NEW c \in bindings, b.resource = c.resource,
                      b.fence < c.fence, Passes(b)
               PROVE  FALSE
    BY DEF FencesOK, OneEach
  <1>1. /\ c.fence <= lock[c.resource].fence /\ b.fence = lock[b.resource].fence
        /\ b.fence \in Int /\ c.fence \in Int
    BY LockConstants DEF FenceIsLast, Passes, LockTypeOK
  <1> QED
    BY <1>1

LEMMA LockInvInParts ==
    LockInv <=> LockTypeOK /\ OneEach /\ WithinLease /\ FenceIsLast
  BY FencedInParts, OldFencesRefused DEF LockInv, FencesOK, OneEach

LEMMA LockInitInv == LockInit => LockInv
  <1> SUFFICES ASSUME LockInit PROVE LockInv
    OBVIOUS
  <1>1. LockTypeOK
    BY LockConstants DEF LockInit, LockTypeOK, Least, Names
  <1>2. OneEach /\ WithinLease /\ FenceIsLast
    BY DEF LockInit, OneEach, WithinLease, FenceIsLast, Names
  <1> QED
    BY <1>1, <1>2, LockInvInParts

(* Steps of the leases: what a lease may do while the locks stay.          *)
LEMMA HolderKeeps ==
    ASSUME LockInv, UNCHANGED <<lock, bindings>>,
           holder' \in [LockAttempts -> [status : {"new", "live", "over"}, until : Least..TaskTime]],
           \A a \in LockAttempts :
              /\ holder[a].status # "new" => holder'[a].status # "new"
              /\ Live(a)' => \/ Live(a) /\ holder'[a].until >= holder[a].until
                             \/ holder[a].status = "new"
    PROVE  LockInv'
  <1>1. LockTypeOK /\ OneEach /\ WithinLease /\ FenceIsLast
    BY LockInvInParts
  <1>2. LockTypeOK'
    BY <1>1 DEF LockTypeOK
  <1>3. OneEach'
    BY <1>1 DEF OneEach
  <1>4. FenceIsLast'
    BY <1>1 DEF FenceIsLast, LockTypeOK
  <1>5. WithinLease'
    <2> SUFFICES ASSUME NEW r \in Names, lock[r].owner # Unowned, Live(lock[r].owner)'
                 PROVE  lock[r].until <= holder'[lock[r].owner].until
      BY DEF WithinLease, Live
    <2>1. lock[r].owner \in LockAttempts /\ lock[r].until \in Int
      BY <1>1 DEF LockTypeOK
    <2>2. Live(lock[r].owner) /\ holder'[lock[r].owner].until >= holder[lock[r].owner].until
      BY <1>1, <2>1 DEF FenceIsLast
    <2>3. lock[r].until <= holder[lock[r].owner].until
      BY <1>1, <2>2 DEF WithinLease
    <2>4. holder[lock[r].owner].until \in Int /\ holder'[lock[r].owner].until \in Int
      BY <1>1, <1>2, <2>1, LockConstants DEF LockTypeOK, Least
    <2> QED
      BY <2>1, <2>2, <2>3, <2>4
  <1> QED
    BY <1>2, <1>3, <1>4, <1>5, LockInvInParts, PTL

LEMMA LeaseSteps ==
    ASSUME LockInv, NEW a \in LockAttempts, BeginAttempt(a) \/ Renew(a) \/ LoseAttempt(a)
    PROVE  LockInv'
  <1>1. holder \in [LockAttempts -> [status : {"new", "live", "over"}, until : Least..TaskTime]]
        /\ TaskTime \in Least..TaskTime /\ Least \in Int /\ TaskTime \in Int
    BY LockInvInParts, LockConstants DEF LockTypeOK, Least
  <1>2. holder' \in [LockAttempts -> [status : {"new", "live", "over"}, until : Least..TaskTime]]
    BY <1>1 DEF BeginAttempt, Renew, LoseAttempt, Ended
  <1>3. ASSUME NEW b \in LockAttempts
        PROVE  /\ holder[b].status # "new" => holder'[b].status # "new"
               /\ Live(b)' => \/ Live(b) /\ holder'[b].until >= holder[b].until
                              \/ holder[b].status = "new"
    BY <1>1 DEF BeginAttempt, Renew, LoseAttempt, Ended, Live
  <1>4. UNCHANGED <<lock, bindings>>
    BY DEF BeginAttempt, Renew, LoseAttempt
  <1> QED
    BY <1>2, <1>3, <1>4, HolderKeeps

(* Locks that end earlier are the same locks.                              *)
LEMMA EarlierKeeps ==
    ASSUME LockInv, NEW R \in SUBSET Names,
           lock' = [r \in Names |-> IF r \in R THEN [lock[r] EXCEPT !.until = Least] ELSE lock[r]],
           bindings' = bindings, holder' = holder
    PROVE  LockInv'
  <1>1. LockTypeOK /\ OneEach /\ WithinLease /\ FenceIsLast /\ Least \in Int
    BY LockInvInParts, LockConstants DEF Least
  <1>2. ASSUME NEW r \in Names
        PROVE  /\ lock'[r] \in [owner : LockAttempts \cup {Unowned}, fence : 0..MaxFence, until : Int]
               /\ lock'[r].owner = lock[r].owner /\ lock'[r].fence = lock[r].fence
               /\ lock'[r].until \in {lock[r].until, Least}
    BY <1>1 DEF LockTypeOK
  <1>3. LockTypeOK'
    <2>1. lock' \in [Names -> [owner : LockAttempts \cup {Unowned}, fence : 0..MaxFence, until : Int]]
      BY <1>2
    <2> QED
      BY <1>1, <2>1 DEF LockTypeOK
  <1>4. OneEach'
    BY <1>1 DEF OneEach
  <1>5. FenceIsLast'
    BY <1>1, <1>2 DEF FenceIsLast, LockTypeOK
  <1>6. WithinLease'
    <2> SUFFICES ASSUME NEW r \in Names, lock'[r].owner # Unowned,
                        holder'[lock'[r].owner].status = "live",
                        holder'[lock'[r].owner].until > 0
                 PROVE  lock'[r].until <= holder'[lock'[r].owner].until
      BY DEF WithinLease, Live
    <2>1. lock[r].owner # Unowned /\ Live(lock[r].owner) /\ lock[r].owner \in LockAttempts
      BY <1>1, <1>2 DEF Live, LockTypeOK
    <2>2. lock[r].until <= holder[lock[r].owner].until /\ lock[r].until \in Int
          /\ holder[lock[r].owner].until \in Least..TaskTime
      BY <1>1, <2>1 DEF WithinLease, LockTypeOK
    <2> QED
      BY <1>1, <1>2, <2>2, LockConstants
  <1> QED
    BY <1>3, <1>4, <1>5, <1>6, LockInvInParts, PTL

LEMMA ReleaseStep ==
    ASSUME LockInv, NEW a \in LockAttempts, NEW B \in SUBSET bindings, ReleaseLocks(a, B)
    PROVE  LockInv'
  <1> DEFINE R == {r \in Names : \E b \in B : b.resource = r}
  <1>1. lock' = [r \in Names |-> IF r \in R THEN [lock[r] EXCEPT !.until = Least] ELSE lock[r]]
    BY DEF ReleaseLocks
  <1> QED
    BY <1>1, EarlierKeeps DEF ReleaseLocks

LEMMA FinishStep ==
    ASSUME LockInv, NEW a \in LockAttempts, FinishAttempt(a)
    PROVE  LockInv'
  <1>1. LockTypeOK /\ OneEach /\ WithinLease /\ FenceIsLast /\ Least \in Int
    BY LockInvInParts, LockConstants DEF Least
  <1>2. /\ holder' = [holder EXCEPT ![a].status = "over"]
        /\ lock' = [r \in Names |->
               IF lock[r].owner = a THEN [lock[r] EXCEPT !.until = Least] ELSE lock[r]]
        /\ UNCHANGED bindings
    BY DEF FinishAttempt, Ended
  <1>3. ASSUME NEW r \in Names
        PROVE  /\ lock'[r] \in [owner : LockAttempts \cup {Unowned}, fence : 0..MaxFence, until : Int]
               /\ lock'[r].owner = lock[r].owner /\ lock'[r].fence = lock[r].fence
               /\ lock[r].owner # a => lock'[r] = lock[r]
    BY <1>1, <1>2 DEF LockTypeOK
  <1>4. LockTypeOK'
    <2>1. lock' \in [Names -> [owner : LockAttempts \cup {Unowned}, fence : 0..MaxFence, until : Int]]
      BY <1>2, <1>3
    <2> QED
      BY <1>1, <1>2, <2>1 DEF LockTypeOK
  <1>5. OneEach'
    BY <1>1, <1>2 DEF OneEach
  <1>6. FenceIsLast'
    BY <1>1, <1>2, <1>3 DEF FenceIsLast, LockTypeOK
  <1>7. WithinLease'
    <2> SUFFICES ASSUME NEW r \in Names, lock'[r].owner # Unowned,
                        holder'[lock'[r].owner].status = "live",
                        holder'[lock'[r].owner].until > 0
                 PROVE  lock'[r].until <= holder'[lock'[r].owner].until
      BY DEF WithinLease, Live
    <2>1. lock'[r].owner \in LockAttempts
      BY <1>4 DEF LockTypeOK
    <2>2. lock'[r].owner # a
      BY <1>1, <1>2, <2>1 DEF Live, LockTypeOK
    <2>3. lock'[r] = lock[r] /\ holder'[lock[r].owner] = holder[lock[r].owner]
      BY <1>1, <1>2, <1>3, <2>1, <2>2 DEF LockTypeOK
    <2> QED
      BY <1>1, <2>3 DEF WithinLease, Live
  <1> QED
    BY <1>4, <1>5, <1>6, <1>7, LockInvInParts, PTL

LEMMA AcquireStep ==
    ASSUME LockInv, NEW a \in LockAttempts, NEW wanted \in SUBSET Names, NEW late \in 0..WaitTime,
           AcquireLocks(a, wanted, late)
    PROVE  LockInv'
  <1> DEFINE held == Held(a, late)
             token(r) == [attempt |-> a, resource |-> r, fence |-> NextFence(r, held)]
  <1>1. LockTypeOK /\ OneEach /\ WithinLease /\ FenceIsLast /\ Least \in Int
    BY LockInvInParts, LockConstants DEF Least
  <1>2. /\ Live(a) /\ holder' = holder
        /\ \A r \in wanted : ~Busy(a, r, late) /\ NextFence(r, held) <= MaxFence
        /\ lock' = [r \in Names |->
               IF r \in wanted
               THEN [owner |-> a, fence |-> NextFence(r, held), until |-> Expiry(a, late)]
               ELSE lock[r]]
        /\ bindings' = bindings \cup {token(r) : r \in wanted}
    BY DEF AcquireLocks
  <1>3. Expiry(a, late) \in Int /\ Expiry(a, late) <= holder[a].until
    <2>1. holder[a].until \in Int /\ LockTime - late \in Int
      BY <1>1, LockConstants DEF LockTypeOK
    <2> QED
      BY <2>1 DEF Expiry, Earlier
  <1>4. ASSUME NEW r \in wanted
        PROVE  /\ NextFence(r, held) \in 1..MaxFence /\ lock[r].fence <= NextFence(r, held)
               /\ lock[r].fence \in Int
               /\ NextFence(r, held) = lock[r].fence => lock[r].owner = a
    <2>1. lock[r].fence \in 0..MaxFence /\ MaxFence \in Int
      BY <1>1, LockConstants DEF LockTypeOK
    <2>2. r \in held => lock[r].owner = a /\ lock[r].fence > 0
      BY <1>1, LockConstants DEF Held, FenceIsLast
    <2>3. NextFence(r, held) <= MaxFence
      BY <1>2
    <2> QED
      BY <2>1, <2>2, <2>3 DEF NextFence
  <1> HIDE DEF held
  <1>5. ASSUME NEW r \in Names
        PROVE  /\ lock'[r] \in [owner : LockAttempts \cup {Unowned}, fence : 0..MaxFence, until : Int]
               /\ r \notin wanted => lock'[r] = lock[r]
               /\ r \in wanted => /\ lock'[r].owner = a /\ lock'[r].fence = NextFence(r, held)
                                  /\ lock'[r].until = Expiry(a, late)
    <2>1. CASE r \in wanted
      BY <1>2, <1>3, <1>4, <2>1
    <2>2. CASE r \notin wanted
      BY <1>1, <1>2, <2>2 DEF LockTypeOK
    <2> QED
      BY <2>1, <2>2
  <1>6. LockTypeOK'
    <2>1. lock' \in [Names -> [owner : LockAttempts \cup {Unowned}, fence : 0..MaxFence, until : Int]]
      BY <1>2, <1>5
    <2>2. bindings' \subseteq [attempt : LockAttempts, resource : Names, fence : 1..MaxFence]
      BY <1>1, <1>2, <1>4 DEF LockTypeOK
    <2> QED
      BY <1>1, <1>2, <2>1, <2>2 DEF LockTypeOK
  <1>7. ASSUME NEW b \in bindings
        PROVE  /\ b \in [attempt : LockAttempts, resource : Names, fence : 1..MaxFence]
               /\ b.fence <= lock'[b.resource].fence
               /\ b.fence = lock'[b.resource].fence => b.attempt = lock'[b.resource].owner
    <2>1. /\ b \in [attempt : LockAttempts, resource : Names, fence : 1..MaxFence]
          /\ b.fence \in Int /\ b.resource \in Names
          /\ b.fence <= lock[b.resource].fence
          /\ b.fence = lock[b.resource].fence => b.attempt = lock[b.resource].owner
      BY <1>1, LockConstants DEF LockTypeOK, FenceIsLast
    <2>2. CASE b.resource \in wanted
      <3>1. /\ lock'[b.resource].owner = a
            /\ lock'[b.resource].fence = NextFence(b.resource, held)
        BY <1>5, <2>2
      <3>2. /\ NextFence(b.resource, held) \in Int /\ lock[b.resource].fence \in Int
            /\ lock[b.resource].fence <= NextFence(b.resource, held)
            /\ NextFence(b.resource, held) = lock[b.resource].fence => lock[b.resource].owner = a
        BY <1>4, <2>2
      <3> QED
        BY <2>1, <3>1, <3>2
    <2>3. CASE b.resource \notin wanted
      BY <1>5, <2>1, <2>3
    <2> QED
      BY <2>1, <2>2, <2>3
  <1>8. FenceIsLast'
    <2>1. ASSUME NEW r \in Names, lock'[r].owner # Unowned
          PROVE  lock'[r].fence > 0 /\ holder'[lock'[r].owner].status # "new"
      BY <1>1, <1>2, <1>4, <1>5, <2>1 DEF FenceIsLast, Live
    <2>2. ASSUME NEW b \in bindings'
          PROVE  /\ b.fence <= lock'[b.resource].fence
                 /\ b.fence = lock'[b.resource].fence => b.attempt = lock'[b.resource].owner
      <3>1. CASE b \in bindings
        BY <1>7, <3>1
      <3>2. CASE \E r \in wanted : b = token(r)
        BY <1>4, <1>5, <3>2
      <3> QED
        BY <1>2, <3>1, <3>2
    <2> QED
      BY <2>1, <2>2 DEF FenceIsLast
  <1>9. OneEach'
    <2> SUFFICES ASSUME NEW b \in bindings', NEW c \in bindings',
                        b.resource = c.resource, b.fence = c.fence
                 PROVE  b = c
      BY DEF OneEach
    <2>1. ASSUME NEW d \in bindings, NEW r \in wanted, d.resource = r,
                 d.fence = NextFence(r, held)
          PROVE  d = token(r)
      <3>1. d.attempt = a
        BY <1>5, <1>7, <2>1
      <3> QED
        BY <1>7, <2>1, <3>1
    <2>2. CASE b \in bindings /\ c \in bindings
      BY <1>1, <2>2 DEF OneEach
    <2>3. CASE b \in bindings /\ \E r \in wanted : c = token(r)
      BY <2>1, <2>3
    <2>4. CASE c \in bindings /\ \E r \in wanted : b = token(r)
      BY <2>1, <2>4
    <2>5. CASE (\E r \in wanted : b = token(r)) /\ \E r \in wanted : c = token(r)
      BY <2>5
    <2> QED
      BY <1>2, <2>2, <2>3, <2>4, <2>5
  <1>10. WithinLease'
    <2> SUFFICES ASSUME NEW r \in Names, lock'[r].owner # Unowned,
                        holder'[lock'[r].owner].status = "live",
                        holder'[lock'[r].owner].until > 0
                 PROVE  lock'[r].until <= holder'[lock'[r].owner].until
      BY DEF WithinLease, Live
    <2>1. CASE r \in wanted
      BY <1>2, <1>3, <1>5, <2>1
    <2>2. CASE r \notin wanted
      BY <1>1, <1>2, <1>5, <2>2 DEF WithinLease, Live
    <2> QED
      BY <2>1, <2>2
  <1> QED
    BY <1>6, <1>8, <1>9, <1>10, LockInvInParts, PTL

LEMMA LockTickStep ==
    ASSUME LockInv, LockTick
    PROVE  LockInv'
  <1> DEFINE Sooner(t) == IF t > Least THEN t - 1 ELSE t
  <1>1. LockTypeOK /\ OneEach /\ WithinLease /\ FenceIsLast /\ Least \in Int /\ TaskTime \in Int
    BY LockInvInParts, LockConstants DEF Least
  <1>2. /\ holder' = [a \in LockAttempts |-> [holder[a] EXCEPT !.until = Sooner(holder[a].until)]]
        /\ lock' = [r \in Names |-> [lock[r] EXCEPT !.until = Sooner(lock[r].until)]]
        /\ UNCHANGED bindings
    BY DEF LockTick
  <1>3. ASSUME NEW t \in Int
        PROVE  /\ Sooner(t) \in Int /\ Sooner(t) <= t
               /\ t \in Least..TaskTime => Sooner(t) \in Least..TaskTime
               /\ \A s \in Int : t <= s /\ Least <= s => Sooner(t) <= Sooner(s)
    BY <1>1
  <1> HIDE DEF Sooner
  <1>4. ASSUME NEW a \in LockAttempts
        PROVE  /\ holder[a].until \in Int /\ holder[a].until \in Least..TaskTime
               /\ holder'[a] \in [status : {"new", "live", "over"}, until : Least..TaskTime]
               /\ holder'[a].status = holder[a].status
               /\ holder'[a].until = Sooner(holder[a].until)
    <2>1. holder[a] \in [status : {"new", "live", "over"}, until : Least..TaskTime]
      BY <1>1 DEF LockTypeOK
    <2>2. holder[a].until \in Int /\ holder[a].until \in Least..TaskTime
      BY <1>1, <2>1
    <2>3. Sooner(holder[a].until) \in Least..TaskTime
      BY <1>3, <2>2
    <2> QED
      BY <1>2, <2>1, <2>2, <2>3
  <1>5. ASSUME NEW r \in Names
        PROVE  /\ lock[r].until \in Int
               /\ lock'[r] \in [owner : LockAttempts \cup {Unowned}, fence : 0..MaxFence, until : Int]
               /\ lock'[r].owner = lock[r].owner /\ lock'[r].fence = lock[r].fence
               /\ lock'[r].until = Sooner(lock[r].until)
    <2>1. lock[r] \in [owner : LockAttempts \cup {Unowned}, fence : 0..MaxFence, until : Int]
      BY <1>1 DEF LockTypeOK
    <2>2. Sooner(lock[r].until) \in Int
      BY <1>3, <2>1
    <2> QED
      BY <1>2, <2>1, <2>2
  <1>6. LockTypeOK'
    <2>1. lock' \in [Names -> [owner : LockAttempts \cup {Unowned}, fence : 0..MaxFence, until : Int]]
      BY <1>2, <1>5
    <2>2. holder' \in [LockAttempts -> [status : {"new", "live", "over"}, until : Least..TaskTime]]
      BY <1>2, <1>4
    <2> QED
      BY <1>1, <1>2, <2>1, <2>2 DEF LockTypeOK
  <1>7. OneEach'
    BY <1>1, <1>2 DEF OneEach
  <1>8. FenceIsLast'
    <2>1. ASSUME NEW r \in Names, lock'[r].owner # Unowned
          PROVE  lock'[r].fence > 0 /\ holder'[lock'[r].owner].status # "new"
      BY <1>1, <1>4, <1>5, <2>1 DEF FenceIsLast, LockTypeOK
    <2>2. ASSUME NEW b \in bindings'
          PROVE  /\ b.fence <= lock'[b.resource].fence
                 /\ b.fence = lock'[b.resource].fence => b.attempt = lock'[b.resource].owner
      <3>1. b \in bindings /\ b.resource \in Names
        BY <1>1, <1>2 DEF LockTypeOK
      <3> QED
        BY <1>1, <1>5, <3>1 DEF FenceIsLast
    <2> QED
      BY <2>1, <2>2 DEF FenceIsLast
  <1>9. WithinLease'
    <2> SUFFICES ASSUME NEW r \in Names, lock'[r].owner # Unowned,
                        holder'[lock'[r].owner].status = "live",
                        holder'[lock'[r].owner].until > 0
                 PROVE  lock'[r].until <= holder'[lock'[r].owner].until
      BY DEF WithinLease, Live
    <2> DEFINE a == lock[r].owner
    <2>1. a \in LockAttempts /\ lock'[r].owner = a
      BY <1>1, <1>5 DEF LockTypeOK
    <2>2. Live(a)
      <3>1. holder'[a].until = Sooner(holder[a].until) /\ holder[a].until \in Int
            /\ holder'[a].status = holder[a].status
        BY <1>4, <2>1
      <3>2. Sooner(holder[a].until) <= holder[a].until /\ Sooner(holder[a].until) \in Int
        BY <1>3, <3>1
      <3> QED
        BY <2>1, <3>1, <3>2 DEF Live
    <2>3. lock[r].until <= holder[a].until
      BY <1>1, <2>1, <2>2 DEF WithinLease
    <2>4. Least <= holder[a].until /\ holder[a].until \in Int /\ lock[r].until \in Int
      BY <1>1, <1>4, <1>5, <2>1
    <2>5. Sooner(lock[r].until) <= Sooner(holder[a].until)
      BY <1>3, <2>3, <2>4
    <2> QED
      BY <1>4, <1>5, <2>1, <2>5
  <1> QED
    BY <1>6, <1>7, <1>8, <1>9, LockInvInParts, PTL

LEMMA LockStep == LockInv /\ [LockNext]_lockVars => LockInv'
  <1> SUFFICES ASSUME LockInv, [LockNext]_lockVars PROVE LockInv'
    OBVIOUS
  <1>1. CASE UNCHANGED lockVars
    BY <1>1 DEF lockVars, LockInv, LocksFenced, LockTypeOK, FenceIsLast, Passes, Live
  <1>2. CASE LockNext
    BY <1>2, LeaseSteps, FinishStep, AcquireStep, ReleaseStep, LockTickStep DEF LockNext
  <1> QED
    BY <1>1, <1>2

(* Any attempts, any sets of resources, any clock that is read before the  *)
(* wait for the database: what was given away is refused for ever.         *)
THEOREM LocksAreFenced == LockSpec => []LocksFenced
  <1>1. LockInv => LocksFenced
    BY DEF LockInv
  <1> QED
    BY <1>1, LockInitInv, LockStep, PTL DEF LockSpec

-----------------------------------------------------------------------------
(* Workspaces.                                                             *)

(* The parts of the types that the steps below speak of.                   *)
WorkRecord == [task : WorkTasks, status : {"none", "running", "succeeded", "ended"},
               at : {"none", "working", "checked", "put", "gone"},
               input : Content, output : Content]

LEMMA ReachableLeast ==
    ASSUME NEW S \in SUBSET Contents, HoldsNamed(S)
    PROVE  Reachable \subseteq S
  BY DEF Reachable

(* What is named is reachable, and so is what a reachable blob mentions.   *)
LEMMA ReachableHolds ==
    ASSUME WorkTypeOK
    PROVE  HoldsNamed(Reachable) /\ Reachable \subseteq Contents
  <1>1. Required \cup archived \subseteq Contents
    BY DEF Required, WorkTypeOK, Content
  <1>2. \A c \in Contents : Mentions[c] \subseteq Contents
    BY WorkConstants
  <1> QED
    BY <1>1, <1>2 DEF Reachable, HoldsNamed

(* A step that names nothing new, and keeps the blobs that are named.      *)
LEMMA ReachableShrinks ==
    ASSUME WorkTypeOK, Required' \subseteq Required, archived' = archived,
           \/ Reachable \subseteq blobs /\ blobs \subseteq blobs'
           \/ blobs' \subseteq blobs
    PROVE  Reachable' \subseteq Reachable
  <1>1. HoldsNamed(Reachable) /\ Reachable \subseteq Contents
    BY ReachableHolds
  <1>2. HoldsNamed(Reachable)' \/ TRUE
    OBVIOUS
  <1>3. /\ Required' \cup archived' \subseteq Reachable
        /\ \A c \in Reachable \cap blobs' : Mentions[c] \subseteq Reachable
    BY <1>1 DEF HoldsNamed
  <1> QED
    BY <1>1, <1>3 DEF Reachable, HoldsNamed

(* The parts of the invariant.                                             *)
ActiveProtected ==
    \A a \in Active :
        /\ staging[a] = "here"
        /\ work[a].task = "search" => Mentions[work[a].output] \subseteq blobs
        /\ work[a].at = "put" => work[a].output \in blobs

LEMMA WorkInvInParts ==
    WorkInv <=> /\ OneRunner /\ CommittedInOrder /\ WorkTypeOK
                /\ Reachable \subseteq blobs /\ ActiveProtected /\ InputsAreCommitted
  BY DEF WorkInv, NamedBytesSurvive, ActiveProtected

LEMMA WorkInvPrime ==
    ASSUME OneRunner', CommittedInOrder', WorkTypeOK', Reachable' \subseteq blobs',
           ActiveProtected', InputsAreCommitted'
    PROVE  WorkInv'
  <1>1. (/\ OneRunner /\ CommittedInOrder /\ WorkTypeOK
         /\ Reachable \subseteq blobs /\ ActiveProtected /\ InputsAreCommitted)'
    OBVIOUS
  <1> QED
    BY <1>1, WorkInvInParts, PTL

LEMMA WorkInitInv == WorkInit => WorkInv
  <1> SUFFICES ASSUME WorkInit PROVE WorkInv
    OBVIOUS
  <1> USE DEF WorkInit
  <1>1. WorkTypeOK
    BY DEF WorkTypeOK, NoWork, WorkTasks, Content
  <1>2. Active = {}
    BY DEF Active, NoWork
  <1>3. OneRunner /\ CommittedInOrder /\ ActiveProtected /\ InputsAreCommitted
    BY <1>2 DEF OneRunner, CommittedInOrder, ActiveProtected, InputsAreCommitted, NoWork, WorkTasks
  <1>4. Reachable \subseteq blobs
    <2>1. HoldsNamed({})
      BY DEF HoldsNamed, Required, WorkTasks
    <2> QED
      BY <2>1, ReachableLeast
  <1> QED
    BY <1>1, <1>3, <1>4, WorkInvInParts

(* Steps of the workers and of whoever edits files: nothing is committed,  *)
(* no blob goes, and a running attempt stays what it is or ends.           *)
LEMMA WorkersKeep ==
    ASSUME WorkInv, UNCHANGED <<committed, receipt, archived, staging>>,
           blobs \subseteq blobs', blobs' \subseteq Contents,
           disk' \in [WorkTasks -> Content],
           work' \in [WorkAttempts -> WorkRecord],
           \A a \in WorkAttempts :
              /\ work'[a].at # "none" => work[a].at # "none"
              /\ work'[a].output = work[a].output
              /\ work'[a].status = "running" =>
                    /\ work[a].status = "running"
                    /\ work'[a].task = work[a].task /\ work'[a].input = work[a].input
                    /\ work'[a].at = "put" => work[a].at = "put" \/ work[a].output \in blobs'
    PROVE  WorkInv'
  <1>0. /\ OneRunner /\ CommittedInOrder /\ WorkTypeOK
        /\ Reachable \subseteq blobs /\ ActiveProtected /\ InputsAreCommitted
    BY WorkInvInParts
  <1>1. \A a \in Active' : a \in Active
    BY DEF Active
  <1>2. OneRunner'
    BY <1>0, <1>1 DEF OneRunner, Active, Ready
  <1>3. CommittedInOrder' /\ InputsAreCommitted'
    BY <1>0 DEF CommittedInOrder, InputsAreCommitted
  <1>4. WorkTypeOK'
    BY <1>0 DEF WorkTypeOK, WorkRecord
  <1>5. Reachable' \subseteq blobs'
    <2>1. Required' = Required
      BY DEF Required
    <2>2. Reachable' \subseteq Reachable
      BY <1>0, <2>1, ReachableShrinks
    <2> QED
      BY <1>0, <2>2
  <1>6. ActiveProtected'
    BY <1>0, <1>1 DEF ActiveProtected, Active
  <1> QED
    BY <1>2, <1>3, <1>4, <1>5, <1>6, WorkInvPrime

(* A worker that only moves on, to a place where nothing is claimed.       *)
LEMMA AdvanceKeeps ==
    ASSUME WorkInv, NEW a \in WorkAttempts, work[a].at # "none",
           NEW at \in {"checked", "put", "gone"}, Advance(a, at),
           at = "put" => work[a].output \in blobs',
           UNCHANGED <<committed, receipt, archived, staging, disk>>,
           blobs' \in {blobs, blobs \cup {work[a].output}}
    PROVE  WorkInv'
  <1>1. /\ work \in [WorkAttempts -> WorkRecord] /\ work[a].output \in Contents
        /\ blobs \subseteq Contents /\ disk \in [WorkTasks -> Content]
    BY WorkInvInParts DEF WorkTypeOK, WorkRecord, OneRunner
  <1>2. work' = [work EXCEPT ![a].at = at]
    BY DEF Advance
  <1>3. work' \in [WorkAttempts -> WorkRecord]
    BY <1>1, <1>2 DEF WorkRecord
  <1>4. ASSUME NEW b \in WorkAttempts
        PROVE  /\ work'[b].at # "none" => work[b].at # "none"
               /\ work'[b].output = work[b].output
               /\ work'[b].status = "running" =>
                    /\ work[b].status = "running"
                    /\ work'[b].task = work[b].task /\ work'[b].input = work[b].input
                    /\ work'[b].at = "put" => work[b].at = "put" \/ work[b].output \in blobs'
    BY <1>1, <1>2 DEF WorkRecord
  <1> QED
    BY <1>1, <1>3, <1>4, WorkersKeep

LEMMA WorkerSteps ==
    ASSUME WorkInv, NEW a \in WorkAttempts, Check(a) \/ PutOutput(a) \/ EndWork(a) \/ Die(a)
    PROVE  WorkInv'
  <1>1. CASE Check(a)
    BY <1>1, AdvanceKeeps DEF Check
  <1>2. CASE PutOutput(a)
    BY <1>2, AdvanceKeeps DEF PutOutput
  <1>3. CASE Die(a)
    BY <1>3, AdvanceKeeps DEF Die
  <1>4. CASE EndWork(a)
    <2>1. /\ work \in [WorkAttempts -> WorkRecord]
          /\ blobs \subseteq Contents /\ disk \in [WorkTasks -> Content]
      BY WorkInvInParts DEF WorkTypeOK, WorkRecord
    <2>2. work' = [work EXCEPT ![a].status = "ended"]
          /\ UNCHANGED <<staging, disk, committed, receipt, blobs, archived>>
      BY <1>4 DEF EndWork
    <2>3. work' \in [WorkAttempts -> WorkRecord]
      BY <2>1, <2>2 DEF WorkRecord
    <2>4. ASSUME NEW b \in WorkAttempts
          PROVE  /\ work'[b].at = work[b].at /\ work'[b].output = work[b].output
                 /\ work'[b].task = work[b].task /\ work'[b].input = work[b].input
                 /\ work'[b].status = "running" => work[b].status = "running"
      BY <2>1, <2>2 DEF WorkRecord
    <2> QED
      BY <2>1, <2>2, <2>3, <2>4, WorkersKeep
  <1> QED
    BY <1>1, <1>2, <1>3, <1>4

LEMMA FileSteps ==
    ASSUME WorkInv,
           \/ \E t \in WorkTasks, c \in Edits : EditFile(t, c)
           \/ RebuildFiles
    PROVE  WorkInv'
  <1>1. /\ work \in [WorkAttempts -> WorkRecord] /\ committed \in [WorkTasks -> Content]
        /\ blobs \subseteq Contents /\ disk \in [WorkTasks -> Content]
    BY WorkInvInParts DEF WorkTypeOK, WorkRecord
  <1>2. disk' \in [WorkTasks -> Content]
    BY <1>1, WorkConstants DEF EditFile, RebuildFiles, Content
  <1>3. UNCHANGED <<work, staging, committed, receipt, blobs, archived>>
    BY DEF EditFile, RebuildFiles
  <1> QED
    BY <1>1, <1>2, <1>3, WorkersKeep

LEMMA BeginStep ==
    ASSUME WorkInv, NEW a \in WorkAttempts, NEW t \in WorkTasks, NEW list \in Lists,
           Begin(a, t, list)
    PROVE  WorkInv'
  <1> DEFINE input == IF t = "report" THEN disk["search"] ELSE Blank
             output == IF t = "report" THEN ReportOn[input] ELSE list
             fresh == [task |-> t, status |-> "running", at |-> "working",
                       input |-> input, output |-> output]
             texts == IF t = "search" THEN Mentions[output] ELSE {}
  <1>0. /\ OneRunner /\ CommittedInOrder /\ WorkTypeOK
        /\ Reachable \subseteq blobs /\ ActiveProtected /\ InputsAreCommitted
    BY WorkInvInParts
  <1>1. /\ t \notin DOMAIN receipt /\ Ready(t) /\ \A b \in Active : work[b].task # t
        /\ work' = [work EXCEPT ![a] = fresh]
        /\ staging' = [staging EXCEPT ![a] = "here"]
        /\ blobs' = blobs \cup texts
        /\ UNCHANGED <<disk, committed, receipt, archived>>
    BY DEF Begin
  <1>2. /\ input \in Content /\ output \in Contents /\ texts \subseteq Contents
        /\ t = "search" => output \in Lists /\ texts = Mentions[output]
        /\ t = "report" => output = ReportOn[input]
        /\ t = "search" \/ t = "report"
    BY <1>0, WorkConstants DEF WorkTypeOK, Content, WorkTasks
  <1>3. fresh \in WorkRecord /\ fresh.at = "working" /\ fresh.task = t
        /\ fresh.output = output /\ fresh.input = input /\ fresh.status = "running"
    BY <1>2 DEF WorkRecord, Content
  <1> HIDE DEF input, output, fresh, texts
  <1>4. /\ work'[a] = fresh /\ staging'[a] = "here"
        /\ \A b \in WorkAttempts : b # a => work'[b] = work[b] /\ staging'[b] = staging[b]
    BY <1>0, <1>1 DEF WorkTypeOK
  <1>5. ASSUME NEW b \in Active' PROVE b \in WorkAttempts /\ (b # a => b \in Active)
    BY <1>4 DEF Active
  <1>6. WorkTypeOK'
    BY <1>0, <1>1, <1>2, <1>3 DEF WorkTypeOK, WorkRecord
  <1>7. OneRunner'
    <2>1. ASSUME NEW b \in WorkAttempts, work'[b].at # "none"
          PROVE  work'[b].output \in Contents
      BY <1>0, <1>2, <1>3, <1>4, <2>1 DEF OneRunner
    <2>2. ASSUME NEW b \in Active', NEW c \in Active', work'[b].task = work'[c].task
          PROVE  b = c
      BY <1>0, <1>1, <1>3, <1>4, <1>5, <2>2 DEF OneRunner
    <2>3. ASSUME NEW b \in Active'
          PROVE  /\ work'[b].task \notin DOMAIN receipt' /\ Ready(work'[b].task)
                 /\ IF work'[b].task = "search" THEN work'[b].output \in Lists
                    ELSE work'[b].output = ReportOn[work'[b].input]
      BY <1>0, <1>1, <1>2, <1>3, <1>4, <1>5 DEF OneRunner
    <2> QED
      BY <1>1, <2>1, <2>2, <2>3 DEF OneRunner, Ready
  <1>8. CommittedInOrder' /\ InputsAreCommitted'
    BY <1>0, <1>1 DEF CommittedInOrder, InputsAreCommitted
  <1>9. Reachable' \subseteq blobs'
    <2>1. Required' = Required
      BY <1>1 DEF Required
    <2>2. Reachable' \subseteq Reachable
      BY <1>0, <1>1, <2>1, ReachableShrinks
    <2> QED
      BY <1>0, <1>1, <2>2
  <1>10. ActiveProtected'
    <2> SUFFICES ASSUME NEW b \in Active'
                 PROVE  /\ staging'[b] = "here"
                        /\ work'[b].task = "search" => Mentions[work'[b].output] \subseteq blobs'
                        /\ work'[b].at = "put" => work'[b].output \in blobs'
      BY DEF ActiveProtected
    <2>1. CASE b = a
      BY <1>1, <1>2, <1>3, <1>4, <2>1
    <2>2. CASE b # a
      BY <1>0, <1>1, <1>4, <1>5, <2>2 DEF ActiveProtected
    <2> QED
      BY <2>1, <2>2
  <1> QED
    BY <1>6, <1>7, <1>8, <1>9, <1>10, WorkInvPrime

(* A commit of a running attempt: what it names is among the blobs, with   *)
(* what it mentions.                                                       *)
LEMMA CommitWorkStep ==
    ASSUME WorkInv, NEW a \in WorkAttempts, CommitWork(a)
    PROVE  WorkInv'
  <1> DEFINE t == work[a].task
             output == work[a].output
             input == work[a].input
             list == committed["search"]
  <1>0. /\ OneRunner /\ CommittedInOrder /\ WorkTypeOK
        /\ Reachable \subseteq blobs /\ ActiveProtected /\ InputsAreCommitted
    BY WorkInvInParts
  <1>1. work[a].at = "put" /\ UNCHANGED <<staging, blobs>> /\ output \in Contents
    BY <1>0 DEF CommitWork, OneRunner
  <1>2. CASE ~(work[a].status = "running" /\ SameInput(a))
    <2>1. Advance(a, "gone") /\ UNCHANGED <<committed, disk, receipt, archived>>
      BY <1>2 DEF CommitWork
    <2> QED
      BY <1>1, <2>1, AdvanceKeeps
  <1>3. CASE work[a].status = "running" /\ SameInput(a)
    <2>1. /\ work' = [work EXCEPT ![a].status = "succeeded", ![a].at = "gone"]
          /\ committed' = [committed EXCEPT ![t] = output]
          /\ disk' = [disk EXCEPT ![t] = output]
          /\ receipt' = [u \in DOMAIN receipt \cup {t} |-> IF u = t THEN input ELSE receipt[u]]
          /\ archived' = archived \cup {output}
      BY <1>3 DEF CommitWork
    <2>2. /\ a \in Active /\ t \in WorkTasks /\ t \notin DOMAIN receipt /\ Ready(t)
          /\ output \in blobs
          /\ t = "search" => output \in Lists /\ Mentions[output] \subseteq blobs
          /\ t = "report" => /\ input = list /\ output = ReportOn[input]
                             /\ "search" \in DOMAIN receipt
      BY <1>0, <1>1, <1>3 DEF Active, OneRunner, ActiveProtected, SameInput, Ready, WorkTypeOK
    <2>3. output # Blank /\ t \in {"search", "report"} /\ input \in Content
      BY <1>0, <1>1, <2>2, WorkConstants DEF WorkTasks, WorkTypeOK
    <2>4. t = "report" => list \in Lists /\ list # Blank
      BY <1>0, <2>2 DEF CommittedInOrder, WorkTasks
    <2> HIDE DEF t, output, input
    <2>5. /\ committed'[t] = output /\ \A u \in WorkTasks : u # t => committed'[u] = committed[u]
          /\ receipt'[t] = input /\ DOMAIN receipt' = DOMAIN receipt \cup {t}
          /\ \A u \in DOMAIN receipt : u # t => receipt'[u] = receipt[u]
      BY <1>0, <2>1, <2>2 DEF WorkTypeOK
    <2>6. ASSUME NEW b \in Active'
          PROVE  b \in Active /\ b # a /\ work'[b] = work[b] /\ work[b].task # t
      <3>1. work \in [WorkAttempts -> WorkRecord]
        BY <1>0 DEF WorkTypeOK, WorkRecord
      <3>2. b # a /\ work'[b] = work[b]
        BY <2>1, <3>1 DEF Active, WorkRecord
      <3> QED
        BY <1>0, <2>2, <3>2 DEF Active, OneRunner, t
    <2>7. WorkTypeOK'
      <3>1. work' \in [WorkAttempts -> WorkRecord]
        <4>1. work \in [WorkAttempts -> WorkRecord]
          BY <1>0 DEF WorkTypeOK, WorkRecord
        <4>2. ASSUME NEW w \in WorkRecord
              PROVE  [w EXCEPT !.status = "succeeded", !.at = "gone"] \in WorkRecord
          BY DEF WorkRecord
        <4>3. work' = [work EXCEPT ![a] = [@ EXCEPT !.status = "succeeded", !.at = "gone"]]
          BY <2>1
        <4> HIDE DEF WorkRecord
        <4> QED
          BY <4>1, <4>2, <4>3
      <3>2. /\ disk' \in [WorkTasks -> Content] /\ committed' \in [WorkTasks -> Content]
            /\ DOMAIN receipt' \subseteq WorkTasks
        BY <1>0, <1>1, <2>1, <2>2, <2>5 DEF WorkTypeOK, Content, output
      <3> QED
        BY <1>0, <1>1, <2>1, <3>1, <3>2 DEF WorkTypeOK, WorkRecord, output
    <2>8. OneRunner'
      <3>1. ASSUME NEW b \in WorkAttempts, work'[b].at # "none"
            PROVE  work'[b].output \in Contents
        <4>1. work \in [WorkAttempts -> WorkRecord]
          BY <1>0 DEF WorkTypeOK, WorkRecord
        <4>2. CASE b = a
          BY <1>1, <2>1, <4>1, <4>2 DEF WorkRecord
        <4>3. CASE b # a
          BY <1>0, <2>1, <3>1, <4>1, <4>3 DEF OneRunner
        <4> QED
          BY <4>2, <4>3
      <3>2. ASSUME NEW b \in Active'
            PROVE  /\ work'[b].task \notin DOMAIN receipt'
                   /\ work'[b].task = "search" \/ "search" \in DOMAIN receipt'
                   /\ IF work'[b].task = "search" THEN work'[b].output \in Lists
                      ELSE work'[b].output = ReportOn[work'[b].input]
        BY <1>0, <2>5, <2>6 DEF OneRunner, Ready
      <3>3. ASSUME NEW b \in Active', NEW c \in Active', work'[b].task = work'[c].task
            PROVE  b = c
        BY <1>0, <2>6, <3>3 DEF OneRunner
      <3> QED
        BY <3>1, <3>2, <3>3 DEF OneRunner, Ready
    <2>9. CommittedInOrder'
      <3>1. committed'["search"] \in Lists \cup {Blank}
        BY <1>0, <2>2, <2>5 DEF CommittedInOrder, WorkTasks
      <3>2. ASSUME NEW u \in WorkTasks
            PROVE  u \in DOMAIN receipt' <=> committed'[u] # Blank
        BY <1>0, <2>3, <2>5 DEF CommittedInOrder
      <3>3. "report" \in DOMAIN receipt' => "search" \in DOMAIN receipt'
        BY <1>0, <2>2, <2>5 DEF CommittedInOrder
      <3> QED
        BY <3>1, <3>2, <3>3 DEF CommittedInOrder
    <2>10. InputsAreCommitted'
      <3>1. CASE t = "report"
        BY <2>2, <2>4, <2>5, <3>1 DEF InputsAreCommitted, WorkTasks
      <3>2. CASE t = "search"
        <4>1. "report" \notin DOMAIN receipt'
          BY <1>0, <2>2, <2>5, <3>2 DEF CommittedInOrder
        <4> QED
          BY <4>1 DEF InputsAreCommitted
      <3> QED
        BY <2>3, <3>1, <3>2
    <2>11. Reachable' \subseteq blobs'
      <3> DEFINE S == Reachable \cup {output} \cup (IF t = "search" THEN Mentions[output] ELSE {})
      <3>1. HoldsNamed(Reachable) /\ Reachable \subseteq Contents
        BY <1>0, ReachableHolds
      <3>2. S \subseteq blobs /\ S \subseteq Contents
        BY <1>0, <2>2, <3>1 DEF WorkTypeOK
      <3>3. Required' \cup archived' \subseteq S
        <4>1. ASSUME NEW u \in WorkTasks, committed'[u] # Blank PROVE committed'[u] \in S
          BY <2>5, <3>1, <4>1 DEF HoldsNamed, Required
        <4> QED
          BY <2>1, <3>1, <4>1 DEF HoldsNamed, Required
      <3>4. ASSUME NEW c \in S \cap blobs PROVE Mentions[c] \subseteq S
        <4>1. CASE c \in Reachable
          BY <3>1, <4>1 DEF HoldsNamed
        <4>2. CASE t = "search" /\ c \in {output} \cup Mentions[output]
          BY <2>2, <4>2, WorkMentions
        <4>3. CASE t = "report" /\ c = output
          <5>1. list \in Reachable /\ list \in blobs
            BY <1>0, <2>4, <3>1, <4>3 DEF HoldsNamed, Required, WorkTasks
          <5>2. Mentions[list] \subseteq Reachable
            BY <3>1, <5>1 DEF HoldsNamed
          <5>3. Mentions[output] \subseteq Mentions[list] \cup {list}
            BY <2>2, <2>4, <4>3, WorkMentions
          <5> QED
            BY <4>3, <5>1, <5>2, <5>3
        <4> QED
          BY <2>3, <4>1, <4>2, <4>3
      <3> HIDE DEF S
      <3>5. Reachable' \subseteq S
        BY <1>1, <3>2, <3>3, <3>4 DEF Reachable, HoldsNamed
      <3> QED
        BY <1>1, <3>2, <3>5
    <2>12. ActiveProtected'
      BY <1>0, <1>1, <2>6 DEF ActiveProtected
    <2> QED
      BY <2>7, <2>8, <2>9, <2>10, <2>11, <2>12, WorkInvPrime
  <1> QED
    BY <1>2, <1>3

LEMMA PatchWorkStep ==
    ASSUME WorkInv, NEW root \in WorkTasks, PatchWork(root)
    PROVE  WorkInv'
  <1> DEFINE gone == IF root = "search" THEN WorkTasks ELSE {"report"}
  <1>0. /\ OneRunner /\ CommittedInOrder /\ WorkTypeOK
        /\ Reachable \subseteq blobs /\ ActiveProtected /\ InputsAreCommitted
    BY WorkInvInParts
  <1>1. /\ Active = {}
        /\ committed' = [t \in WorkTasks |-> IF t \in gone THEN Blank ELSE committed[t]]
        /\ disk' = [t \in WorkTasks |-> IF t \in gone THEN Blank ELSE disk[t]]
        /\ receipt' = [t \in DOMAIN receipt \ gone |-> receipt[t]]
        /\ UNCHANGED <<work, staging, blobs, archived>>
    BY DEF PatchWork
  <1>2. "report" \in gone /\ gone \subseteq WorkTasks
    BY DEF WorkTasks
  <1> HIDE DEF gone
  <1>3. Active' = {}
    BY <1>1 DEF Active
  <1>4. WorkTypeOK'
    BY <1>0, <1>1 DEF WorkTypeOK, Content
  <1>5. OneRunner' /\ ActiveProtected'
    BY <1>0, <1>1, <1>3 DEF OneRunner, ActiveProtected
  <1>6. CommittedInOrder' /\ InputsAreCommitted'
    BY <1>0, <1>1, <1>2 DEF CommittedInOrder, InputsAreCommitted, WorkTasks
  <1>7. Reachable' \subseteq blobs'
    <2>1. Required' \subseteq Required
      BY <1>1 DEF Required
    <2>2. Reachable' \subseteq Reachable
      BY <1>0, <1>1, <2>1, ReachableShrinks
    <2> QED
      BY <1>0, <1>1, <2>2
  <1> QED
    BY <1>4, <1>5, <1>6, <1>7, WorkInvPrime

LEMMA CollectStep ==
    ASSUME WorkInv, Collect
    PROVE  WorkInv'
  <1>0. /\ OneRunner /\ CommittedInOrder /\ WorkTypeOK
        /\ Reachable \subseteq blobs /\ ActiveProtected /\ InputsAreCommitted
    BY WorkInvInParts
  <1>1. PICK old \in SUBSET Unprotected, left \in SUBSET Abandoned :
            /\ blobs' = blobs \ old
            /\ staging' = [a \in WorkAttempts |->
                              IF a \in left THEN "quarantined" ELSE staging[a]]
    BY DEF Collect
  <1>2. UNCHANGED <<work, disk, committed, receipt, archived>>
    BY DEF Collect
  <1>3. Active' = Active /\ \A a \in Active : a \notin left
    BY <1>2 DEF Active, Abandoned
  <1>4. WorkTypeOK'
    BY <1>0, <1>1, <1>2 DEF WorkTypeOK
  <1>5. OneRunner' /\ CommittedInOrder' /\ InputsAreCommitted'
    BY <1>0, <1>2, <1>3 DEF OneRunner, CommittedInOrder, InputsAreCommitted, Ready
  <1>6. Reachable' \subseteq blobs'
    <2>1. Required' = Required
      BY <1>2 DEF Required
    <2>2. Reachable' \subseteq Reachable
      BY <1>0, <1>1, <1>2, <2>1, ReachableShrinks
    <2>3. old \cap Reachable = {}
      BY DEF Unprotected
    <2> QED
      BY <1>0, <1>1, <2>2, <2>3
  <1>7. ActiveProtected'
    <2> SUFFICES ASSUME NEW a \in Active
                 PROVE  /\ staging'[a] = "here"
                        /\ work[a].task = "search" => Mentions[work[a].output] \subseteq blobs'
                        /\ work[a].at = "put" => work[a].output \in blobs'
      BY <1>2, <1>3 DEF ActiveProtected
    <2>1. old = {}
      BY DEF Unprotected
    <2> QED
      BY <1>0, <1>1, <1>3, <2>1 DEF ActiveProtected, Active
  <1> QED
    BY <1>4, <1>5, <1>6, <1>7, WorkInvPrime

LEMMA WorkStep == WorkInv /\ [WorkNext]_workVars => WorkInv'
  <1> SUFFICES ASSUME WorkInv, [WorkNext]_workVars PROVE WorkInv'
    OBVIOUS
  <1>1. CASE UNCHANGED workVars
    <2>1. /\ OneRunner /\ CommittedInOrder /\ WorkTypeOK
          /\ Reachable \subseteq blobs /\ ActiveProtected /\ InputsAreCommitted
      BY WorkInvInParts
    <2>2. Active' = Active /\ Reachable' = Reachable
      BY <1>1 DEF workVars, Active, Reachable, HoldsNamed, Required
    <2> QED
      BY <1>1, <2>1, <2>2, WorkInvPrime DEF workVars, OneRunner, CommittedInOrder, WorkTypeOK,
         ActiveProtected, InputsAreCommitted, Ready
  <1>2. CASE WorkNext
    BY <1>2, BeginStep, WorkerSteps, CommitWorkStep, PatchWorkStep, FileSteps, CollectStep
       DEF WorkNext
  <1> QED
    BY <1>1, <1>2

(* The inductive invariant of the workspaces, for any attempts, contents   *)
(* and edits, and a collector that moves whatever it may at any time.      *)
THEOREM WorkInductive == WorkSpec => []WorkInv
  BY WorkInitInv, WorkStep, PTL DEF WorkSpec

(* What the database names, and what a running attempt needs, is never     *)
(* collected.                                                              *)
THEOREM NamedIsNeverCollected == WorkSpec => []NamedBytesSurvive
  <1>1. WorkInv => NamedBytesSurvive
    BY DEF WorkInv
  <1> QED
    BY <1>1, WorkInductive, PTL

(* A report is committed only on the search result that is committed.      *)
THEOREM ReportsAreOnCommitted == WorkSpec => []InputsAreCommitted
  <1>1. WorkInv => InputsAreCommitted
    BY DEF WorkInv
  <1> QED
    BY <1>1, WorkInductive, PTL

-----------------------------------------------------------------------------
(* Sessions.                                                               *)

Commits == {"commit bind", "commit map"}

(* What the invariant says of one process that is h, with that registry.   *)
Sound(h, reg) ==
    /\ DOMAIN h = DOMAIN NoHook
    /\ h.session \in SessionIds \cup {NoSession}
    /\ h.seen \in Table /\ h.entry \in Bindings \cup {Nothing}
    /\ h.kind = "created" => h.about \in NativeTasks
    /\ h.kind = "command" => h.session \in SessionIds /\ h.target \in RunIds /\ ~h.bound
    /\ h.at = "bind" => h.target \in RunIds
    /\ h.at = "map" => h.target \in PlanTasks /\ h.about \in NativeTasks
    /\ h.entry # Nothing \/ h.bound \/ h.at \in Commits => h.session \in SessionIds
    /\ h.at \in {"list", "bind", "map"} => h.session \in SessionIds
    /\ h.at \in {"list", "bind", "gate", "map"} \cup Commits => reg # Corrupt
    /\ h.bound /\ h.at \in {"list", "bind", "gate", "map", "answered"}
          => h.entry # Nothing \/ reg = Corrupt
    /\ h.bound /\ h.at \in Commits => h.entry # Nothing

(* What it says of the file and the table.                                 *)
TableKept ==
    /\ registry \in Table \cup {Corrupt} /\ sessions \in Table
    /\ \A s \in SessionIds :
        sessions[s] # Nothing => registry # Corrupt /\ registry[s] # Nothing

WritersAgree ==
    /\ \A p, q \in Hooks : hook[p].at \in Commits /\ hook[q].at \in Commits => p = q
    /\ \A p \in Hooks : hook[p].at \in Commits => registry = hook[p].seen

BoundStay == \A p \in Hooks : hook[p].bound => sessions[hook[p].session] # Nothing

HooksSound == DOMAIN hook = Hooks /\ \A p \in Hooks : Sound(hook[p], registry)

LEMMA SessionInvInParts == SessionInv <=> HooksSound /\ TableKept /\ WritersAgree /\ BoundStay
  BY DEF SessionInv, ProcessTypeOK, OneWriter, BoundIsGated, Writing, HooksSound, TableKept,
         WritersAgree, BoundStay, Sound, Commits

LEMMA SessionInvPrime ==
    ASSUME HooksSound', TableKept', WritersAgree', BoundStay'
    PROVE  SessionInv'
  <1>1. (HooksSound /\ TableKept /\ WritersAgree /\ BoundStay)'
    OBVIOUS
  <1> QED
    BY <1>1, SessionInvInParts, PTL

LEMMA NoHookSound == Sound(NoHook, registry)
  BY DEF Sound, NoHook, Table, Unbound, Commits

LEMMA SessionInitInv == SessionInit => SessionInv
  <1> SUFFICES ASSUME SessionInit PROVE SessionInv
    OBVIOUS
  <1>1. DOMAIN hook = Hooks /\ \A p \in Hooks : hook[p] = NoHook
    BY DEF SessionInit
  <1>2. HooksSound
    BY <1>1, NoHookSound DEF HooksSound
  <1>3. TableKept
    BY DEF SessionInit, TableKept, Table, Unbound
  <1>4. \A p \in Hooks : hook[p].at = "out" /\ hook[p].bound = FALSE
    BY <1>1 DEF NoHook
  <1>5. WritersAgree
    BY <1>4 DEF WritersAgree, Commits
  <1>6. BoundStay
    BY <1>4 DEF BoundStay
  <1> QED
    BY <1>2, <1>3, <1>5, <1>6, SessionInvInParts

(* A step of one process that writes neither the file nor the table.       *)
LEMMA HookKeeps ==
    ASSUME SessionInv, NEW p \in Hooks, NEW h, hook' = [hook EXCEPT ![p] = h],
           UNCHANGED <<registry, sessions>>,
           Sound(h, registry), h.at \notin Commits,
           h.bound => sessions[h.session] # Nothing
    PROVE  SessionInv'
  <1>0. HooksSound /\ TableKept /\ WritersAgree /\ BoundStay
    BY SessionInvInParts
  <1>1. hook'[p] = h /\ DOMAIN hook' = Hooks /\ \A q \in Hooks : q # p => hook'[q] = hook[q]
    BY <1>0 DEF HooksSound
  <1>2. HooksSound'
    <2>1. ASSUME NEW q \in Hooks PROVE Sound(hook'[q], registry)
      <3>1. CASE q = p
        BY <1>1, <3>1
      <3>2. CASE q # p
        BY <1>0, <1>1, <3>2 DEF HooksSound
      <3> QED
        BY <3>1, <3>2
    <2> QED
      BY <1>1, <2>1 DEF HooksSound, Sound
  <1>3. TableKept'
    BY <1>0 DEF TableKept
  <1>4. WritersAgree'
    BY <1>0, <1>1 DEF WritersAgree
  <1>5. BoundStay'
    BY <1>0, <1>1 DEF BoundStay
  <1> QED
    BY <1>2, <1>3, <1>4, <1>5, SessionInvPrime

(* What a process is when some of its fields change.                       *)
LEMMA ChangedFields ==
    ASSUME NEW h, DOMAIN h = DOMAIN NoHook, NEW f, DOMAIN f \subseteq DOMAIN NoHook
    PROVE  /\ DOMAIN Changed(h, f) = DOMAIN NoHook
           /\ \A x \in DOMAIN f : Changed(h, f)[x] = f[x]
           /\ \A x \in DOMAIN NoHook \ DOMAIN f : Changed(h, f)[x] = h[x]
  BY DEF Changed

(* The answer is blocked or allowed, and the process is what it was.       *)
LEMMA AnswerKeeps ==
    ASSUME SessionInv, NEW p \in Hooks, NEW allowed, Answer(p, allowed),
           UNCHANGED <<registry, sessions>>,
           hook[p].at = "gate" \/ registry = Corrupt
    PROVE  SessionInv'
  <1> DEFINE f == [at |-> "answered", answer |-> IF allowed THEN "allow" ELSE "block"]
             h == Changed(hook[p], f)
  <1>0. HooksSound /\ BoundStay
    BY SessionInvInParts
  <1>1. hook' = [hook EXCEPT ![p] = h] /\ Sound(hook[p], registry)
    BY <1>0 DEF Answer, Set, HooksSound
  <1>2. h.at = "answered" /\ h.session = hook[p].session /\ h.entry = hook[p].entry
        /\ h.bound = hook[p].bound /\ h.kind = hook[p].kind /\ h.about = hook[p].about
        /\ h.target = hook[p].target /\ h.seen = hook[p].seen /\ DOMAIN h = DOMAIN NoHook
    BY <1>1 DEF Changed, Sound, NoHook
  <1> HIDE DEF h
  <1>3. Sound(h, registry)
    BY <1>1, <1>2 DEF Sound, Commits
  <1>4. h.at \notin Commits /\ (h.bound => sessions[h.session] # Nothing)
    BY <1>0, <1>2 DEF Commits, BoundStay
  <1> QED
    BY <1>1, <1>3, <1>4, HookKeeps

(* The runs are not what the invariant is about.                           *)
LEMMA RunsKeep ==
    ASSUME SessionInv, UNCHANGED <<registry, sessions, hook>>
    PROVE  SessionInv'
  <1>0. HooksSound /\ TableKept /\ WritersAgree /\ BoundStay
    BY SessionInvInParts
  <1> QED
    BY <1>0, SessionInvPrime DEF HooksSound, Sound, TableKept, WritersAgree, BoundStay

LEMMA StartCommandStep ==
    ASSUME SessionInv, NEW p \in Hooks, NEW s \in SessionIds, NEW r \in RunIds,
           StartCommand(p, s, r)
    PROVE  SessionInv'
  <1> DEFINE f == [at |-> "load", kind |-> "command", session |-> s, target |-> r]
             h == Changed(NoHook, f)
  <1>1. hook' = [hook EXCEPT ![p] = h] /\ UNCHANGED <<registry, sessions>>
    BY DEF StartCommand, Start
  <1>2. h.at = "load" /\ h.session = s /\ h.entry = Nothing /\ h.bound = FALSE
        /\ h.kind = "command" /\ h.target = r /\ h.seen = Unbound /\ DOMAIN h = DOMAIN NoHook
    BY DEF Changed, NoHook
  <1> HIDE DEF h
  <1>3. Unbound \in Table
    BY DEF Unbound, Table
  <1>4. Sound(h, registry)
    BY <1>2, <1>3 DEF Sound, Commits
  <1>5. h.at \notin Commits /\ (h.bound => sessions[h.session] # Nothing)
    BY <1>2 DEF Commits
  <1> QED
    BY <1>1, <1>4, <1>5, HookKeeps

LEMMA StartHookStep ==
    ASSUME SessionInv, NEW p \in Hooks, NEW s \in SessionIds \cup {NoSession},
           NEW kind \in HookKinds, NEW about, kind = "created" => about \in NativeTasks,
           StartHook(p, kind, s, about)
    PROVE  SessionInv'
  <1> DEFINE bound == s \in SessionIds /\ sessions[s] # Nothing
             f == [at |-> "load", kind |-> kind, session |-> s, about |-> about,
                   bound |-> bound]
             h == Changed(NoHook, f)
  <1>1. hook' = [hook EXCEPT ![p] = h] /\ UNCHANGED <<registry, sessions>>
    BY DEF StartHook, Start
  <1>2. h.at = "load" /\ h.session = s /\ h.entry = Nothing
        /\ h.kind = kind /\ h.about = about /\ h.seen = Unbound /\ DOMAIN h = DOMAIN NoHook
    BY DEF Changed, NoHook
  <1>3. h.bound = bound
    BY DEF Changed, NoHook
  <1> HIDE DEF h
  <1>4. Unbound \in Table /\ kind # "command"
    BY SessionConstants DEF Unbound, Table
  <1>5. h.bound => s \in SessionIds /\ sessions[s] # Nothing
    BY <1>3
  <1> HIDE DEF bound
  <1>6. Sound(h, registry)
    BY <1>2, <1>4, <1>5 DEF Sound, Commits
  <1>7. h.at \notin Commits /\ (h.bound => sessions[h.session] # Nothing)
    BY <1>2, <1>5 DEF Commits
  <1> QED
    BY <1>1, <1>6, <1>7, HookKeeps

LEMMA LoadRegistryStep ==
    ASSUME SessionInv, NEW p \in Hooks, LoadRegistry(p)
    PROVE  SessionInv'
  <1>0. HooksSound /\ TableKept /\ BoundStay /\ UNCHANGED <<registry, sessions>>
    BY SessionInvInParts DEF LoadRegistry
  <1>1. CASE registry = Corrupt
    BY <1>0, <1>1, AnswerKeeps DEF LoadRegistry
  <1>2. CASE registry # Corrupt
    <2> DEFINE s == hook[p].session
               entry == IF s = NoSession THEN Nothing ELSE registry[s]
               next == IF hook[p].kind = "command" THEN "bind"
                       ELSE IF s = NoSession \/ entry # Nothing THEN "gate" ELSE "list"
               f == [seen |-> registry, entry |-> entry, at |-> next]
               h == Changed(hook[p], f)
    <2>1. hook' = [hook EXCEPT ![p] = h]
      BY <1>2 DEF LoadRegistry, Set
    <2>2. Sound(hook[p], registry) /\ registry \in Table
      BY <1>0, <1>2 DEF HooksSound, TableKept
    <2>3. h.at = next /\ h.entry = entry /\ h.seen = registry /\ h.session = s
          /\ h.kind = hook[p].kind /\ h.about = hook[p].about /\ h.target = hook[p].target
          /\ h.bound = hook[p].bound /\ DOMAIN h = DOMAIN NoHook
      BY <2>2 DEF Changed, Sound, NoHook
    <2> HIDE DEF h
    <2>4. s \in SessionIds \cup {NoSession} /\ (s # NoSession => s \in SessionIds)
      BY <2>2 DEF Sound
    <2>5. entry \in Bindings \cup {Nothing} /\ (entry # Nothing => s \in SessionIds)
      BY <2>2, <2>4 DEF Table
    <2>6. next \in {"bind", "gate", "list"} /\ (next = "bind" => hook[p].kind = "command")
          /\ (next = "list" => s \in SessionIds)
      BY <2>4
    <2>7. hook[p].bound => s \in SessionIds /\ sessions[s] # Nothing
      BY <1>0, <2>2 DEF Sound, BoundStay
    <2>8. hook[p].bound => entry # Nothing
      BY <1>0, <2>7, SessionConstants DEF TableKept
    <2> HIDE DEF next, entry
    <2>9. Sound(h, registry)
      <3>1. DOMAIN h = DOMAIN NoHook /\ h.session \in SessionIds \cup {NoSession}
            /\ h.seen \in Table /\ h.entry \in Bindings \cup {Nothing}
        BY <2>2, <2>3, <2>4, <2>5
      <3>2. /\ h.kind = "created" => h.about \in NativeTasks
            /\ h.kind = "command" =>
                  h.session \in SessionIds /\ h.target \in RunIds /\ ~h.bound
        BY <2>2, <2>3 DEF Sound
      <3>3. /\ h.at = "bind" => h.target \in RunIds /\ h.session \in SessionIds
            /\ h.at # "map" /\ h.at \notin Commits
            /\ h.at = "list" => h.session \in SessionIds
        BY <2>2, <2>3, <2>6 DEF Sound, Commits
      <3>4. h.entry # Nothing \/ h.bound => h.session \in SessionIds
        BY <2>3, <2>5, <2>7
      <3>5. h.bound => h.entry # Nothing
        BY <2>3, <2>8
      <3> QED
        BY <1>2, <3>1, <3>2, <3>3, <3>4, <3>5 DEF Sound
    <2>10. h.at \notin Commits /\ (h.bound => sessions[h.session] # Nothing)
      BY <2>3, <2>6, <2>7 DEF Commits
    <2> QED
      BY <1>0, <2>1, <2>9, <2>10, HookKeeps
  <1> QED
    BY <1>1, <1>2

LEMMA ListActiveStep ==
    ASSUME SessionInv, NEW p \in Hooks, ListActive(p)
    PROVE  SessionInv'
  <1>0. HooksSound /\ TableKept /\ BoundStay /\ UNCHANGED <<registry, sessions>>
        /\ hook[p].at = "list"
    BY SessionInvInParts DEF ListActive
  <1>1. Sound(hook[p], registry)
    BY <1>0 DEF HooksSound
  <1>2. CASE Cardinality(ActiveRuns) = 1
    <2> DEFINE r == CHOOSE x \in ActiveRuns : TRUE
               f == [at |-> "bind", target |-> r]
               h == Changed(hook[p], f)
    <2>1. hook' = [hook EXCEPT ![p] = h]
      BY <1>2 DEF ListActive, Set
    <2>2. ActiveRuns # {}
      <3>1. Cardinality({}) = 0
        BY FS_EmptySet, Zenon
      <3> QED
        BY <1>2, <3>1
    <2>3. r \in RunIds
      BY <2>2 DEF ActiveRuns
    <2> HIDE DEF r
    <2>4. h.at = "bind" /\ h.entry = hook[p].entry /\ h.seen = hook[p].seen
          /\ h.session = hook[p].session /\ h.kind = hook[p].kind
          /\ h.about = hook[p].about /\ h.target = r /\ h.bound = hook[p].bound
          /\ DOMAIN h = DOMAIN NoHook
      BY <1>1 DEF Changed, Sound, NoHook
    <2> HIDE DEF h
    <2>5. Sound(h, registry)
      BY <1>0, <1>1, <2>3, <2>4 DEF Sound, Commits
    <2>6. h.at \notin Commits /\ (h.bound => sessions[h.session] # Nothing)
      BY <1>0, <2>4 DEF Commits, BoundStay
    <2> QED
      BY <1>0, <2>1, <2>5, <2>6, HookKeeps
  <1>3. CASE Cardinality(ActiveRuns) # 1
    <2> DEFINE f == [at |-> "gate"]
               h == Changed(hook[p], f)
    <2>1. hook' = [hook EXCEPT ![p] = h]
      BY <1>3 DEF ListActive, Set
    <2>2. h.at = "gate" /\ h.entry = hook[p].entry /\ h.seen = hook[p].seen
          /\ h.session = hook[p].session /\ h.kind = hook[p].kind
          /\ h.about = hook[p].about /\ h.target = hook[p].target /\ h.bound = hook[p].bound
          /\ DOMAIN h = DOMAIN NoHook
      BY <1>1 DEF Changed, Sound, NoHook
    <2> HIDE DEF h
    <2>3. Sound(h, registry)
      BY <1>0, <1>1, <2>2 DEF Sound, Commits
    <2>4. h.at \notin Commits /\ (h.bound => sessions[h.session] # Nothing)
      BY <1>0, <2>2 DEF Commits, BoundStay
    <2> QED
      BY <1>0, <2>1, <2>3, <2>4, HookKeeps
  <1> QED
    BY <1>2, <1>3

(* What a binding becomes is a binding.                                    *)
LEMMA BoundIsBinding ==
    ASSUME NEW old \in Bindings \cup {Nothing}, NEW r \in RunIds,
           NEW how \in {"explicit", "inferred"}
    PROVE  Bound(old, r, how) \in Bindings
  <1>1. Entry(r, how) \in Bindings
    BY DEF Entry, Bindings
  <1>2. CASE old # Nothing /\ old.run = r
    <2>1. [old EXCEPT !.binding = how] \in Bindings
      BY <1>2 DEF Bindings
    <2> QED
      BY <1>2, <2>1 DEF Bound
  <1>3. CASE ~(old # Nothing /\ old.run = r)
    BY <1>1, <1>3 DEF Bound
  <1> QED
    BY <1>2, <1>3

LEMMA SeqExcept ==
    ASSUME NEW M, NEW q \in Seq(M), NEW m \in M, NEW i
    PROVE  [q EXCEPT ![i] = m] \in Seq(M)
  <1>1. CASE i \in 1..Len(q)
    BY <1>1, ExceptSeq
  <1>2. CASE i \notin 1..Len(q)
    <2>1. [q EXCEPT ![i] = m] = q
      BY <1>2
    <2> QED
      BY <2>1
  <1> QED
    BY <1>1, <1>2

LEMMA MappedIsBinding ==
    ASSUME NEW old \in Bindings \cup {Nothing}, NEW n \in NativeTasks, NEW t \in PlanTasks
    PROVE  /\ Mapped(old, n, t) \in Bindings \cup {Nothing}
           /\ old # Nothing => Mapped(old, n, t) # Nothing
  <1>1. CASE old = Nothing
    BY <1>1 DEF Mapped
  <1>2. CASE old # Nothing
    <2> DEFINE M == [native : NativeTasks, task : PlanTasks]
               at == SelectInSeq(old.tasks, LAMBDA m : m.native = n)
               m == [native |-> n, task |-> t]
               tasks == IF at = 0 THEN Append(old.tasks, m) ELSE [old.tasks EXCEPT ![at] = m]
    <2>1. Mapped(old, n, t) = [old EXCEPT !.tasks = tasks]
      BY <1>2 DEF Mapped
    <2> HIDE DEF at
    <2>2. tasks \in Seq(M)
      BY <1>2, SeqExcept DEF Bindings
    <2> HIDE DEF tasks
    <2>3. [old EXCEPT !.tasks = tasks] \in Bindings
      BY <1>2, <2>2 DEF Bindings
    <2> QED
      BY <1>2, <2>1, <2>3, SessionConstants
  <1> QED
    BY <1>1, <1>2

(* What a process writes keeps every session that the table has.           *)
LEMMA RowsKeep ==
    ASSUME SessionInv, NEW p \in Hooks, hook[p].at \in {"bind", "map"}
    PROVE  /\ Rows(p) \in Table
           /\ \A s \in SessionIds : sessions[s] # Nothing => Rows(p)[s] # Nothing
  <1>0. Sound(hook[p], registry) /\ sessions \in Table
    BY SessionInvInParts DEF HooksSound, TableKept
  <1>1. hook[p].session \in SessionIds /\ hook[p].seen \in Table
        /\ (hook[p].at = "bind" => hook[p].target \in RunIds)
        /\ (hook[p].at = "map" => hook[p].target \in PlanTasks /\ hook[p].about \in NativeTasks)
    BY <1>0 DEF Sound
  <1>2. Known(p) \in Table
    BY <1>0, <1>1 DEF Known, Table
  <1>3. \A s \in SessionIds : sessions[s] # Nothing => Known(p)[s] # Nothing
    BY DEF Known
  <1> DEFINE s == hook[p].session
             old == Known(p)[s]
             how == IF hook[p].kind = "command" THEN "explicit" ELSE "inferred"
             new == IF hook[p].at = "bind" THEN Bound(old, hook[p].target, how)
                    ELSE Mapped(old, hook[p].about, hook[p].target)
  <1>4. Rows(p) = [Known(p) EXCEPT ![s] = new]
    BY DEF Rows
  <1>5. old \in Bindings \cup {Nothing}
    BY <1>1, <1>2 DEF Table
  <1>6. new \in Bindings \cup {Nothing} /\ (old # Nothing => new # Nothing)
    <2>1. CASE hook[p].at = "bind"
      <3>1. how \in {"explicit", "inferred"}
        OBVIOUS
      <3> HIDE DEF how, old
      <3>2. Bound(old, hook[p].target, how) \in Bindings
        BY <1>1, <1>5, <2>1, <3>1, BoundIsBinding
      <3> QED
        BY <2>1, <3>2, SessionConstants
    <2>2. CASE hook[p].at = "map"
      <3> HIDE DEF old
      <3> QED
        BY <1>1, <1>5, <2>2, MappedIsBinding
    <2> QED
      BY <2>1, <2>2
  <1> HIDE DEF new
  <1>7. Rows(p) \in Table
    BY <1>1, <1>2, <1>4, <1>6 DEF Table
  <1>8. ASSUME NEW x \in SessionIds, sessions[x] # Nothing PROVE Rows(p)[x] # Nothing
    <2>1. Known(p)[x] # Nothing
      BY <1>3, <1>8
    <2>2. Rows(p)[x] = IF x = s THEN new ELSE Known(p)[x]
      BY <1>2, <1>4, <1>8 DEF Table
    <2> QED
      BY <1>6, <2>1, <2>2
  <1> QED
    BY <1>7, <1>8

LEMMA ReplaceFileStep ==
    ASSUME SessionInv, NEW p \in Hooks, ReplaceFile(p)
    PROVE  SessionInv'
  <1>0. HooksSound /\ TableKept /\ WritersAgree /\ BoundStay
    BY SessionInvInParts
  <1>1. hook[p].at \in {"bind", "map"} /\ Free /\ sessions' = sessions
    BY DEF ReplaceFile
  <1>2. Rows(p) \in Table /\ \A s \in SessionIds : sessions[s] # Nothing => Rows(p)[s] # Nothing
    BY <1>1, RowsKeep
  <1>3. Sound(hook[p], registry) /\ registry # Corrupt
    BY <1>0, <1>1 DEF HooksSound, Sound
  <1> DEFINE next == IF hook[p].at = "bind" THEN "commit bind" ELSE "commit map"
             written == Rows(p)
             f == [at |-> next, seen |-> written]
             h == Changed(hook[p], f)
  <1>4. registry' = written /\ hook' = [hook EXCEPT ![p] = h]
    BY DEF ReplaceFile, Set
  <1> HIDE DEF written
  <1>5. h.at = next /\ h.seen = written /\ h.entry = hook[p].entry
        /\ h.session = hook[p].session /\ h.kind = hook[p].kind
        /\ h.about = hook[p].about /\ h.target = hook[p].target /\ h.bound = hook[p].bound
        /\ DOMAIN h = DOMAIN NoHook
    BY <1>3 DEF Changed, Sound, NoHook
  <1>6. next \in Commits
    BY DEF Commits
  <1> HIDE DEF h, next
  <1>7. written \in Table /\ written # Corrupt
    BY <1>2, SessionConstants DEF written
  <1>8. Sound(h, written)
    <2>1. DOMAIN h = DOMAIN NoHook /\ h.session \in SessionIds
          /\ h.seen \in Table /\ h.entry \in Bindings \cup {Nothing}
      BY <1>1, <1>3, <1>5, <1>7 DEF Sound
    <2>2. /\ h.kind = "created" => h.about \in NativeTasks
          /\ h.kind = "command" =>
                h.session \in SessionIds /\ h.target \in RunIds /\ ~h.bound
          /\ h.bound => h.entry # Nothing
      BY <1>1, <1>3, <1>5 DEF Sound
    <2>3. h.at \notin {"list", "bind", "gate", "map", "answered"}
      BY <1>5, <1>6 DEF Commits
    <2> QED
      BY <1>7, <2>1, <2>2, <2>3 DEF Sound
  <1>9. hook'[p] = h /\ DOMAIN hook' = Hooks /\ \A q \in Hooks : q # p => hook'[q] = hook[q]
    BY <1>0, <1>4 DEF HooksSound
  <1>10. HooksSound'
    <2>1. ASSUME NEW q \in Hooks PROVE Sound(hook'[q], written)
      <3>1. CASE q = p
        BY <1>8, <1>9, <3>1
      <3>2. CASE q # p
        BY <1>0, <1>3, <1>7, <1>9, <3>2 DEF HooksSound, Sound
      <3> QED
        BY <3>1, <3>2
    <2> QED
      BY <1>4, <1>9, <2>1 DEF HooksSound, Sound
  <1>11. TableKept'
    BY <1>0, <1>1, <1>2, <1>4, <1>7 DEF TableKept, written
  <1>12. WritersAgree'
    <2>1. \A q \in Hooks : hook[q].at \notin Commits
      BY <1>1 DEF Free, Commits
    <2>2. \A q \in Hooks : hook'[q].at \in Commits => q = p
      BY <1>9, <2>1
    <2>3. registry' = hook'[p].seen
      BY <1>4, <1>5, <1>9
    <2> QED
      BY <2>2, <2>3 DEF WritersAgree
  <1>13. BoundStay'
    BY <1>0, <1>1, <1>5, <1>9 DEF BoundStay
  <1> QED
    BY <1>10, <1>11, <1>12, <1>13, SessionInvPrime

(* The writer commits what it wrote, and that is what the file has.        *)
LEMMA CommitKeeps ==
    ASSUME SessionInv, NEW p \in Hooks, hook[p].at \in Commits,
           NEW h, hook' = [hook EXCEPT ![p] = h], registry' = registry,
           sessions' = hook[p].seen, Sound(h, registry), h.at \notin Commits,
           h.bound = hook[p].bound, h.session = hook[p].session
    PROVE  SessionInv'
  <1>0. HooksSound /\ TableKept /\ WritersAgree /\ BoundStay
    BY SessionInvInParts
  <1>1. hook'[p] = h /\ DOMAIN hook' = Hooks /\ \A q \in Hooks : q # p => hook'[q] = hook[q]
    BY <1>0 DEF HooksSound
  <1>2. Sound(hook[p], registry) /\ sessions' = registry /\ registry # Corrupt
        /\ registry \in Table
    BY <1>0 DEF HooksSound, WritersAgree, TableKept, Sound
  <1>3. HooksSound'
    <2>1. ASSUME NEW q \in Hooks PROVE Sound(hook'[q], registry)
      <3>1. CASE q = p
        BY <1>1, <3>1
      <3>2. CASE q # p
        BY <1>0, <1>1, <3>2 DEF HooksSound
      <3> QED
        BY <3>1, <3>2
    <2> QED
      BY <1>1, <2>1 DEF HooksSound, Sound
  <1>4. TableKept'
    BY <1>0, <1>2 DEF TableKept
  <1>5. WritersAgree'
    BY <1>0, <1>1 DEF WritersAgree
  <1>6. BoundStay'
    <2>1. ASSUME NEW q \in Hooks, hook[q].bound PROVE registry[hook[q].session] # Nothing
      <3>1. hook[q].session \in SessionIds /\ sessions[hook[q].session] # Nothing
        BY <1>0, <2>1 DEF HooksSound, Sound, BoundStay
      <3> QED
        BY <1>0, <3>1 DEF TableKept
    <2> QED
      BY <1>1, <1>2, <2>1 DEF BoundStay
  <1> QED
    BY <1>3, <1>4, <1>5, <1>6, SessionInvPrime

LEMMA CommitSessionStep ==
    ASSUME SessionInv, NEW p \in Hooks, CommitSession(p)
    PROVE  SessionInv'
  <1>0. HooksSound /\ TableKept /\ WritersAgree /\ BoundStay
    BY SessionInvInParts
  <1>1. hook[p].at \in Commits /\ sessions' = hook[p].seen /\ registry' = registry
    BY DEF CommitSession, Commits
  <1>2. Sound(hook[p], registry) /\ registry # Corrupt
    BY <1>0, <1>1 DEF HooksSound, Sound
  <1> DEFINE s == hook[p].session
             entry == hook[p].seen[s]
  <1>3. s \in SessionIds /\ entry \in Bindings \cup {Nothing}
        /\ (hook[p].bound => entry # Nothing /\ hook[p].entry # Nothing)
    <2>1. s \in SessionIds /\ hook[p].seen \in Table /\ hook[p].seen = registry
      BY <1>0, <1>1, <1>2 DEF Sound, WritersAgree
    <2>2. hook[p].bound => registry[s] # Nothing /\ hook[p].entry # Nothing
      BY <1>0, <1>1, <1>2, <2>1 DEF BoundStay, TableKept, Sound
    <2> QED
      BY <2>1, <2>2 DEF Table
  <1>4. ASSUME NEW h, hook' = [hook EXCEPT ![p] = h], DOMAIN h = DOMAIN NoHook,
               h.session = s, h.kind = hook[p].kind, h.about = hook[p].about,
               h.target = hook[p].target, h.bound = hook[p].bound, h.seen = hook[p].seen,
               \/ h.at = "answered" /\ h.entry = hook[p].entry
               \/ h.at = "gate" /\ h.entry = entry
        PROVE  SessionInv'
    <2> HIDE DEF entry
    <2>1. h.entry \in Bindings \cup {Nothing} /\ h.seen \in Table /\ h.session \in SessionIds
          /\ (h.bound => h.entry # Nothing)
      BY <1>2, <1>3, <1>4 DEF Sound
    <2>2. /\ h.kind = "created" => h.about \in NativeTasks
          /\ h.kind = "command" =>
                h.session \in SessionIds /\ h.target \in RunIds /\ ~h.bound
      BY <1>2, <1>4 DEF Sound
    <2>3. h.at \in {"answered", "gate"}
      BY <1>4
    <2>4. Sound(h, registry)
      BY <1>2, <1>4, <2>1, <2>2, <2>3 DEF Sound, Commits
    <2> QED
      BY <1>1, <1>4, <2>3, <2>4, CommitKeeps DEF Commits
  <1>5. CASE hook[p].kind = "command"
    <2> DEFINE h == Changed(hook[p], [at |-> "answered"])
    <2>1. hook' = [hook EXCEPT ![p] = h]
      BY <1>5 DEF CommitSession, Set
    <2>2. h.at = "answered" /\ h.session = s /\ h.kind = hook[p].kind
          /\ h.about = hook[p].about /\ h.target = hook[p].target /\ h.bound = hook[p].bound
          /\ h.seen = hook[p].seen /\ h.entry = hook[p].entry /\ DOMAIN h = DOMAIN NoHook
      BY <1>2 DEF Changed, Sound, NoHook
    <2> HIDE DEF h
    <2> QED
      BY <1>4, <2>1, <2>2
  <1>6. CASE hook[p].kind # "command" /\ hook[p].at = "commit map"
    <2> DEFINE h == Changed(hook[p], [at |-> "answered",
                                      answer |-> IF TRUE THEN "allow" ELSE "block"])
    <2>1. hook' = [hook EXCEPT ![p] = h]
      BY <1>6 DEF CommitSession, Set, Answer
    <2>2. h.at = "answered" /\ h.session = s /\ h.kind = hook[p].kind
          /\ h.about = hook[p].about /\ h.target = hook[p].target /\ h.bound = hook[p].bound
          /\ h.seen = hook[p].seen /\ h.entry = hook[p].entry /\ DOMAIN h = DOMAIN NoHook
      BY <1>2 DEF Changed, Sound, NoHook
    <2> HIDE DEF h
    <2> QED
      BY <1>4, <2>1, <2>2
  <1>7. CASE hook[p].kind # "command" /\ hook[p].at # "commit map"
    <2> DEFINE h == Changed(hook[p], [at |-> "gate", entry |-> entry])
    <2>1. hook' = [hook EXCEPT ![p] = h]
      BY <1>7 DEF CommitSession, Set
    <2>2. h.at = "gate" /\ h.session = s /\ h.kind = hook[p].kind
          /\ h.about = hook[p].about /\ h.target = hook[p].target /\ h.bound = hook[p].bound
          /\ h.seen = hook[p].seen /\ h.entry = entry /\ DOMAIN h = DOMAIN NoHook
      BY <1>2 DEF Changed, Sound, NoHook
    <2> HIDE DEF h, entry
    <2> QED
      BY <1>4, <2>1, <2>2
  <1> QED
    BY <1>5, <1>6, <1>7

(* A crash, and the end of a hook.                                         *)
LEMMA GoneStep ==
    ASSUME SessionInv, NEW p \in Hooks, CrashHook(p) \/ EndHook(p)
    PROVE  SessionInv'
  <1>1. hook' = [hook EXCEPT ![p] = NoHook] /\ UNCHANGED <<registry, sessions>>
    BY DEF CrashHook, EndHook
  <1>2. NoHook.at \notin Commits /\ NoHook.bound = FALSE
    BY DEF NoHook, Commits
  <1> QED
    BY <1>1, <1>2, NoHookSound, HookKeeps

LEMMA GateStep ==
    ASSUME SessionInv, NEW p \in Hooks, Gate(p)
    PROVE  SessionInv'
  <1>0. HooksSound /\ BoundStay /\ UNCHANGED <<registry, sessions>> /\ hook[p].at = "gate"
    BY SessionInvInParts DEF Gate
  <1>1. Sound(hook[p], registry)
    BY <1>0 DEF HooksSound
  <1>2. ASSUME NEW allowed, Answer(p, allowed) PROVE SessionInv'
    BY <1>0, <1>2, AnswerKeeps
  <1>3. CASE GateCreated(p)
    <2> DEFINE e == hook[p].entry
               t == IF e = Nothing THEN Nothing ELSE MatchOf[e.run][hook[p].about]
               h == Changed(hook[p], [at |-> "map", target |-> t])
    <2>1. CASE t = Nothing
      BY <1>2, <1>3, <2>1 DEF GateCreated
    <2>2. CASE t # Nothing
      <3>1. hook' = [hook EXCEPT ![p] = h]
        BY <1>3, <2>2 DEF GateCreated, Set
      <3>2. e \in Bindings /\ hook[p].about \in NativeTasks /\ hook[p].session \in SessionIds
        BY <1>1, <1>3, <2>2 DEF Sound, GateCreated
      <3>3. t \in PlanTasks
        BY <2>2, <3>2, SessionConstants DEF Bindings
      <3> HIDE DEF t
      <3>4. h.at = "map" /\ h.session = hook[p].session /\ h.kind = hook[p].kind
            /\ h.about = hook[p].about /\ h.target = t /\ h.bound = hook[p].bound
            /\ h.seen = hook[p].seen /\ h.entry = e /\ DOMAIN h = DOMAIN NoHook
        BY <1>1 DEF Changed, Sound, NoHook
      <3>5. hook[p].kind = "created"
        BY <1>3 DEF GateCreated
      <3> HIDE DEF h
      <3>6. Sound(h, registry)
        BY <1>0, <1>1, <3>2, <3>3, <3>4, <3>5 DEF Sound, Commits
      <3>7. h.at \notin Commits /\ (h.bound => sessions[h.session] # Nothing)
        BY <1>0, <3>4 DEF Commits, BoundStay
      <3> QED
        BY <1>0, <3>1, <3>6, <3>7, HookKeeps
    <2> QED
      BY <2>1, <2>2
  <1>4. CASE GateSubagent(p)
    BY <1>2, <1>4 DEF GateSubagent
  <1>5. CASE GateCompleted(p)
    BY <1>2, <1>5 DEF GateCompleted
  <1>6. CASE Answer(p, ToolAllowed(hook[p].entry, hook[p].about))
    BY <1>2, <1>6
  <1>7. CASE Answer(p, StopAllowed(hook[p].entry))
    BY <1>2, <1>7
  <1> QED
    BY <1>3, <1>4, <1>5, <1>6, <1>7 DEF Gate

LEMMA SessionStep == SessionInv /\ [SessionNext]_sessionVars => SessionInv'
  <1> SUFFICES ASSUME SessionInv, [SessionNext]_sessionVars PROVE SessionInv'
    OBVIOUS
  <1>1. CASE UNCHANGED sessionVars
    BY <1>1, RunsKeep DEF sessionVars
  <1>2. ASSUME NEW r \in RunIds, SealRun(r) PROVE SessionInv'
    BY <1>2, RunsKeep DEF SealRun
  <1>3. ASSUME NEW r \in RunIds, NEW t \in PlanTasks, NEW v, WriteResult(r, t, v)
        PROVE  SessionInv'
    BY <1>3, RunsKeep DEF WriteResult
  <1>4. ASSUME NEW p \in Hooks, NEW s \in SessionIds, NEW r \in RunIds, StartCommand(p, s, r)
        PROVE  SessionInv'
    BY <1>4, StartCommandStep
  <1>5. ASSUME NEW p \in Hooks, NEW k \in HookKinds, NEW s \in SessionIds \cup {NoSession},
               \/ k \in {"created", "subagent", "completed"}
                  /\ \E n \in NativeTasks : StartHook(p, k, s, n)
               \/ k = "tool" /\ \E use \in ToolUses : StartHook(p, k, s, use)
               \/ k = "stop" /\ StartHook(p, k, s, Nothing)
        PROVE  SessionInv'
    <2>1. ASSUME NEW n \in NativeTasks, StartHook(p, k, s, n) PROVE SessionInv'
      BY <2>1, StartHookStep
    <2>2. ASSUME NEW about, k # "created", StartHook(p, k, s, about) PROVE SessionInv'
      BY <2>2, StartHookStep
    <2> QED
      BY <1>5, <2>1, <2>2
  <1>6. ASSUME NEW p \in Hooks,
               LoadRegistry(p) \/ ListActive(p) \/ ReplaceFile(p) \/ CommitSession(p)
               \/ CrashHook(p) \/ Gate(p) \/ EndHook(p)
        PROVE  SessionInv'
    BY <1>6, LoadRegistryStep, ListActiveStep, ReplaceFileStep, CommitSessionStep, GoneStep,
       GateStep
  <1> QED
    BY <1>1, <1>2, <1>3, <1>4, <1>5, <1>6 DEF SessionNext

(* The inductive invariant of the registry: one writer, which is what the  *)
(* file has, and a table whose sessions the file has too.                  *)
THEOREM SessionInductive == SessionSpec => []SessionInv
  BY SessionInitInv, SessionStep, PTL DEF SessionSpec

(* No hook of a session that was bound when it started answers as that of  *)
(* an unbound session, for any number of sessions, processes and runs, and *)
(* whichever of them dies between the file and the table.                  *)
THEOREM BoundSessionsAreGated == SessionSpec => []BoundIsGated
  <1>1. SessionInv => BoundIsGated
    BY DEF SessionInv
  <1> QED
    BY <1>1, SessionInductive, PTL

-----------------------------------------------------------------------------
(* Exports: the outbox keeps its word for every set of paths and processes. *)

LEMMA ExportsInvInit == Init => ExportsIInv
  BY DEF Init, ExportsIInv, TypeOK, FlushLog, AcknowledgedIsOnDisk

(* A generation only grows, and nobody is flushing while it does.          *)
LEMMA QueueGrows ==
    ASSUME TypeOK, NEW S \in SUBSET Paths, Queue(S)
    PROVE  /\ generation' \in [Paths -> Nat]
           /\ \A x \in Paths : generation'[x] >= generation[x]
           /\ \A x \in Paths : generation'[x] # generation[x] => generation'[x] > generation[x]
  BY DEF TypeOK, Queue

LEMMA ProjectKeeps ==
    ASSUME ExportsIInv, NEW S \in SUBSET Paths, Project(S)
    PROVE  ExportsIInv'
  <1> USE DEF ExportsIInv
  <1>1. /\ Queue(S) /\ flushing = {}
        /\ UNCHANGED <<exported, file, flushing, rows, acked>>
    BY DEF Project, LockFree
  <1>2. /\ generation' \in [Paths -> Nat]
        /\ \A x \in Paths : generation'[x] >= generation[x]
        /\ \A x \in Paths : generation'[x] # generation[x] => generation'[x] > generation[x]
    BY <1>1, QueueGrows
  <1>3. TypeOK'
    BY <1>1, <1>2 DEF TypeOK
  <1>4. \A p \in Processes : rows[p] = {} /\ acked[p] = {}
    BY <1>1 DEF TypeOK
  <1>5. FlushLog'
    <2>1. \A x \in Paths : exported'[x] <= generation'[x]
      BY <1>1, <1>2 DEF TypeOK, FlushLog
    <2>2. \A x \in Paths : file'[x] # Foreign => file'[x] <= generation'[x]
      BY <1>1, <1>2 DEF TypeOK, FlushLog
    <2> QED
      BY <1>1, <1>4, <2>1, <2>2 DEF FlushLog
  <1>6. AcknowledgedIsOnDisk'
    <2> SUFFICES ASSUME NEW x \in Paths, exported'[x] = generation'[x]
                 PROVE  file'[x] \in {generation'[x], Foreign}
      BY DEF AcknowledgedIsOnDisk
    <2>1. generation'[x] = generation[x]
      BY <1>1, <1>2 DEF TypeOK, FlushLog
    <2> QED
      BY <1>1, <2>1 DEF AcknowledgedIsOnDisk
  <1> QED
    BY <1>3, <1>5, <1>6

LEMMA BeginKeeps ==
    ASSUME ExportsIInv, NEW p \in Processes, BeginFlush(p)
    PROVE  ExportsIInv'
  <1> USE DEF ExportsIInv
  <1> DEFINE selected == {[path |-> x, generation |-> generation[x]] : x \in Selected}
  <1>1. /\ flushing = {} /\ flushing' = flushing \cup {p}
        /\ rows' = [rows EXCEPT ![p] = selected]
        /\ UNCHANGED <<generation, exported, file, acked>>
    BY DEF BeginFlush, LockFree
  <1>2. selected \subseteq Row
    BY DEF Selected, Unacknowledged, Row, TypeOK
  <1>3. \A row \in selected : /\ row.generation = generation[row.path]
                              /\ exported[row.path] < row.generation
    BY DEF Selected, Unacknowledged, TypeOK
  <1> HIDE DEF selected
  <1>4. TypeOK'
    BY <1>1, <1>2 DEF TypeOK
  <1>5. FlushLog'
    BY <1>1, <1>3 DEF TypeOK, FlushLog
  <1>6. AcknowledgedIsOnDisk'
    BY <1>1 DEF AcknowledgedIsOnDisk
  <1> QED
    BY <1>4, <1>5, <1>6

LEMMA ExportKeeps ==
    ASSUME ExportsIInv, NEW p \in Processes, NEW row \in rows[p], Export(p, row)
    PROVE  ExportsIInv'
  <1> USE DEF ExportsIInv
  <1>1. /\ row \in Row
        /\ row.path \in Paths /\ row.generation \in Nat
        /\ row.generation = generation[row.path]
        /\ p \in flushing
    BY DEF TypeOK, Row, FlushLog
  <1>2. /\ file' = [file EXCEPT ![row.path] = row.generation]
        /\ rows' = [rows EXCEPT ![p] = @ \ {row}]
        /\ acked' = [acked EXCEPT ![p] = @ \cup {row.path}]
        /\ UNCHANGED <<generation, exported, flushing>>
    BY DEF Export
  <1>3. TypeOK'
    BY <1>1, <1>2 DEF TypeOK
  <1>4. FlushLog'
    <2>1. \A x \in Paths : file'[x] # Foreign => file'[x] <= generation'[x]
      BY <1>1, <1>2 DEF TypeOK, FlushLog
    <2>2. \A q \in Processes : \A x \in acked'[q] : file'[x] \in {generation'[x], Foreign}
      BY <1>1, <1>2 DEF TypeOK, FlushLog
    <2>3. \A q \in Processes : \A r \in rows'[q] :
             r.generation = generation'[r.path] /\ exported'[r.path] < r.generation
      BY <1>1, <1>2 DEF TypeOK, FlushLog
    <2> QED
      BY <1>2, <2>1, <2>2, <2>3 DEF FlushLog
  <1>5. AcknowledgedIsOnDisk'
    BY <1>1, <1>2 DEF TypeOK, AcknowledgedIsOnDisk
  <1> QED
    BY <1>3, <1>4, <1>5

LEMMA CommitFlushKeeps ==
    ASSUME ExportsIInv, NEW p \in Processes, CommitFlush(p)
    PROVE  ExportsIInv'
  <1> USE DEF ExportsIInv
  <1>1. /\ p \in flushing
        /\ exported' = [x \in Paths |-> IF x \in acked[p] THEN generation[x] ELSE exported[x]]
        /\ flushing' = flushing \ {p}
        /\ rows' = [rows EXCEPT ![p] = {}]
        /\ acked' = [acked EXCEPT ![p] = {}]
        /\ UNCHANGED <<generation, file>>
    BY DEF CommitFlush, EndTransaction
  <1>2. TypeOK'
    BY <1>1 DEF TypeOK
  <1>3. \A q \in Processes : rows'[q] = {} /\ acked'[q] = {}
    BY <1>1 DEF TypeOK, FlushLog
  <1>4. FlushLog'
    <2>1. \A x \in Paths : exported'[x] <= generation'[x]
      BY <1>1 DEF TypeOK, FlushLog
    <2> QED
      BY <1>1, <1>3, <2>1 DEF FlushLog
  <1>5. AcknowledgedIsOnDisk'
    BY <1>1 DEF TypeOK, FlushLog, AcknowledgedIsOnDisk
  <1> QED
    BY <1>2, <1>4, <1>5

LEMMA AbortKeeps ==
    ASSUME ExportsIInv, NEW p \in Processes, AbortFlush(p)
    PROVE  ExportsIInv'
  <1> USE DEF ExportsIInv
  <1>1. /\ p \in flushing
        /\ flushing' = flushing \ {p}
        /\ rows' = [rows EXCEPT ![p] = {}]
        /\ acked' = [acked EXCEPT ![p] = {}]
        /\ UNCHANGED <<generation, exported, file>>
    BY DEF AbortFlush, Rollback, EndTransaction
  <1>2. TypeOK'
    BY <1>1 DEF TypeOK
  <1>3. \A q \in Processes : rows'[q] = {} /\ acked'[q] = {}
    BY <1>1 DEF TypeOK, FlushLog
  <1>4. FlushLog' /\ AcknowledgedIsOnDisk'
    BY <1>1, <1>3 DEF FlushLog, AcknowledgedIsOnDisk
  <1> QED
    BY <1>2, <1>4

LEMMA RebuildKeeps ==
    ASSUME ExportsIInv, Rebuild
    PROVE  ExportsIInv'
  <1> USE DEF ExportsIInv
  <1>1. /\ Queue({Log}) /\ flushing = {}
        /\ exported' = [x \in Paths |-> 0]
        /\ UNCHANGED <<file, flushing, rows, acked>>
    BY DEF Rebuild, LockFree
  <1>2. /\ generation' \in [Paths -> Nat]
        /\ \A x \in Paths : generation'[x] >= generation[x]
    BY <1>1, QueueGrows, LogAssumption
  <1>3. TypeOK'
    BY <1>1, <1>2 DEF TypeOK
  <1>4. \A p \in Processes : rows[p] = {} /\ acked[p] = {}
    BY <1>1 DEF TypeOK
  <1>5. FlushLog'
    <2>1. \A x \in Paths : exported'[x] <= generation'[x]
      BY <1>1, <1>2
    <2>2. \A x \in Paths : file'[x] # Foreign => file'[x] <= generation'[x]
      BY <1>1, <1>2 DEF TypeOK, FlushLog
    <2> QED
      BY <1>1, <1>4, <2>1, <2>2 DEF FlushLog
  <1>6. AcknowledgedIsOnDisk'
    <2> SUFFICES ASSUME NEW x \in Paths, exported'[x] = generation'[x]
                 PROVE  file'[x] \in {generation'[x], Foreign}
      BY DEF AcknowledgedIsOnDisk
    <2>1. generation'[x] = 0 /\ generation[x] = 0
      BY <1>1, <1>2 DEF TypeOK
    <2> QED
      BY <1>1, <2>1 DEF TypeOK, FlushLog
  <1> QED
    BY <1>3, <1>5, <1>6

LEMMA WriteKeeps ==
    ASSUME ExportsIInv, NEW x \in Paths, WriteFile(x)
    PROVE  ExportsIInv'
  <1> USE DEF ExportsIInv
  <1>1. /\ file' = [file EXCEPT ![x] = Foreign]
        /\ UNCHANGED <<generation, exported, flushing, rows, acked>>
    BY DEF WriteFile
  <1>2. TypeOK'
    BY <1>1 DEF TypeOK
  <1>3. FlushLog'
    BY <1>1 DEF TypeOK, FlushLog
  <1>4. AcknowledgedIsOnDisk'
    BY <1>1 DEF TypeOK, AcknowledgedIsOnDisk
  <1> QED
    BY <1>2, <1>3, <1>4

LEMMA ExportsInvStep == ExportsIInv /\ [Next]_vars => ExportsIInv'
  <1> SUFFICES ASSUME ExportsIInv, [Next]_vars PROVE ExportsIInv'
    OBVIOUS
  <1>1. CASE UNCHANGED vars
    BY <1>1 DEF vars, ExportsIInv, TypeOK, FlushLog, AcknowledgedIsOnDisk
  <1> QED
    BY <1>1, ProjectKeeps, BeginKeeps, ExportKeeps, CommitFlushKeeps, AbortKeeps,
       RebuildKeeps, WriteKeeps DEF Next

-----------------------------------------------------------------------------
(* The inductive invariant holds in every reachable state.                 *)
THEOREM ExportsInductive == Spec => []ExportsIInv
  BY ExportsInvInit, ExportsInvStep, PTL DEF Spec

(* What the database takes as exported is on disk.                         *)
THEOREM ExportsAcknowledged == Spec => []AcknowledgedIsOnDisk
  <1>1. ExportsIInv => AcknowledgedIsOnDisk
    BY DEF ExportsIInv
  <1> QED
    BY ExportsInductive, <1>1, PTL

(* Only an export changes a file to something else than foreign bytes.     *)
LEMMA FileStep ==
    ASSUME [Next]_vars
    PROVE  \/ UNCHANGED file
           \/ \E x \in Paths : file' = [file EXCEPT ![x] = Foreign]
           \/ \E p \in Processes : \E row \in rows[p] :
                 file' = [file EXCEPT ![row.path] = row.generation]
  BY DEF Next, vars, Project, BeginFlush, Export, CommitFlush, AbortFlush, Rebuild,
         WriteFile

(* An older exporter never overwrites a newer generation.                  *)
THEOREM ExportsNeverOlder == Spec => NeverOlder
  <1>1. ExportsIInv /\ [Next]_vars
          => [\A x \in Paths : file[x] # Foreign /\ file'[x] # Foreign
                                 => file'[x] >= file[x]]_vars
    <2> SUFFICES ASSUME ExportsIInv, [Next]_vars, NEW x \in Paths,
                        file[x] # Foreign, file'[x] # Foreign
                 PROVE  file'[x] >= file[x]
      OBVIOUS
    <2> USE DEF ExportsIInv
    <2>0. file[x] \in Nat /\ file[x] <= generation[x] /\ generation[x] \in Nat
      BY DEF TypeOK, FlushLog
    <2>1. CASE UNCHANGED file
      BY <2>0, <2>1
    <2>2. ASSUME NEW y \in Paths, file' = [file EXCEPT ![y] = Foreign]
          PROVE  file'[x] >= file[x]
      BY <2>0, <2>2 DEF TypeOK
    <2>3. ASSUME NEW p \in Processes, NEW row \in rows[p],
                 file' = [file EXCEPT ![row.path] = row.generation]
          PROVE  file'[x] >= file[x]
      <3>1. row.generation = generation[row.path]
        BY DEF FlushLog
      <3> QED
        BY <2>0, <2>3, <3>1 DEF TypeOK
    <2> QED
      BY <2>1, <2>2, <2>3, FileStep
  <1> QED
    BY ExportsInductive, <1>1, PTL DEF Spec, NeverOlder

(* Acknowledged tampering stays visible.                                   *)
THEOREM ExportsShowTampering == Spec => TamperingStaysVisible
  <1>1. ExportsIInv /\ [Next]_vars
          => [\A x \in Paths : file[x] = Foreign /\ exported[x] = generation[x]
                                 => file'[x] = Foreign]_vars
    <2> SUFFICES ASSUME ExportsIInv, [Next]_vars, NEW x \in Paths,
                        file[x] = Foreign, exported[x] = generation[x]
                 PROVE  file'[x] = Foreign
      OBVIOUS
    <2> USE DEF ExportsIInv
    <2>1. CASE UNCHANGED file
      BY <2>1
    <2>2. ASSUME NEW y \in Paths, file' = [file EXCEPT ![y] = Foreign]
          PROVE  file'[x] = Foreign
      BY <2>2 DEF TypeOK
    <2>3. ASSUME NEW p \in Processes, NEW row \in rows[p],
                 file' = [file EXCEPT ![row.path] = row.generation]
          PROVE  file'[x] = Foreign
      <3>1. /\ row.generation = generation[row.path]
            /\ exported[row.path] < row.generation
            /\ row.path \in Paths
        BY DEF FlushLog, TypeOK, Row
      <3>2. row.path # x
        BY <3>1 DEF TypeOK
      <3> QED
        BY <2>3, <3>1, <3>2 DEF TypeOK
    <2> QED
      BY <2>1, <2>2, <2>3, FileStep
  <1> QED
    BY ExportsInductive, <1>1, PTL DEF Spec, TamperingStaysVisible
=============================================================================
