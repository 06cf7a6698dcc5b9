----------------------- MODULE ProjectMigrationProofs -----------------------
(***************************************************************************)
(* Proofs about ProjectMigration for any number of sessions, migrations    *)
(* and updates.  MigrationInv is the inductive invariant; its parts depend *)
(* on each other: the lock gives one migrator, one migrator keeps the      *)
(* pending directory to itself between the choice and the rename, and that *)
(* keeps the snapshots true to the manifest.                               *)
(***************************************************************************)
EXTENDS ProjectMigration, TLAPS

USE DEF Schemas, Places, LockedSteps, RollbackSteps, Steps

\* The only facts about manifest contents the proofs below need.
LEMMA ContentFacts ==
    /\ NoContent \in ManifestContent
    /\ NoContent.schema = "legacy" /\ NoContent.rev = 0 /\ NoContent.by = Legacy
    /\ \A raw \in ManifestContent, m \in Migrations :
         LET b == BuildV1Manifest(raw, m) IN
         b \in ManifestContent /\ b.schema = "current" /\ b.rev = raw.rev + 1 /\ b.by = m
BY DEF NoContent, ManifestContent, Writers, BuildV1Manifest

\* Initialisation is well typed and consistent.
LEMMA MigrationInit == Init => MigrationInv
<1> SUFFICES ASSUME Init PROVE MigrationInv
    OBVIOUS
<1>1. TypeOK /\ Working
    BY MigrationConstants, ContentFacts DEF Init, TypeOK, Working
<1>2. Live = {} /\ Pending = {}
    BY DEF Init, Live, Pending
<1>3. BackedUp
    BY MigrationConstants, ContentFacts DEF Init, BackedUp
<1> QED
    BY <1>1, <1>2, <1>3
    DEF Init, MigrationInv, LockHeld, OneMigrator, AtMostOnePending,
        OneLegacyManifest, JournalsAgree, SessionConsistent

\* Every step of every session keeps the types and remembers its migration.
LEMMA MigrationType ==
    TypeOK /\ Working /\ [Next]_vars => TypeOK' /\ Working'
<1> SUFFICES ASSUME TypeOK, Working, [Next]_vars PROVE TypeOK' /\ Working'
    OBVIOUS
<1> USE DEF TypeOK, Working, Goto, Work, journal
<1>1. ASSUME NEW s \in Sessions, MigrateCommand(s) \/ MigrateRefused(s) \/ AcquireLock(s)
      PROVE TypeOK' /\ Working'
    BY <1>1 DEF MigrateCommand, MigrateRefused, AcquireLock
<1>2. ASSUME NEW s \in Sessions, OpenAndDiscard(s) PROVE TypeOK' /\ Working'
    <2>1. place' \in [Migrations -> Places]
        BY <1>2 DEF OpenAndDiscard
    <2>2. pc' \in [Sessions -> Steps] /\ seen' \in [Sessions -> Schemas]
        BY <1>2 DEF OpenAndDiscard, ManifestContent
    <2>3. Working'
        BY <1>2 DEF OpenAndDiscard
    <2> QED
        BY <1>2, <2>1, <2>2, <2>3 DEF OpenAndDiscard
<1>3. ASSUME NEW s \in Sessions, ChoosePending(s) PROVE TypeOK' /\ Working'
    BY <1>3 DEF ChoosePending, Pending
<1>4. ASSUME NEW s \in Sessions, PrepareSnapshots(s) PROVE TypeOK' /\ Working'
    <2>1. CASE manifest.schema = "legacy"
        <3>1. PICK m \in Migrations :
                /\ before' = [before EXCEPT ![m] = manifest]
                /\ after' = [after EXCEPT ![m] = BuildV1Manifest(manifest, m)]
                /\ Work(s, "backup", m)
            BY <1>4, <2>1 DEF PrepareSnapshots
        <3>2. BuildV1Manifest(manifest, m) \in ManifestContent
            BY ContentFacts
        <3>3. before' \in [Migrations -> ManifestContent] /\ after' \in [Migrations -> ManifestContent]
            BY <3>1, <3>2
        <3> QED
            BY <1>4, <3>1, <3>3 DEF PrepareSnapshots
    <2>2. CASE manifest.schema # "legacy"
        BY <1>4, <2>2 DEF PrepareSnapshots
    <2> QED
        BY <2>1, <2>2
<1>5. ASSUME NEW s \in Sessions, CreateBackup(s) PROVE TypeOK' /\ Working'
    BY <1>5 DEF CreateBackup
<1>6. ASSUME NEW s \in Sessions, StageSnapshots(s) \/ PublishPending(s) \/ CommitFinish(s)
      PROVE TypeOK' /\ Working'
    BY <1>6 DEF StageSnapshots, PublishPending, CommitFinish
<1>7. ASSUME NEW s \in Sessions, CommitCheck(s) \/ ReleaseLock(s) PROVE TypeOK' /\ Working'
    BY <1>7 DEF CommitCheck, ReleaseLock
<1>8. ASSUME NEW s \in Sessions, CommitInstall(s) PROVE TypeOK' /\ Working'
    BY <1>8 DEF CommitInstall
<1>9. ASSUME NEW s \in Sessions, NEW m \in Migrations, RollbackCommand(s, m)
      PROVE TypeOK' /\ Working'
    BY <1>9 DEF RollbackCommand
<1>10. ASSUME NEW s \in Sessions, RollbackRefused(s) \/ RollbackConfirmed(s) \/ RollbackCheck(s)
       PROVE TypeOK' /\ Working'
    BY <1>10 DEF RollbackRefused, RollbackConfirmed, RollbackCheck
<1>11. ASSUME NEW s \in Sessions, RollbackInstall(s) PROVE TypeOK' /\ Working'
    BY <1>11 DEF RollbackInstall
<1>12. ASSUME NEW s \in Sessions, RollbackFinish(s) PROVE TypeOK' /\ Working'
    BY <1>12 DEF RollbackFinish
<1>13. ASSUME NEW s \in Sessions, NEW u \in Updates, Update(s, u) PROVE TypeOK' /\ Working'
    <2>1. manifest' \in ManifestContent
        BY <1>13 DEF Update, ManifestContent, Writers
    <2> QED
        BY <1>13, <2>1 DEF Update
<1>14. ASSUME NEW s \in Sessions, RecoverTransactions(s) \/ Crash(s) PROVE TypeOK' /\ Working'
    BY <1>14 DEF RecoverTransactions, Crash
<1>15. CASE OperatorUnlock
    BY <1>15 DEF OperatorUnlock
<1>16. CASE UNCHANGED vars
    BY <1>16 DEF vars
<1> QED
    BY <1>1, <1>2, <1>3, <1>4, <1>5, <1>6, <1>7, <1>8, <1>9, <1>10, <1>11, <1>12,
       <1>13, <1>14, <1>15, <1>16
    DEF Next, MigrateStep, RollbackStep

\* The lock file admits one migrator: it exists while one works, a second one
\* finds it, and only its owner or an operator who sees nobody alive removes it.
LEMMA MigrationLock ==
    TypeOK /\ LockHeld /\ OneMigrator /\ [Next]_vars => LockHeld' /\ OneMigrator'
<1> SUFFICES ASSUME TypeOK, LockHeld, OneMigrator, [Next]_vars
             PROVE LockHeld' /\ OneMigrator'
    OBVIOUS
<1> USE DEF TypeOK, LockHeld, OneMigrator, Live, Goto, Work, journal
<1>1. ASSUME NEW s \in Sessions, AcquireLock(s) PROVE LockHeld' /\ OneMigrator'
    BY <1>1 DEF AcquireLock
<1>2. ASSUME NEW s \in Sessions, MigrateStep(s) PROVE LockHeld' /\ OneMigrator'
    BY <1>2 DEF MigrateStep, OpenAndDiscard, ChoosePending, PrepareSnapshots, CreateBackup,
                StageSnapshots, PublishPending, CommitCheck, CommitInstall, CommitFinish,
                ReleaseLock
<1>3. ASSUME NEW s \in Sessions,
             MigrateCommand(s) \/ MigrateRefused(s) \/ Crash(s) \/ RecoverTransactions(s)
      PROVE LockHeld' /\ OneMigrator'
    BY <1>3 DEF MigrateCommand, MigrateRefused, Crash, RecoverTransactions
<1>4. ASSUME NEW s \in Sessions,
             RollbackRefused(s) \/ RollbackConfirmed(s) \/ RollbackStep(s)
      PROVE LockHeld' /\ OneMigrator'
    BY <1>4 DEF RollbackRefused, RollbackConfirmed, RollbackStep, RollbackCheck,
                RollbackInstall, RollbackFinish
<1>5. ASSUME NEW s \in Sessions, NEW m \in Migrations, RollbackCommand(s, m)
      PROVE LockHeld' /\ OneMigrator'
    BY <1>5 DEF RollbackCommand
<1>6. ASSUME NEW s \in Sessions, NEW u \in Updates, Update(s, u)
      PROVE LockHeld' /\ OneMigrator'
    BY <1>6 DEF Update
<1>7. CASE OperatorUnlock
    BY <1>7 DEF OperatorUnlock
<1>8. CASE UNCHANGED vars
    BY <1>8 DEF vars
<1> QED
    BY <1>1, <1>2, <1>3, <1>4, <1>5, <1>6, <1>7, <1>8 DEF Next

\* The journal part of the invariant: each step keeps it, given the lock.
LEMMA MigrationJournal ==
    ASSUME MigrationInv, [Next]_vars, TypeOK', Working'
    PROVE  /\ AtMostOnePending' /\ OneLegacyManifest' /\ JournalsAgree'
           /\ SessionConsistent' /\ BackedUp'
<1> USE DEF MigrationInv, AtMostOnePending, OneLegacyManifest, JournalsAgree,
            SessionConsistent, BackedUp, Pending, Preparing, Snapshots,
            TypeOK, Working, Goto, Work, journal
<1> DEFINE Kept == /\ AtMostOnePending' /\ OneLegacyManifest' /\ JournalsAgree'
                   /\ SessionConsistent' /\ BackedUp'
\* Only one session is between the choice and the release.
<1>0. ASSUME NEW s \in Sessions, NEW r \in Sessions, r # s, pc[s] \in LockedSteps
      PROVE pc[r] \notin LockedSteps
    BY <1>0 DEF OneMigrator, Live
<1>1. ASSUME NEW s \in Sessions, MigrateCommand(s) \/ MigrateRefused(s) \/ AcquireLock(s) PROVE Kept
    BY <1>1 DEF MigrateCommand, MigrateRefused, AcquireLock
<1>2. ASSUME NEW s \in Sessions, OpenAndDiscard(s) PROVE Kept
    <2>1. AtMostOnePending' /\ OneLegacyManifest'
        BY <1>2, ContentFacts DEF OpenAndDiscard
    <2>2. JournalsAgree'
        BY <1>2 DEF OpenAndDiscard
    <2>3. BackedUp'
        BY <1>2, ContentFacts, MigrationConstants DEF OpenAndDiscard
    <2>4. ASSUME NEW r \in Sessions PROVE SessionConsistent!(r)'
        <3>1. CASE r = s
            BY <3>1, <1>2, ContentFacts DEF OpenAndDiscard
        <3>2. CASE r # s
            <4>1. pc[r] \notin LockedSteps /\ pc'[r] = pc[r] /\ mine'[r] = mine[r]
                BY <3>2, <1>0, <1>2 DEF OpenAndDiscard
            <4>2. pc[r] = "rb-install" => mine[r] \in Migrations /\ place'[mine[r]] = place[mine[r]]
                BY <1>2 DEF OpenAndDiscard
            <4> QED
                BY <4>1, <4>2
        <3> QED
            BY <3>1, <3>2
    <2> QED
        BY <2>1, <2>2, <2>3, <2>4
<1>3. ASSUME NEW s \in Sessions, ChoosePending(s) PROVE Kept
    BY <1>3 DEF ChoosePending
<1>4. ASSUME NEW s \in Sessions, PrepareSnapshots(s) PROVE Kept
    <2>1. CASE manifest.schema = "legacy"
        <3>1. PICK m \in Migrations :
                /\ place[m] = "none" /\ backup[m] = NoMigration
                /\ before' = [before EXCEPT ![m] = manifest]
                /\ after' = [after EXCEPT ![m] = BuildV1Manifest(manifest, m)]
                /\ Work(s, "backup", m)
            BY <1>4, <2>1 DEF PrepareSnapshots
        <3>2. UNCHANGED <<manifest, place, backup>> /\ manifest = NoContent
            BY <1>4, <2>1 DEF PrepareSnapshots
        <3>3. \A n \in Migrations : n # m => before'[n] = before[n] /\ after'[n] = after[n]
            BY <3>1
        <3>4. before'[m] = NoContent /\ after'[m] = BuildV1Manifest(NoContent, m)
            BY <3>1, <3>2
        <3>5. AtMostOnePending' /\ OneLegacyManifest' /\ JournalsAgree'
            BY <3>1, <3>2, <3>3
        <3>6. BackedUp'
            BY <3>1, <3>2, <3>3
        <3>7. ASSUME NEW r \in Sessions PROVE SessionConsistent!(r)'
            <4>1. CASE r = s
                BY <4>1, <1>4, <3>1, <3>2, <3>4 DEF PrepareSnapshots
            <4>2. CASE r # s
                <5>1. pc[r] \notin LockedSteps /\ pc'[r] = pc[r] /\ mine'[r] = mine[r]
                    BY <4>2, <1>0, <1>4, <3>1 DEF PrepareSnapshots
                <5> QED
                    BY <5>1, <3>2
            <4> QED
                BY <4>1, <4>2
        <3> QED
            BY <3>5, <3>6, <3>7
    <2>2. CASE manifest.schema # "legacy"
        BY <1>4, <2>2 DEF PrepareSnapshots
    <2> QED
        BY <2>1, <2>2
<1>5. ASSUME NEW s \in Sessions, CreateBackup(s) PROVE Kept
    BY <1>5 DEF CreateBackup
<1>6. ASSUME NEW s \in Sessions, StageSnapshots(s) PROVE Kept
    <2>1. AtMostOnePending' /\ OneLegacyManifest'
        BY <1>6, ContentFacts DEF StageSnapshots
    <2>2. JournalsAgree'
        BY <1>6 DEF StageSnapshots
    <2>3. BackedUp'
        BY <1>6, ContentFacts, MigrationConstants DEF StageSnapshots
    <2>4. ASSUME NEW r \in Sessions PROVE SessionConsistent!(r)'
        <3>1. CASE r = s
            BY <3>1, <1>6, ContentFacts DEF StageSnapshots
        <3>2. CASE r # s
            BY <3>2, <1>0, <1>6, ContentFacts DEF StageSnapshots
        <3> QED
            BY <3>1, <3>2
    <2> QED
        BY <2>1, <2>2, <2>3, <2>4
<1>7. ASSUME NEW s \in Sessions, PublishPending(s) PROVE Kept
    <2>1. AtMostOnePending' /\ OneLegacyManifest'
        BY <1>7, ContentFacts DEF PublishPending
    <2>2. JournalsAgree'
        BY <1>7 DEF PublishPending
    <2>3. BackedUp'
        BY <1>7, ContentFacts, MigrationConstants DEF PublishPending
    <2>4. ASSUME NEW r \in Sessions PROVE SessionConsistent!(r)'
        <3>1. CASE r = s
            BY <3>1, <1>7, ContentFacts DEF PublishPending
        <3>2. CASE r # s
            BY <3>2, <1>0, <1>7, ContentFacts DEF PublishPending
        <3> QED
            BY <3>1, <3>2
    <2> QED
        BY <2>1, <2>2, <2>3, <2>4
<1>8. ASSUME NEW s \in Sessions, CommitCheck(s) PROVE Kept
    BY <1>8 DEF CommitCheck
<1>9. ASSUME NEW s \in Sessions, CommitInstall(s) PROVE Kept
    <2>0. mine[s] \in Migrations /\ manifest' = BuildV1Manifest(NoContent, mine[s])
        BY <1>9 DEF CommitInstall
    <2>1. AtMostOnePending' /\ OneLegacyManifest'
        <3>1. manifest'.schema = "current"
            BY <2>0, ContentFacts
        <3> QED
            BY <1>9, <3>1 DEF CommitInstall
    <2>2. JournalsAgree'
        BY <1>9 DEF CommitInstall
    <2>3. BackedUp'
        <3>1. manifest'.by = mine[s] /\ manifest'.rev = NoContent.rev + 1
            BY <2>0, ContentFacts
        <3>2. place[mine[s]] = "pending" /\ backup[mine[s]] = NoContent /\ before[mine[s]] = NoContent
            BY <1>9 DEF CommitInstall
        <3> QED
            BY <1>9, <3>1, <3>2 DEF CommitInstall
    <2>4. ASSUME NEW r \in Sessions PROVE SessionConsistent!(r)'
        <3>1. CASE r = s
            BY <3>1, <1>9, ContentFacts DEF CommitInstall
        <3>2. CASE r # s
            BY <3>2, <1>0, <1>9, ContentFacts DEF CommitInstall
        <3> QED
            BY <3>1, <3>2
    <2> QED
        BY <2>1, <2>2, <2>3, <2>4
<1>10. ASSUME NEW s \in Sessions, CommitFinish(s) PROVE Kept
    <2>1. AtMostOnePending' /\ OneLegacyManifest'
        BY <1>10, ContentFacts DEF CommitFinish
    <2>2. JournalsAgree'
        BY <1>10 DEF CommitFinish
    <2>3. BackedUp'
        BY <1>10, ContentFacts, MigrationConstants DEF CommitFinish
    <2>4. ASSUME NEW r \in Sessions PROVE SessionConsistent!(r)'
        <3>1. CASE r = s
            BY <3>1, <1>10, ContentFacts DEF CommitFinish
        <3>2. CASE r # s
            BY <3>2, <1>0, <1>10, ContentFacts DEF CommitFinish
        <3> QED
            BY <3>1, <3>2
    <2> QED
        BY <2>1, <2>2, <2>3, <2>4
<1>11. ASSUME NEW s \in Sessions, ReleaseLock(s) PROVE Kept
    BY <1>11 DEF ReleaseLock
<1>12. ASSUME NEW s \in Sessions, RollbackRefused(s) \/ RollbackConfirmed(s) \/ RollbackCheck(s) PROVE Kept
    BY <1>12 DEF RollbackRefused, RollbackConfirmed, RollbackCheck
<1>13. ASSUME NEW s \in Sessions, RollbackInstall(s) PROVE Kept
    <2>0. manifest' = NoContent
        BY <1>13 DEF RollbackInstall
    <2>1. AtMostOnePending' /\ OneLegacyManifest'
        BY <1>13, <2>0, ContentFacts DEF RollbackInstall
    <2>2. JournalsAgree'
        BY <1>13 DEF RollbackInstall
    <2>3. BackedUp'
        BY <2>0, ContentFacts, MigrationConstants
    <2>4. ASSUME NEW r \in Sessions PROVE SessionConsistent!(r)'
        <3>1. CASE r = s
            BY <3>1, <1>13, ContentFacts DEF RollbackInstall
        <3>2. CASE r # s
            BY <3>2, <2>0, <1>13 DEF RollbackInstall
        <3> QED
            BY <3>1, <3>2
    <2> QED
        BY <2>1, <2>2, <2>3, <2>4
<1>14. ASSUME NEW s \in Sessions, RollbackFinish(s) PROVE Kept
    <2>1. AtMostOnePending' /\ OneLegacyManifest' /\ JournalsAgree'
        BY <1>14 DEF RollbackFinish
    <2>2. BackedUp'
        <3> SUFFICES ASSUME NEW m \in Migrations, manifest.by = m PROVE place'[m] = place[m]
            BY <1>14 DEF RollbackFinish
        <3>1. place[m] # "none" /\ manifest.rev = before[m].rev + 1 /\ before[m].rev = 0
            BY ContentFacts
        <3> QED
            BY <1>14, <3>1 DEF RollbackFinish
    <2>3. SessionConsistent'
        BY <1>14 DEF RollbackFinish
    <2> QED
        BY <2>1, <2>2, <2>3
<1>15. ASSUME NEW s \in Sessions, RecoverTransactions(s) \/ Crash(s) PROVE Kept
    BY <1>15 DEF RecoverTransactions, Crash
<1>16. ASSUME NEW s \in Sessions, NEW m \in Migrations, RollbackCommand(s, m) PROVE Kept
    BY <1>16 DEF RollbackCommand
<1>17. ASSUME NEW s \in Sessions, NEW u \in Updates, Update(s, u) PROVE Kept
    BY <1>17, ContentFacts, MigrationConstants DEF Update
<1>18. CASE OperatorUnlock
    BY <1>18 DEF OperatorUnlock
<1>19. CASE UNCHANGED vars
    BY <1>19 DEF vars
<1> QED
    BY <1>1, <1>2, <1>3, <1>4, <1>5, <1>6, <1>7, <1>8, <1>9, <1>10, <1>11, <1>12, <1>13, <1>14, <1>15, <1>16, <1>17, <1>18, <1>19
    DEF Next, MigrateStep, RollbackStep

\* MigrationInv is inductive.
LEMMA MigrationStep == MigrationInv /\ [Next]_vars => MigrationInv'
<1> SUFFICES ASSUME MigrationInv, [Next]_vars PROVE MigrationInv'
    OBVIOUS
<1>1. TypeOK' /\ Working'
    BY MigrationType DEF MigrationInv
<1>2. LockHeld' /\ OneMigrator'
    BY MigrationLock DEF MigrationInv
<1> QED
    BY <1>1, <1>2, MigrationJournal DEF MigrationInv

LEMMA MigrationAlways == Spec => []MigrationInv
BY MigrationInit, MigrationStep, PTL DEF Spec

\* The type invariant, for every instance.
THEOREM MigrationTypeCorrect == Spec => []TypeOK
<1>1. MigrationInv => TypeOK
    BY DEF MigrationInv
<1> QED
    BY <1>1, MigrationAlways, PTL

\* The lock file of migrateProject keeps migrations apart, whatever crashes and
\* whenever the operator removes the lock of a dead process.
THEOREM LockExcludes == Spec => []OneMigrator
<1>1. MigrationInv => OneMigrator
    BY DEF MigrationInv
<1> QED
    BY <1>1, MigrationAlways, PTL

\* The pending directory never holds the two migrations that make
\* migrateProjectUnlocked give up.
THEOREM PendingIsUnique == Spec => []AtMostOnePending
<1>1. MigrationInv => AtMostOnePending
    BY DEF MigrationInv
<1> QED
    BY <1>1, MigrationAlways, PTL

\* A migrated manifest always has its journal and a backup of what it replaced.
THEOREM MigratedIsBackedUp == Spec => []BackedUp
<1>1. MigrationInv => BackedUp
    BY DEF MigrationInv
<1> QED
    BY <1>1, MigrationAlways, PTL

\* Used by one session at a time, rollback undoes the migration and nothing
\* else: between its check and its write the manifest is unchanged.
THEOREM RollbackIsLossless == ASSUME OneSession PROVE Spec => RollbackLossless
<1>1. Init => RollbackStillValid
    BY DEF Init, RollbackStillValid
<1>2. ASSUME MigrationInv, RollbackStillValid, [Next]_vars PROVE RollbackStillValid'
    <2> USE DEF RollbackStillValid, OneSession, MigrationInv, TypeOK, Goto, Work, journal
    <2>1. ASSUME NEW s \in Sessions,
                 MigrateCommand(s) \/ MigrateRefused(s) \/ AcquireLock(s) \/ MigrateStep(s)
          PROVE RollbackStillValid'
        BY <1>2, <2>1 DEF MigrateCommand, MigrateRefused, AcquireLock, MigrateStep, OpenAndDiscard,
                    ChoosePending, PrepareSnapshots, CreateBackup, StageSnapshots,
                    PublishPending, CommitCheck, CommitInstall, CommitFinish, ReleaseLock
    <2>2. ASSUME NEW s \in Sessions,
                 RollbackRefused(s) \/ RollbackConfirmed(s) \/ RollbackStep(s)
          PROVE RollbackStillValid'
        BY <1>2, <2>2 DEF RollbackRefused, RollbackConfirmed, RollbackStep, RollbackCheck,
                    RollbackInstall, RollbackFinish
    <2>3. ASSUME NEW s \in Sessions, NEW m \in Migrations, RollbackCommand(s, m)
          PROVE RollbackStillValid'
        BY <1>2, <2>3 DEF RollbackCommand
    <2>4. ASSUME NEW s \in Sessions, NEW u \in Updates, Update(s, u)
          PROVE RollbackStillValid'
        BY <1>2, <2>4 DEF Update
    <2>5. ASSUME NEW s \in Sessions, RecoverTransactions(s) \/ Crash(s)
          PROVE RollbackStillValid'
        BY <1>2, <2>5 DEF RecoverTransactions, Crash
    <2>6. CASE OperatorUnlock
        BY <1>2, <2>6 DEF OperatorUnlock
    <2>7. CASE UNCHANGED vars
        BY <1>2, <2>7 DEF vars
    <2> QED
        BY <1>2, <2>1, <2>2, <2>3, <2>4, <2>5, <2>6, <2>7 DEF Next
<1>3. Spec => []RollbackStillValid
    BY <1>1, <1>2, MigrationAlways, PTL DEF Spec
<1>4. ASSUME MigrationInv, RollbackStillValid, [Next]_vars,
             manifest'.schema # manifest.schema, manifest.schema = "current"
      PROVE \E m \in Migrations : manifest = after[m] /\ manifest' = before[m]
    <2>1. \/ \E s \in Sessions : CommitInstall(s) \/ RollbackInstall(s)
          \/ \E s \in Sessions, u \in Updates : Update(s, u) /\ manifest' # manifest
        BY <1>4 DEF Next, vars, MigrateStep, RollbackStep, MigrateCommand, MigrateRefused,
            AcquireLock, OpenAndDiscard, ChoosePending, PrepareSnapshots, CreateBackup,
            StageSnapshots, PublishPending, CommitCheck, CommitFinish, ReleaseLock,
            RollbackRefused, RollbackConfirmed, RollbackCheck, RollbackCommand,
            RollbackFinish, RecoverTransactions, Crash, OperatorUnlock
    <2>2. ASSUME NEW s \in Sessions, CommitInstall(s) PROVE FALSE
        <3>1. manifest' = BuildV1Manifest(NoContent, mine[s]) /\ mine[s] \in Migrations
            BY <1>4, <2>2 DEF CommitInstall, MigrationInv, Working, SessionConsistent,
                              JournalsAgree, Snapshots
        <3> QED
            BY <1>4, <3>1, ContentFacts
    <2>3. ASSUME NEW s \in Sessions, NEW u \in Updates, Update(s, u), manifest' # manifest
          PROVE FALSE
        BY <1>4, <2>3 DEF Update
    <2>4. ASSUME NEW s \in Sessions, RollbackInstall(s)
          PROVE mine[s] \in Migrations /\ manifest = after[mine[s]] /\ manifest' = before[mine[s]]
        BY <1>4, <2>4 DEF RollbackInstall, RollbackStillValid, MigrationInv, Working
    <2> QED
        BY <2>1, <2>2, <2>3, <2>4
<1>5. MigrationInv /\ RollbackStillValid /\ [Next]_vars =>
        [manifest'.schema # manifest.schema /\ manifest.schema = "current" =>
           \E m \in Migrations : manifest = after[m] /\ manifest' = before[m]]_vars
    BY <1>4
<1> QED
    BY <1>3, <1>5, MigrationAlways, PTL DEF Spec, RollbackLossless
=============================================================================
