-------------------------- MODULE ProjectMigration --------------------------
(***************************************************************************)
(* Schema migration of a research project                                  *)
(* (packages/research-agent/src/project/migrate.ts, the backup it takes,   *)
(* and the /research-migrate command that drives it).                      *)
(*                                                                         *)
(* /research-migrate asks the user, takes a lock file, discards what an    *)
(* earlier run left in staging/, and then resumes the pending migration or *)
(* prepares one: backup, snapshots, journal, rename into pending/.  Commit *)
(* replaces the manifest and renames the directory into committed/.        *)
(* Rollback puts the old manifest back and takes no lock.                  *)
(*                                                                         *)
(* A manifest content is its schema, its revision and whoever built it     *)
(* (updatedAt makes two migrations build different bytes).  The snapshots  *)
(* of migration m are before[m] and after[m]; nothing rewrites them, so    *)
(* their hash checks are not modelled.  All supported schemas migrate in   *)
(* one step, so there is one "legacy" schema.                              *)
(***************************************************************************)
EXTENDS Naturals

CONSTANTS Sessions,     \* processes that may run the commands
          Migrations,   \* migration ids, each used once
          Updates,      \* ordinary transactions, each used once
          Legacy,       \* the writer of the manifest found by the program
          NoMigration

ASSUME MigrationConstants ==
    /\ Legacy \notin Migrations \cup Updates
    /\ Migrations \cap Updates = {}
    /\ NoMigration \notin Migrations

VARIABLES
    manifest,  \* content of research-project.json
    leftover,  \* .research/transactions/pending is not empty
    lock,      \* .research/locks/migration.lock exists
    place,     \* directory that holds the migration
    before,    \* manifest.before.json
    after,     \* manifest.after.json
    backup,    \* the manifest in the committed backup of a migration
    used,      \* updates done so far
    pc,        \* step of the command a session is executing
    mine,      \* the migration it works on
    seen       \* schema of the project when migrateProject opened it

journal == <<place, before, after, backup>>
vars == <<manifest, leftover, lock, journal, used, pc, mine, seen>>

----------------------------------------------------------------------------
Schemas == {"legacy", "current"}
Writers == Migrations \cup Updates \cup {Legacy}
ManifestContent == [schema : Schemas, rev : Nat, by : Writers]
NoContent == [schema |-> "legacy", rev |-> 0, by |-> Legacy]

Places == {"none", "staging", "pending", "committed", "rolled-back"}

\* Steps between taking and removing the lock file.
LockedSteps == {"open", "choose", "prepare", "backup", "stage", "publish",
                "commit", "install", "finish", "release"}
RollbackSteps == {"rb-confirm", "rb-check", "rb-install", "rb-finish"}
Steps == {"idle", "confirm"} \cup LockedSteps \cup RollbackSteps

Pending == {m \in Migrations : place[m] = "pending"}
Live == {s \in Sessions : pc[s] \in LockedSteps}

\* buildV1Manifest: same project, current schema, next revision.
BuildV1Manifest(raw, m) == [schema |-> "current", rev |-> raw.rev + 1, by |-> m]

TypeOK ==
    /\ manifest \in ManifestContent
    /\ leftover \in BOOLEAN
    /\ lock \in BOOLEAN
    /\ place \in [Migrations -> Places]
    /\ before \in [Migrations -> ManifestContent]
    /\ after \in [Migrations -> ManifestContent]
    /\ backup \in [Migrations -> ManifestContent \cup {NoMigration}]
    /\ used \subseteq Updates
    /\ pc \in [Sessions -> Steps]
    /\ mine \in [Sessions -> Migrations \cup {NoMigration}]
    /\ seen \in [Sessions -> Schemas]

Init ==
    /\ manifest = NoContent
    /\ leftover \in BOOLEAN
    /\ lock = FALSE
    /\ place = [m \in Migrations |-> "none"]
    /\ before = [m \in Migrations |-> NoContent]
    /\ after = [m \in Migrations |-> NoContent]
    /\ backup = [m \in Migrations |-> NoMigration]
    /\ used = {}
    /\ pc = [s \in Sessions |-> "idle"]
    /\ mine = [s \in Sessions |-> NoMigration]
    /\ seen = [s \in Sessions |-> "legacy"]

Goto(s, step) == pc' = [pc EXCEPT ![s] = step] /\ UNCHANGED <<mine, seen>>

Work(s, step, m) ==
    /\ pc' = [pc EXCEPT ![s] = step]
    /\ mine' = [mine EXCEPT ![s] = m]
    /\ UNCHANGED seen

----------------------------------------------------------------------------
(* /research-migrate *)

\* A current project returns at once, whatever is pending.
MigrateCommand(s) ==
    /\ pc[s] = "idle"
    /\ manifest.schema = "legacy"
    /\ Goto(s, "confirm")
    /\ UNCHANGED <<manifest, leftover, lock, journal, used>>

\* The user says no, or the lock file exists: MIGRATION_LOCKED.
MigrateRefused(s) ==
    /\ pc[s] = "confirm"
    /\ Goto(s, "idle")
    /\ UNCHANGED <<manifest, leftover, lock, journal, used>>

\* Mutant: open(lockPath) without the exclusive flag.
AcquireLockShared(s) ==
    /\ pc[s] = "confirm"
    /\ lock' = TRUE
    /\ Goto(s, "open")
    /\ UNCHANGED <<manifest, leftover, journal, used>>

\* open(lockPath, "wx") after the confirmation.
AcquireLock(s) ==
    /\ pc[s] = "confirm"
    /\ ~lock
    /\ lock' = TRUE
    /\ Goto(s, "open")
    /\ UNCHANGED <<manifest, leftover, journal, used>>

\* migrateProjectUnlocked opens the project and discards staged migrations.
OpenAndDiscard(s) ==
    /\ pc[s] = "open"
    /\ place' = [m \in Migrations |->
                    IF place[m] = "staging" THEN "none" ELSE place[m]]
    /\ seen' = [seen EXCEPT ![s] = manifest.schema]
    /\ pc' = [pc EXCEPT ![s] = "choose"]
    /\ UNCHANGED <<manifest, leftover, lock, before, after, backup, used, mine>>

\* Two pending migrations are an error; one is resumed; none means done on a
\* current project and a new migration on a legacy one.
ChoosePending(s) ==
    /\ pc[s] = "choose"
    /\ \/ \E m \in Pending : Pending = {m} /\ Work(s, "commit", m)
       \/ /\ \/ \E m, n \in Pending : m # n
             \/ Pending = {} /\ seen[s] = "current"
          /\ Goto(s, "release")
       \/ Pending = {} /\ seen[s] = "legacy" /\ Goto(s, "prepare")
    /\ UNCHANGED <<manifest, leftover, lock, journal, used>>

\* prepareProjectMigration opens the project again and reads both manifests.
PrepareSnapshots(s) ==
    /\ pc[s] = "prepare"
    /\ IF manifest.schema = "legacy"
       THEN \E m \in Migrations :
              /\ place[m] = "none" /\ backup[m] = NoMigration
              /\ before' = [before EXCEPT ![m] = manifest]
              /\ after' = [after EXCEPT ![m] = BuildV1Manifest(manifest, m)]
              /\ Work(s, "backup", m)
       ELSE Goto(s, "release") /\ UNCHANGED <<before, after>>
    /\ UNCHANGED <<manifest, leftover, lock, place, backup, used>>

\* Mutant: no backup is made.
CreateBackupSkipped(s) ==
    /\ pc[s] = "backup"
    /\ Goto(s, "stage")
    /\ UNCHANGED <<manifest, leftover, lock, journal, used>>

\* createProjectBackup refuses while a transaction or migration is pending.
CreateBackup(s) ==
    /\ pc[s] = "backup"
    /\ IF leftover \/ Pending # {}
       THEN Goto(s, "release") /\ UNCHANGED backup
       ELSE /\ backup' = [backup EXCEPT ![mine[s]] = manifest]
            /\ Goto(s, "stage")
    /\ UNCHANGED <<manifest, leftover, lock, place, before, after, used>>

StageSnapshots(s) ==
    /\ pc[s] = "stage"
    /\ place' = [place EXCEPT ![mine[s]] = "staging"]
    /\ Goto(s, "publish")
    /\ UNCHANGED <<manifest, leftover, lock, before, after, backup, used>>

\* The journal is complete when the directory is renamed into pending/.
PublishPending(s) ==
    /\ pc[s] = "publish"
    /\ place' = [place EXCEPT ![mine[s]] = "pending"]
    /\ Goto(s, "commit")
    /\ UNCHANGED <<manifest, leftover, lock, before, after, backup, used>>

\* commitPreparedProjectMigration: the manifest must be one of the snapshots.
CommitCheck(s) ==
    LET m == mine[s] IN
    /\ pc[s] = "commit"
    /\ \/ manifest = before[m] /\ Goto(s, "install")
       \/ manifest = after[m] /\ manifest # before[m] /\ Goto(s, "finish")
       \/ manifest \notin {before[m], after[m]} /\ Goto(s, "release")
    /\ UNCHANGED <<manifest, leftover, lock, journal, used>>

CommitInstall(s) ==
    /\ pc[s] = "install"
    /\ manifest' = after[mine[s]]
    /\ Goto(s, "finish")
    /\ UNCHANGED <<leftover, lock, journal, used>>

\* openProject(toRevision), then the directory moves to committed/.
CommitFinish(s) ==
    LET m == mine[s] IN
    /\ pc[s] = "finish"
    /\ place' = IF manifest.rev = after[m].rev
                THEN [place EXCEPT ![m] = "committed"] ELSE place
    /\ Goto(s, "release")
    /\ UNCHANGED <<manifest, leftover, lock, before, after, backup, used>>

\* The finally block.
ReleaseLock(s) ==
    /\ pc[s] = "release"
    /\ lock' = FALSE
    /\ Work(s, "idle", NoMigration)
    /\ UNCHANGED <<manifest, leftover, journal, used>>

----------------------------------------------------------------------------
(* /research-migrate rollback <id> *)

\* requireProject accepts a current project only.
RollbackCommand(s, m) ==
    /\ pc[s] = "idle"
    /\ manifest.schema = "current"
    /\ Work(s, "rb-confirm", m)
    /\ UNCHANGED <<manifest, leftover, lock, journal, used>>

\* The user says no, the migration is not committed, or the manifest is
\* neither of its snapshots.
RollbackRefused(s) ==
    LET m == mine[s] IN
    /\ \/ pc[s] = "rb-confirm"
       \/ /\ pc[s] = "rb-check"
          /\ \/ place[m] # "committed"
             \/ manifest \notin {before[m], after[m]}
    /\ Work(s, "idle", NoMigration)
    /\ UNCHANGED <<manifest, leftover, lock, journal, used>>

RollbackConfirmed(s) ==
    /\ pc[s] = "rb-confirm"
    /\ Goto(s, "rb-check")
    /\ UNCHANGED <<manifest, leftover, lock, journal, used>>

\* rollbackProjectMigration compares the current manifest with the snapshots.
RollbackCheck(s) ==
    LET m == mine[s] IN
    /\ pc[s] = "rb-check"
    /\ place[m] = "committed"
    /\ \/ manifest = after[m] /\ Goto(s, "rb-install")
       \/ manifest = before[m] /\ Goto(s, "rb-finish")
    /\ UNCHANGED <<manifest, leftover, lock, journal, used>>

RollbackInstall(s) ==
    /\ pc[s] = "rb-install"
    /\ manifest' = before[mine[s]]
    /\ Goto(s, "rb-finish")
    /\ UNCHANGED <<leftover, lock, journal, used>>

\* openProject(fromRevision), then the directory moves to rolled-back/.
RollbackFinish(s) ==
    LET m == mine[s] IN
    /\ pc[s] = "rb-finish"
    /\ place' = IF manifest.rev = before[m].rev /\ place[m] = "committed"
                THEN [place EXCEPT ![m] = "rolled-back"] ELSE place
    /\ Work(s, "idle", NoMigration)
    /\ UNCHANGED <<manifest, leftover, lock, before, after, backup, used>>

----------------------------------------------------------------------------
(* Everything else that touches the project *)

\* An ordinary transaction of an idle session (ProjectTransactions), complete
\* or interrupted before its manifest was written.
Update(s, u) ==
    /\ pc[s] = "idle"
    /\ manifest.schema = "current"
    /\ u \notin used
    /\ used' = used \cup {u}
    /\ \/ /\ manifest' = [schema |-> "current", rev |-> manifest.rev + 1, by |-> u]
          /\ UNCHANGED leftover
       \/ leftover' = TRUE /\ UNCHANGED manifest
    /\ UNCHANGED <<lock, journal, pc, mine, seen>>

\* /research-recover needs a current project as well.
RecoverTransactions(s) ==
    /\ pc[s] = "idle"
    /\ manifest.schema = "current"
    /\ leftover
    /\ leftover' = FALSE
    /\ UNCHANGED <<manifest, lock, journal, used, pc, mine, seen>>

\* A process dies; a lock file it created stays.
Crash(s) ==
    /\ pc[s] # "idle"
    /\ Work(s, "idle", NoMigration)
    /\ UNCHANGED <<manifest, leftover, lock, journal, used>>

\* The operator deletes a stale lock, once the process is known to be dead.
OperatorUnlock ==
    /\ lock
    /\ Live = {}
    /\ lock' = FALSE
    /\ UNCHANGED <<manifest, leftover, journal, used, pc, mine, seen>>

----------------------------------------------------------------------------
MigrateStep(s) ==
    \/ OpenAndDiscard(s) \/ ChoosePending(s) \/ PrepareSnapshots(s)
    \/ CreateBackup(s) \/ StageSnapshots(s) \/ PublishPending(s)
    \/ CommitCheck(s) \/ CommitInstall(s) \/ CommitFinish(s) \/ ReleaseLock(s)

RollbackStep(s) ==
    RollbackCheck(s) \/ RollbackInstall(s) \/ RollbackFinish(s)

Next ==
    \/ \E s \in Sessions :
         \/ MigrateCommand(s) \/ MigrateRefused(s) \/ AcquireLock(s)
         \/ MigrateStep(s)
         \/ \E m \in Migrations : RollbackCommand(s, m)
         \/ RollbackRefused(s) \/ RollbackConfirmed(s) \/ RollbackStep(s)
         \/ \E u \in Updates : Update(s, u)
         \/ RecoverTransactions(s)
         \/ Crash(s)
    \/ OperatorUnlock

Spec == Init /\ [][Next]_vars

----------------------------------------------------------------------------
(* Properties *)

\* One migration runs at a time, across crashes, stale locks and their removal.
OneMigrator == \A s, r \in Live : s = r

\* migrateProjectUnlocked gives up for good on two pending migrations; crashes
\* and retries, with rollbacks and writers in between, never produce them.
AtMostOnePending == \A m, n \in Pending : m = n

\* A manifest built by a migration is only ever in place with its journal and
\* with a backup of exactly the manifest it replaced.
BackedUp ==
    \A m \in Migrations :
        manifest.by = m => /\ place[m] \in {"pending", "committed"}
                           /\ backup[m] = before[m]
                           /\ manifest.rev = before[m].rev + 1

\* A project leaves the current schema only by undoing the last thing that was
\* written to it: rollback loses no later write.
RollbackLossless ==
    [][manifest'.schema # manifest.schema /\ manifest.schema = "current" =>
          \E m \in Migrations : manifest = after[m] /\ manifest' = before[m]]_vars

----------------------------------------------------------------------------
(* Inductive invariant *)

\* A session that has chosen a migration knows which.
Working ==
    \A s \in Sessions :
        pc[s] \notin {"idle", "confirm", "open", "choose", "prepare", "release"} =>
            mine[s] \in Migrations

\* The lock file exists while somebody works under it.
LockHeld == Live # {} => lock

\* Only rollback restores a legacy manifest, and always the original one.
OneLegacyManifest == manifest.schema = "legacy" => manifest = NoContent

\* The snapshots, the journal and the backup of a migration agree.
Snapshots(m) == before[m] = NoContent /\ after[m] = BuildV1Manifest(NoContent, m)

JournalsAgree ==
    \A m \in Migrations :
        place[m] # "none" => Snapshots(m) /\ backup[m] = NoContent

\* What a session knows at each step under the lock.  From the choice to the
\* rename into pending/ the project is legacy and nothing is pending.
Preparing == Pending = {} /\ manifest = NoContent

SessionConsistent ==
    \A s \in Sessions :
        LET m == mine[s] IN
        /\ pc[s] \in {"backup", "stage", "publish"} => Preparing /\ Snapshots(m)
        /\ pc[s] = "prepare" => Pending = {}
        /\ pc[s] \in {"backup", "stage"} => place[m] = "none"
        /\ pc[s] = "publish" => place[m] = "staging"
        /\ pc[s] \in {"stage", "publish"} => backup[m] = NoContent
        /\ pc[s] \in {"commit", "install", "finish"} => place[m] = "pending"
        /\ pc[s] = "rb-install" => place[m] \in {"committed", "rolled-back"}

MigrationInv ==
    /\ TypeOK
    /\ Working
    /\ LockHeld
    /\ OneMigrator
    /\ AtMostOnePending
    /\ OneLegacyManifest
    /\ JournalsAgree
    /\ SessionConsistent
    /\ BackedUp

\* The environment of RollbackLossless: sessions do not overlap.
OneSession == \A s, r \in Sessions : s = r

RollbackStillValid ==
    \A s \in Sessions : pc[s] = "rb-install" => manifest = after[mine[s]]
=============================================================================
