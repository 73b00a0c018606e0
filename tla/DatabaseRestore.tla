--------------------------- MODULE DatabaseRestore ---------------------------
(***************************************************************************)
(* The mail memory database as files: the SQLite main file and the         *)
(* write-ahead log beside it, the verified backups of the running server   *)
(* and the offline restore that puts one of them back (src/src/storage/    *)
(* backup-restore.js, the backup job of persistent-mail-memory.js and      *)
(* src/scripts/mail-memory-admin.mjs).  The content of a database is the   *)
(* number of the last transaction committed in it.                         *)
(***************************************************************************)
EXTENDS Naturals

CONSTANTS
  MaxCommits,   \* bound: transactions
  MaxRestores   \* bound: runs of the restore command

ASSUME RestoreAssumption == MaxCommits \in Nat \ {0} /\ MaxRestores \in Nat

Nothing == 0    \* no such file; no transaction has this number

VARIABLES
  serverUp,
  commits,      \* transactions committed so far
  mainFile,     \* what the main file holds, Nothing when there is none
  walFile,      \* what the log brings it to, Nothing when there is no log
  backups,      \* the backup files, by content
  backupJob,    \* the backup whose checksum is being read
  manifests,    \* recorded backups: what the file holds, what was counted
  restore,      \* the restore command: how far it is, and what it began with
  restores,
  rollbacks     \* the files of restore-rollbacks: the run that made it, its content

restoreVars == <<serverUp, commits, mainFile, walFile, backups, backupJob, manifests, restore, restores, rollbacks>>

\* What SQLite shows of a main file with a log beside it.
Opened(main, wal) == IF wal = Nothing THEN main ELSE wal

Contents == 0..MaxCommits
Ended == {"none", "restored", "failed", "killed"}
Steps == {"copied", "cleared", "moved", "installed"}
RestoreRuns == [at : Ended \cup Steps, source : Contents, main : Contents, committed : Contents]

\* Types of the state.
RestoreTypeOK ==
  /\ serverUp \in BOOLEAN
  /\ commits \in Contents
  /\ mainFile \in Contents /\ walFile \in Contents
  /\ backups \subseteq Contents /\ backupJob \in Contents
  /\ manifests \subseteq [file : Contents, counted : Contents]
  /\ restore \in RestoreRuns
  /\ restores \in 0..MaxRestores
  /\ rollbacks \subseteq [of : 1..MaxRestores, holds : Contents]

RestoreInit ==
  /\ serverUp = FALSE /\ commits = 1
  /\ mainFile = 1 /\ walFile = Nothing
  /\ backups = {} /\ backupJob = Nothing /\ manifests = {}
  /\ restore = [at |-> "none", source |-> Nothing, main |-> Nothing, committed |-> Nothing]
  /\ restores = 0 /\ rollbacks = {}

\* What the files of restore-rollbacks hold.
Aside == {file.holds : file \in rollbacks}

UnchangedFiles == UNCHANGED <<mainFile, walFile, rollbacks>>
UnchangedBackups == UNCHANGED <<backups, backupJob, manifests>>
UnchangedRestore == UNCHANGED <<restore, restores>>

-----------------------------------------------------------------------------
\* The server and its store.

(* The store opens its database, makes an empty one where there is none,    *)
(* and the log is applied.  The operator starts it when no restore runs.    *)
StartServer ==
  /\ ~serverUp /\ restore.at \in Ended
  /\ IF Opened(mainFile, walFile) = Nothing
     THEN commits < MaxCommits /\ commits' = commits + 1 /\ mainFile' = commits + 1
     ELSE mainFile' = Opened(mainFile, walFile) /\ UNCHANGED commits
  /\ walFile' = Nothing
  /\ serverUp' = TRUE
  /\ restore' = [restore EXCEPT !.at = "none"]
  /\ UnchangedBackups
  /\ UNCHANGED <<restores, rollbacks>>

\* A transaction goes to the log; the log may be checkpointed at any time.
CommitRow ==
  /\ serverUp /\ commits < MaxCommits
  /\ commits' = commits + 1
  /\ walFile' = commits + 1
  /\ UnchangedBackups /\ UnchangedRestore
  /\ UNCHANGED <<serverUp, mainFile, rollbacks>>

Checkpoint ==
  /\ serverUp /\ walFile # Nothing
  /\ mainFile' = walFile /\ walFile' = Nothing
  /\ UnchangedBackups /\ UnchangedRestore
  /\ UNCHANGED <<serverUp, commits, rollbacks>>

\* gracefulShutdown: close() checkpoints.  A backup in flight dies with it.
StopServer ==
  /\ serverUp
  /\ serverUp' = FALSE /\ backupJob' = Nothing
  /\ mainFile' = Opened(mainFile, walFile) /\ walFile' = Nothing
  /\ UnchangedRestore
  /\ UNCHANGED <<commits, backups, manifests, rollbacks>>

\* The process is killed: the log stays.
KillServer ==
  /\ serverUp
  /\ serverUp' = FALSE /\ backupJob' = Nothing
  /\ UnchangedFiles /\ UnchangedRestore
  /\ UNCHANGED <<commits, backups, manifests>>

-----------------------------------------------------------------------------
\* backup() and createVerifiedBackup.

(* The job is recorded as running; backupTo checkpoints and copies, and the *)
(* copy is validated.  One job at a time.                                   *)
WriteBackup ==
  /\ serverUp /\ backupJob = Nothing /\ commits < MaxCommits
  /\ commits' = commits + 1
  /\ mainFile' = commits + 1 /\ walFile' = Nothing
  /\ backups' = backups \cup {commits + 1}
  /\ backupJob' = commits + 1
  /\ UnchangedRestore
  /\ UNCHANGED <<serverUp, manifests, rollbacks>>

(* Its checksum was read: the manifest takes the counts of this moment, the *)
(* job is completed and the log is truncated.                               *)
RecordBackup ==
  /\ backupJob # Nothing /\ commits < MaxCommits
  /\ manifests' = manifests \cup {[file |-> backupJob, counted |-> Opened(mainFile, walFile)]}
  /\ backupJob' = Nothing
  /\ commits' = commits + 1
  /\ mainFile' = commits + 1 /\ walFile' = Nothing
  /\ UnchangedRestore
  /\ UNCHANGED <<serverUp, backups, rollbacks>>

\* It failed: the job ends as a dead letter, the file stays.
FailBackup ==
  /\ backupJob # Nothing /\ commits < MaxCommits
  /\ backupJob' = Nothing
  /\ commits' = commits + 1
  /\ walFile' = commits + 1
  /\ UnchangedRestore
  /\ UNCHANGED <<serverUp, mainFile, backups, manifests, rollbacks>>

-----------------------------------------------------------------------------
\* restoreDatabaseFromBackup.

UnchangedOthers == UNCHANGED <<serverUp, commits, backups, backupJob, manifests, restores>>

\* --confirm-stopped: the backup is validated, copied and validated again.
BeginRestore(source) ==
  /\ ~serverUp /\ restore.at \in Ended /\ restores < MaxRestores
  /\ source \in backups
  /\ restores' = restores + 1
  /\ restore' = [at |-> "copied", source |-> source, main |-> mainFile,
                 committed |-> Opened(mainFile, walFile)]
  /\ UnchangedFiles /\ UnchangedBackups
  /\ UNCHANGED <<serverUp, commits>>

\* The log of the old database stays beside the new one.
BadClearSidecars ==
  /\ restore.at = "copied"
  /\ restore' = [restore EXCEPT !.at = "cleared"]
  /\ UnchangedFiles /\ UnchangedOthers

\* The -wal and -shm files are removed.
ClearSidecars ==
  /\ restore.at = "copied"
  /\ walFile' = Nothing
  /\ restore' = [restore EXCEPT !.at = "cleared"]
  /\ UnchangedOthers
  /\ UNCHANGED <<mainFile, rollbacks>>

\* The live file, if there is one, is renamed to the rollback path.
MoveLive ==
  /\ restore.at = "cleared"
  /\ rollbacks' = IF mainFile = Nothing THEN rollbacks ELSE rollbacks \cup {[of |-> restores, holds |-> mainFile]}
  /\ mainFile' = Nothing
  /\ restore' = [restore EXCEPT !.at = "moved"]
  /\ UnchangedOthers
  /\ UNCHANGED walFile

\* The copy is renamed to the live path.
InstallCopy ==
  /\ restore.at = "moved"
  /\ mainFile' = restore.source
  /\ restore' = [restore EXCEPT !.at = "installed"]
  /\ UnchangedOthers
  /\ UNCHANGED <<walFile, rollbacks>>

\* The live file is validated and the command reports.
FinishRestore ==
  /\ restore.at = "installed"
  /\ restore' = [restore EXCEPT !.at = "restored"]
  /\ UnchangedFiles /\ UnchangedOthers

(* A step fails.  The live file comes back from the rollback path where the *)
(* live path is empty: not once the copy is installed.                      *)
FailRestore ==
  /\ restore.at \in Steps
  /\ restore' = [restore EXCEPT !.at = "failed"]
  /\ IF restore.at = "moved" /\ restore.main # Nothing
     THEN mainFile' = restore.main /\ rollbacks' = {file \in rollbacks : file.of # restores}
     ELSE UNCHANGED <<mainFile, rollbacks>>
  /\ UnchangedOthers
  /\ UNCHANGED walFile

\* The command is killed between two steps: nothing is put back.
KillRestore ==
  /\ restore.at \in Steps
  /\ restore' = [restore EXCEPT !.at = "killed"]
  /\ UnchangedFiles /\ UnchangedOthers

RestoreNext ==
  \/ StartServer \/ CommitRow \/ Checkpoint \/ StopServer \/ KillServer
  \/ WriteBackup \/ RecordBackup \/ FailBackup
  \/ \E source \in backups : BeginRestore(source)
  \/ ClearSidecars \/ MoveLive \/ InstallCopy \/ FinishRestore \/ FailRestore \/ KillRestore

RestoreSpec == RestoreInit /\ [][RestoreNext]_restoreVars

-----------------------------------------------------------------------------
(* A restore that reports success leaves the database the backup holds, and *)
(* not what the log of the replaced database makes of it; and whether it    *)
(* succeeds, fails or is killed, the main file it began with is the live    *)
(* one or in restore-rollbacks.                                             *)
RestoredIsTheBackup ==
  /\ restore.at = "restored" => Opened(mainFile, walFile) = restore.source
  /\ restore.at # "none" /\ restore.main # Nothing
       => mainFile = restore.main \/ restore.main \in Aside

=============================================================================
