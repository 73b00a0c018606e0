------------------------------- MODULE MailSync -------------------------------
(***************************************************************************)
(* Delta synchronisation of an Outlook mailbox into the SQLite store, and   *)
(* the work intake that follows it.  Each folder has a cursor, the next or  *)
(* delta link Graph returned with the last committed page; a page's rows    *)
(* and its cursor are one transaction.  The ids the pages upserted stay in  *)
(* memory until every folder is done, and are then ingested one by one.     *)
(*                                                                         *)
(* Graph is modelled by what a cursor stands for: the version of each       *)
(* message it has already told about.  A message moved to another folder    *)
(* changes its id (the client does not ask for immutable ids): it is the    *)
(* deletion of one message and the arrival of another.                      *)
(***************************************************************************)
EXTENDS Naturals, FiniteSets

CONSTANTS Folder, Message,
          FolderOf,   \* the folder of each message id
          NoFolder,   \* a sync between two folders
          MaxVer,     \* bound: how often Graph changes one message
          PageSize    \* bound: the items on one delta page

ASSUME SyncAssumption ==
    /\ FolderOf \in [Message -> Folder]
    /\ NoFolder \notin Folder
    /\ MaxVer \in Nat \ {0}
    /\ PageSize \in Nat \ {0}
    /\ IsFiniteSet(Message)

Attempts == 3

(* 0: not there yet; 1..MaxVer: live; the last one: deleted                 *)
Gone == MaxVer + 1
Version == 0..Gone
Live(v) == v \in 1..MaxVer

VARIABLES remote,    \* Graph: the version of each message
          held,      \* the folders with a stored next_link or delta_link
          told,      \* the version of each message its folder's cursor knows
          row,       \* the version of each message in the store
          inflight,  \* syncInFlight: the syncs of this mailbox now running
          taken,     \* the version of each message last ingested
          deadMail,  \* messages with an intake dead letter
          deadBox,   \* a dead letter names the whole mailbox
          crashed,   \* history: the server has restarted in mid sync
          reset,     \* history: folders that lost a cursor
          calm,      \* history: folders unchanged since their last run began
          mirrored   \* history: calm ever since a run that completed began

storeVars == <<held, told, row>>
intakeVars == <<taken, deadMail, deadBox>>
vars == <<remote, storeVars, inflight, intakeVars, crashed, reset, calm, mirrored>>

Page == [on : BOOLEAN, listed : [Message -> Version],
         items : [Message -> Version], last : BOOLEAN]

Sync == [force : BOOLEAN, todo : SUBSET Folder, at : Folder \cup {NoFolder},
         try : 1..Attempts, fresh : BOOLEAN, page : Page, ids : SUBSET Message]

TypeOK ==
    /\ remote \in [Message -> Version]
    /\ held \subseteq Folder
    /\ told \in [Message -> Version]
    /\ row \in [Message -> Version]
    /\ inflight \subseteq Sync
    /\ taken \in [Message -> Version]
    /\ deadMail \subseteq Message
    /\ deadBox \in BOOLEAN
    /\ crashed \in BOOLEAN
    /\ reset \subseteq Folder
    /\ calm \subseteq Folder
    /\ mirrored \subseteq Folder

Nothing == [m \in Message |-> 0]
NoPage == [on |-> FALSE, listed |-> Nothing, items |-> Nothing, last |-> FALSE]

Init ==
    /\ remote \in [Message -> {0, 1}]
    /\ held = {}
    /\ told = Nothing
    /\ row = Nothing
    /\ inflight = {}
    /\ taken = Nothing
    /\ deadMail = {}
    /\ deadBox = FALSE
    /\ crashed = FALSE
    /\ reset = {}
    /\ calm = {}
    /\ mirrored = {}

-----------------------------------------------------------------------------
(* Graph *)
Mails(f) == {m \in Message : FolderOf[m] = f}

Changes(m, v) ==
    /\ remote' = [remote EXCEPT ![m] = v]
    /\ calm' = calm \ {FolderOf[m]}
    /\ mirrored' = mirrored \ {FolderOf[m]}
    /\ UNCHANGED <<storeVars, inflight, intakeVars, crashed, reset>>

Arrives(m) == remote[m] = 0 /\ Changes(m, 1)
IsEdited(m) == remote[m] \in 1..(MaxVer - 1) /\ Changes(m, remote[m] + 1)
IsDeleted(m) == Live(remote[m]) /\ Changes(m, Gone)

(* what the delta query of folder f has still to tell: nothing about a      *)
(* message that came and went behind the cursor's back                      *)
Pending(f) ==
    {m \in Mails(f) : remote[m] # told[m] /\ ~(told[m] = 0 /\ remote[m] = Gone)}

-----------------------------------------------------------------------------
(* The cursor of a folder *)
ClearCursor(f) ==
    /\ held' = held \ {f}
    /\ told' = [m \in Message |-> IF FolderOf[m] = f THEN 0 ELSE told[m]]
    /\ reset' = IF f \in held THEN reset \cup {f} ELSE reset

-----------------------------------------------------------------------------
(* The synchronisation *)
BadNoneInFlight == Cardinality(inflight) < 2
NoneInFlight == inflight = {}

Becomes(op, new) == inflight' = (inflight \ {op}) \cup {new}
Ends(op) == inflight' = inflight \ {op}

(* a request that finds a sync of the mailbox in flight joins it, whatever   *)
(* its own options: no state changes                                        *)
StartSync(force) ==
    /\ NoneInFlight
    /\ inflight' = inflight \cup
         {[force |-> force, todo |-> Folder, at |-> NoFolder, try |-> 1,
           fresh |-> FALSE, page |-> NoPage, ids |-> {}]}
    /\ UNCHANGED <<remote, storeVars, intakeVars, crashed, reset, calm, mirrored>>

(* syncFolder begins, for the first time or as a retry                      *)
Open(op, f, n) ==
    /\ Becomes(op, [op EXCEPT !.todo = op.todo \ {f}, !.at = f, !.try = n,
                              !.fresh = FALSE, !.page = NoPage])
    /\ IF op.force THEN ClearCursor(f) ELSE UNCHANGED <<held, told, reset>>
    /\ calm' = calm \cup {f}
    /\ UNCHANGED <<remote, row, intakeVars, crashed, mirrored>>

NextFolder(op, f) ==
    /\ op.at = NoFolder
    /\ f \in op.todo
    /\ Open(op, f, 1)

(* Graph answers the stored link with a page of changes; the last page       *)
(* carries the delta link                                                   *)
PageArrives(op) ==
    /\ op.at # NoFolder /\ ~op.page.on
    /\ \E S \in SUBSET Pending(op.at) :
         LET last == S = Pending(op.at)
             page == [m \in Message |-> IF m \in S THEN remote[m] ELSE 0]
         IN /\ Cardinality(S) <= PageSize
            /\ S # {} \/ last
            /\ Becomes(op, [op EXCEPT !.page =
                 [on |-> TRUE, listed |-> page, items |-> page, last |-> last]])
    /\ UNCHANGED <<remote, storeVars, intakeVars, crashed, reset, calm, mirrored>>

(* a partial item is fetched again, and may be newer than the page          *)
Refetch(op, m) ==
    /\ op.page.on
    /\ Live(op.page.items[m]) /\ Live(remote[m])
    /\ op.page.items[m] < remote[m]
    /\ Becomes(op, [op EXCEPT !.page.items[m] = remote[m]])
    /\ UNCHANGED <<remote, storeVars, intakeVars, crashed, reset, calm, mirrored>>

Upserted(page) == {m \in Message : Live(page.items[m])}

(* a removed item leaves a tombstone, any other one its new version: one     *)
(* mutant keeps the old row of a removed item, one stores the link alone    *)
BadRowsAfter(page) == [m \in Message |->
    IF Live(page.items[m]) THEN page.items[m] ELSE row[m]]
BadRowsUnstored(page) == row

RowsAfter(page) == [m \in Message |->
    IF page.items[m] # 0 THEN page.items[m] ELSE row[m]]

(* applyDeltaPage; the run is complete with its last page                   *)
Commit(op) ==
    /\ op.page.on
    /\ row' = RowsAfter(op.page)
    /\ told' = [m \in Message |->
         IF op.page.listed[m] # 0 THEN op.page.listed[m] ELSE told[m]]
    /\ held' = held \cup {op.at}
    /\ Becomes(op, [op EXCEPT !.at = IF op.page.last THEN NoFolder ELSE op.at,
                              !.page = NoPage,
                              !.ids = op.ids \cup Upserted(op.page)])
    /\ mirrored' = IF op.page.last /\ op.at \in calm
                   THEN mirrored \cup {op.at} ELSE mirrored
    /\ UNCHANGED <<remote, intakeVars, crashed, reset, calm>>

-----------------------------------------------------------------------------
(* Failures.  The ids committed so far outlive them                         *)
BadIdsKept(op) == {}
IdsKept(op) == op.ids

GiveUp(op) ==
    /\ Becomes(op, [op EXCEPT !.at = NoFolder, !.page = NoPage, !.ids = IdsKept(op)])
    /\ UNCHANGED <<remote, storeVars, intakeVars, crashed, reset, calm, mirrored>>

BadMayRetry(op) == op.try <= Attempts
MayRetry(op) == op.try < Attempts

BadInterrupted(op) ==
    /\ op.at # NoFolder
    /\ IF MayRetry(op) THEN Open(op, op.at, op.try) ELSE GiveUp(op)

(* throttling, a 5xx answer, a timeout, a broken connection                 *)
Interrupted(op) ==
    /\ op.at # NoFolder
    /\ IF MayRetry(op) THEN Open(op, op.at, op.try + 1) ELSE GiveUp(op)

(* any other error: a refused request, a page that cannot be applied        *)
Fails(op) == op.at # NoFolder /\ GiveUp(op)

(* 410 Gone: one fresh run from the start                                   *)
MayReset(op) == ~op.fresh /\ ~op.force

Refresh(op) ==
    /\ ClearCursor(op.at)
    /\ Becomes(op, [op EXCEPT !.fresh = TRUE])
    /\ UNCHANGED <<remote, row, intakeVars, crashed, calm, mirrored>>

CursorExpires(op) ==
    /\ op.at \in held /\ ~op.page.on
    /\ IF MayReset(op) THEN Refresh(op) ELSE GiveUp(op)

-----------------------------------------------------------------------------
(* Intake of the ids that the pages upserted *)
AtIntake(op) == op.at = NoFolder /\ op.todo = {}

Handled(op, m) == Becomes(op, [op EXCEPT !.ids = op.ids \ {m}])

(* the source is read inside the transaction; a removed one is skipped.     *)
(* The messages of the model are received mail: sent mail is skipped too    *)
Ingest(op, m) ==
    /\ AtIntake(op) /\ m \in op.ids
    /\ taken' = IF Live(row[m]) THEN [taken EXCEPT ![m] = row[m]] ELSE taken
    /\ Handled(op, m)
    /\ UNCHANGED <<remote, storeVars, deadMail, deadBox, crashed, reset, calm, mirrored>>

IngestFails(op, m) ==
    /\ AtIntake(op) /\ m \in op.ids
    /\ deadMail' = deadMail \cup {m}
    /\ Handled(op, m)
    /\ UNCHANGED <<remote, storeVars, taken, deadBox, crashed, reset, calm, mirrored>>

(* folder discovery or the classification before the intake throws, or the  *)
(* intake is refused as a whole: the ids are dropped                        *)
MailboxFails(op) ==
    /\ op.at = NoFolder /\ op.todo \in {Folder, {}}
    /\ deadBox' = TRUE
    /\ Ends(op)
    /\ UNCHANGED <<remote, storeVars, taken, deadMail, crashed, reset, calm, mirrored>>

Finish(op) ==
    /\ AtIntake(op) /\ op.ids = {}
    /\ Ends(op)
    /\ UNCHANGED <<remote, storeVars, intakeVars, crashed, reset, calm, mirrored>>

(* the process dies: what is not in the database is gone                    *)
Restart ==
    /\ inflight # {}
    /\ inflight' = {}
    /\ crashed' = TRUE
    /\ UNCHANGED <<remote, storeVars, intakeVars, reset, calm, mirrored>>

-----------------------------------------------------------------------------
SyncStep ==
    \E op \in inflight :
        \/ \E f \in Folder : NextFolder(op, f)
        \/ PageArrives(op)
        \/ \E m \in Message : Refetch(op, m)
        \/ Commit(op)
        \/ Interrupted(op)
        \/ Fails(op)
        \/ CursorExpires(op)
        \/ \E m \in Message : Ingest(op, m) \/ IngestFails(op, m)
        \/ MailboxFails(op)
        \/ Finish(op)

GraphStep == \E m \in Message : Arrives(m) \/ IsEdited(m) \/ IsDeleted(m)

Next ==
    \/ GraphStep
    \/ \E force \in BOOLEAN : StartSync(force)
    \/ SyncStep
    \/ Restart

Spec == Init /\ [][Next]_vars

(* every request has a timeout and every retry a last attempt               *)
Fairness == WF_vars(SyncStep)

-----------------------------------------------------------------------------
(* A stored cursor never runs ahead of the rows: what Graph will not tell    *)
(* again is in the store, whatever was interrupted (applyDeltaPage).        *)
CursorCoversRows == \A m \in Message : told[m] <= row[m]

(* A row never goes back to an older version, and a tombstone never comes   *)
(* back to life: no page overtakes a newer one (syncInFlight, the page       *)
(* transaction, the resume from the stored link).                           *)
RowsNeverGoBack == [][\A m \in Message : row[m] <= row'[m]]_vars

InStep(m) == row[m] = remote[m] \/ (row[m] = 0 /\ remote[m] = Gone)

(* A completed run leaves the store equal to a mailbox that did not change  *)
(* meanwhile, after any failures, retries and restarts, in a folder that    *)
(* has not lost a cursor.                                                   *)
MirrorsMailbox == \A f \in mirrored \ reset : \A m \in Mails(f) : InStep(m)

(* The same in every folder: deletions are reconciled by every sync that    *)
(* completes (REQ-MAIL-006, the 410 recovery of the README).                *)
ReconcilesDeletions == \A f \in mirrored : \A m \in Mails(f) : InStep(m)

(* Unless the server died in mid sync, every live version in the store has  *)
(* been ingested, is about to be, or is named by a dead letter (the         *)
(* upsertedMessageIds that errors carry through syncFolder and syncMailbox). *)
NothingSkipsIntake ==
    crashed \/ deadBox \/ \A m \in Message :
        \/ ~Live(row[m]) \/ row[m] = taken[m] \/ m \in deadMail
        \/ \E op \in inflight : m \in op.ids

(* A sync ends, and the next request is not joined to it for ever.          *)
SyncsEnd == inflight # {} ~> inflight = {}
=============================================================================
