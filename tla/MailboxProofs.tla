---------------------------- MODULE MailboxProofs ----------------------------
(***************************************************************************)
(* Proofs about what happens to a stored mail: the sync that stores it, the *)
(* verdict on it, and its way into CWOS, for any number of folders, mails,  *)
(* masters, texts and versions.                                             *)
(*                                                                          *)
(* The store never loses what a cursor stands for.  The invariant adds that *)
(* at most one sync is in flight (OneSync), and that the page it holds is   *)
(* newer than the rows and not newer than Graph (PagesFit).                 *)
(*                                                                          *)
(* A verdict that exists is a whole one, whoever wrote it and in whatever   *)
(* order (PrecisionInv): on that rest both what a commit of the links       *)
(* leaves behind and what a correction outranks.                            *)
(*                                                                          *)
(* That what is recorded as delivered is what CWOS has rests on the one     *)
(* candidate that is awaited: it is the one the sync has sent, and an       *)
(* answer "created" comes only once CWOS has it (OneAwaited, CreatedIsIn).  *)
(***************************************************************************)
EXTENDS MCMailbox, TLAPS

(* The sync.                                                                *)
OneSync == \A a, b \in inflight : a = b

Covered ==
    /\ \A m \in Message : told[m] <= row[m] /\ row[m] <= remote[m]
    /\ \A m \in Message : FolderOf[m] \notin held => told[m] = 0

(* what the page in the hands of a sync says of message m                   *)
Fits(op, m) ==
    \/ op.page.listed[m] = 0 /\ op.page.items[m] = 0
    \/ /\ FolderOf[m] = op.at
       /\ 0 < op.page.listed[m]
       /\ row[m] <= op.page.listed[m]
       /\ op.page.listed[m] <= op.page.items[m]
       /\ op.page.items[m] <= remote[m]

PagesFit == \A op \in inflight : op.page.on => \A m \in Message : Fits(op, m)

PagesHaveFolders == \A op \in inflight : op.page.on => op.at \in Folder

TypeInv == TypeOK /\ PagesHaveFolders
IInv == TypeInv /\ OneSync /\ Covered /\ PagesFit

(* Versions are numbers, and the tombstone is the last of them.            *)
LEMMA VersionFacts == /\ Gone \in Nat /\ Version \subseteq Nat
                      /\ 0 \in Version /\ 1 \in Version /\ Gone \in Version
                      /\ Gone # 0
                      /\ \A v \in Version : v <= Gone
                      /\ NoPage \in Page
                      /\ \A v : Live(v) => v \in Version /\ v # 0 /\ v # Gone
  BY SyncAssumption DEF Gone, Version, NoPage, Nothing, Page, Live

-----------------------------------------------------------------------------
(* The store begins empty.                                                 *)
LEMMA TypeInit == Init => TypeOK
  BY VersionFacts DEF Init, TypeOK, Nothing

(* The types are kept,                                                     *)
LEMMA TypeStep == TypeInv /\ [Next]_vars => TypeOK'
<1> SUFFICES ASSUME TypeOK, PagesHaveFolders, [Next]_vars PROVE TypeOK'
  BY DEF TypeInv
<1> USE VersionFacts, SyncAssumption
<1>1. CASE UNCHANGED vars
  BY <1>1 DEF vars, storeVars, intakeVars, TypeOK
<1>2. ASSUME NEW m \in Message, Arrives(m) \/ IsEdited(m) \/ IsDeleted(m)
      PROVE TypeOK'
  <2>1. PICK v \in Version : Changes(m, v)
    BY <1>2 DEF Arrives, IsEdited, IsDeleted, Version, Gone, TypeOK
  <2> QED
    BY <2>1 DEF Changes, storeVars, intakeVars, TypeOK
<1>3. ASSUME NEW force \in BOOLEAN, StartSync(force)
      PROVE TypeOK'
  <2>1. [force |-> force, todo |-> Folder, at |-> NoFolder, try |-> 1,
         fresh |-> FALSE, page |-> NoPage, ids |-> {}] \in Sync
    BY DEF Sync, Attempts
  <2> QED
    BY <1>3, <2>1 DEF StartSync, storeVars, intakeVars, TypeOK
<1>4. ASSUME NEW op \in inflight, NEW f \in Folder, NEW n \in 1..Attempts,
             Open(op, f, n)
      PROVE TypeOK'
  <2>1. op \in Sync
    BY DEF TypeOK
  <2>2. [op EXCEPT !.todo = op.todo \ {f}, !.at = f, !.try = n,
                   !.fresh = FALSE, !.page = NoPage] \in Sync
    BY <2>1 DEF Sync
  <2>3. inflight' \subseteq Sync
    BY <1>4, <2>2 DEF Open, Becomes, TypeOK
  <2>4. held' \subseteq Folder /\ told' \in [Message -> Version] /\ reset' \subseteq Folder
    BY <1>4 DEF Open, ClearCursor, TypeOK
  <2> QED
    BY <1>4, <2>3, <2>4 DEF Open, intakeVars, TypeOK
<1>5. ASSUME NEW op \in inflight, PageArrives(op)
      PROVE TypeOK'
  <2>1. PICK S \in SUBSET Pending(op.at), last \in BOOLEAN :
          Becomes(op, [op EXCEPT !.page =
            [on |-> TRUE,
             listed |-> [m \in Message |-> IF m \in S THEN remote[m] ELSE 0],
             items |-> [m \in Message |-> IF m \in S THEN remote[m] ELSE 0],
             last |-> last]])
    BY <1>5 DEF PageArrives
  <2> DEFINE new == [op EXCEPT !.page =
            [on |-> TRUE,
             listed |-> [m \in Message |-> IF m \in S THEN remote[m] ELSE 0],
             items |-> [m \in Message |-> IF m \in S THEN remote[m] ELSE 0],
             last |-> last]]
  <2>2. op \in Sync
    BY DEF TypeOK
  <2>3. [m \in Message |-> IF m \in S THEN remote[m] ELSE 0] \in [Message -> Version]
    BY DEF TypeOK
  <2>4. new \in Sync
    BY <2>2, <2>3 DEF Sync, Page
  <2>5. inflight' \subseteq Sync
    BY <2>1, <2>4 DEF Becomes, TypeOK
  <2> QED
    BY <1>5, <2>5 DEF PageArrives, storeVars, intakeVars, TypeOK
<1>6. ASSUME NEW op \in inflight, NEW m \in Message, Refetch(op, m)
      PROVE TypeOK'
  BY <1>6 DEF Refetch, Becomes, storeVars, intakeVars, TypeOK, Sync, Page
<1>7. ASSUME NEW op \in inflight, Commit(op)
      PROVE TypeOK'
  <2>0. op \in Sync
    BY DEF TypeOK
  <2>1. row' \in [Message -> Version] /\ told' \in [Message -> Version]
    BY <1>7, <2>0 DEF Commit, RowsAfter, TypeOK, Sync, Page
  <2>2. [op EXCEPT !.at = IF op.page.last THEN NoFolder ELSE op.at,
                   !.page = NoPage,
                   !.ids = op.ids \cup Upserted(op.page)] \in Sync
    BY <2>0 DEF Sync, Upserted
  <2>3. inflight' \subseteq Sync
    BY <1>7, <2>2 DEF Commit, Becomes, TypeOK
  <2>4. op.at \in Folder
    BY <1>7 DEF Commit, PagesHaveFolders
  <2> QED
    BY <1>7, <2>1, <2>3, <2>4 DEF Commit, intakeVars, TypeOK
<1>8. ASSUME NEW op \in inflight, GiveUp(op)
      PROVE TypeOK'
  BY <1>8 DEF GiveUp, IdsKept, Becomes, storeVars, intakeVars, TypeOK, Sync
<1>9. ASSUME NEW op \in inflight, Refresh(op), op.at \in held
      PROVE TypeOK'
  BY <1>9 DEF Refresh, ClearCursor, Becomes, intakeVars, TypeOK, Sync
<1>10. ASSUME NEW op \in inflight, NEW m \in Message,
              Ingest(op, m) \/ IngestFails(op, m)
       PROVE TypeOK'
  BY <1>10 DEF Ingest, IngestFails, Handled, Becomes, storeVars, TypeOK, Sync
<1>11. ASSUME NEW op \in inflight, MailboxFails(op) \/ Finish(op)
       PROVE TypeOK'
  BY <1>11 DEF MailboxFails, Finish, Ends, storeVars, intakeVars, TypeOK
<1>12. CASE Restart
  BY <1>12 DEF Restart, storeVars, intakeVars, TypeOK
<1>13. ASSUME NEW op \in inflight, Interrupted(op)
       PROVE TypeOK'
  BY <1>13, <1>4, <1>8 DEF Interrupted, MayRetry, TypeOK, Sync, Attempts
<1> QED
  BY <1>1, <1>2, <1>3, <1>4, <1>5, <1>6, <1>7, <1>8, <1>9, <1>10, <1>11, <1>12,
     <1>13
     DEF Next, GraphStep, SyncStep, NextFolder, Fails, CursorExpires, Attempts

(* and a page has the folder it was asked for.                             *)
LEMMA FolderStep == TypeInv /\ [Next]_vars => PagesHaveFolders'
<1> SUFFICES ASSUME TypeOK, PagesHaveFolders, [Next]_vars PROVE PagesHaveFolders'
  BY DEF TypeInv
<1> USE VersionFacts, SyncAssumption DEF PagesHaveFolders
<1>1. CASE inflight' \subseteq inflight
  BY <1>1
<1>2. ASSUME NEW op \in inflight, NEW new, Becomes(op, new),
             new.page.on => new.at \in Folder
      PROVE PagesHaveFolders'
  BY <1>2 DEF Becomes
<1>3. ASSUME NEW force \in BOOLEAN, StartSync(force)
      PROVE PagesHaveFolders'
  BY <1>3 DEF StartSync, NoPage
<1>4. ASSUME NEW op \in inflight, NEW f \in Folder, NEW n, Open(op, f, n)
      PROVE PagesHaveFolders'
  BY <1>4, <1>2 DEF Open, TypeOK, Sync, NoPage
<1>5. ASSUME NEW op \in inflight, PageArrives(op)
      PROVE PagesHaveFolders'
  BY <1>5, <1>2 DEF PageArrives, TypeOK, Sync
<1>6. ASSUME NEW op \in inflight, NEW m \in Message, Refetch(op, m)
      PROVE PagesHaveFolders'
  BY <1>6, <1>2 DEF Refetch, TypeOK, Sync, Page
<1>7. ASSUME NEW op \in inflight, Commit(op)
      PROVE PagesHaveFolders'
  BY <1>7, <1>2 DEF Commit, TypeOK, Sync, NoPage
<1>8. ASSUME NEW op \in inflight, GiveUp(op)
      PROVE PagesHaveFolders'
  BY <1>8, <1>2 DEF GiveUp, TypeOK, Sync, NoPage
<1>9. ASSUME NEW op \in inflight, Refresh(op), op.at \in held
      PROVE PagesHaveFolders'
  BY <1>9, <1>2 DEF Refresh, TypeOK, Sync
<1>10. ASSUME NEW op \in inflight, NEW m \in Message,
              Ingest(op, m) \/ IngestFails(op, m)
       PROVE PagesHaveFolders'
  BY <1>10, <1>2 DEF Ingest, IngestFails, Handled, TypeOK, Sync
<1>11. ASSUME NEW op \in inflight, Interrupted(op)
       PROVE PagesHaveFolders'
  BY <1>11, <1>4, <1>8 DEF Interrupted, TypeOK, Sync
<1>12. CASE GraphStep \/ Restart \/ UNCHANGED vars
  BY <1>1, <1>12 DEF GraphStep, Arrives, IsEdited, IsDeleted, Changes, Restart, vars
<1>13. ASSUME NEW op \in inflight, MailboxFails(op) \/ Finish(op)
       PROVE PagesHaveFolders'
  BY <1>1, <1>13 DEF MailboxFails, Finish, Ends
<1> QED
  BY <1>3, <1>4, <1>5, <1>6, <1>7, <1>8, <1>9, <1>10, <1>11, <1>12, <1>13
     DEF Next, SyncStep, NextFolder, Fails, CursorExpires

(* Every state is well typed, for any folders, messages and page size.      *)
THEOREM TypeCorrect == Spec => []TypeOK
<1>1. Init => TypeInv
  BY TypeInit DEF Init, TypeInv, PagesHaveFolders
<1>2. TypeInv /\ [Next]_vars => TypeInv'
  BY TypeStep, FolderStep DEF TypeInv
<1>3. TypeInv => TypeOK
  BY DEF TypeInv
<1> QED
  BY <1>1, <1>2, <1>3, PTL DEF Spec

-----------------------------------------------------------------------------
(* A request joins the sync in flight and never begins a second.           *)
LEMMA OneStep == TypeInv /\ OneSync /\ [Next]_vars => OneSync'
<1> SUFFICES ASSUME TypeInv, OneSync, [Next]_vars PROVE OneSync'
  OBVIOUS
<1> USE DEF OneSync
<1>1. CASE inflight' \subseteq inflight
  BY <1>1
<1>2. ASSUME NEW op \in inflight, NEW new, Becomes(op, new) PROVE OneSync'
  BY <1>2 DEF Becomes
<1>3. ASSUME NEW force \in BOOLEAN, StartSync(force) PROVE OneSync'
  BY <1>3 DEF StartSync, NoneInFlight
<1>4. ASSUME NEW op \in inflight, NEW f, NEW n, Open(op, f, n) PROVE OneSync'
  BY <1>4, <1>2 DEF Open
<1>5. ASSUME NEW op \in inflight, PageArrives(op) PROVE OneSync'
  BY <1>5, <1>2 DEF PageArrives
<1>6. ASSUME NEW op \in inflight, NEW m \in Message,
             Refetch(op, m) \/ Ingest(op, m) \/ IngestFails(op, m)
      PROVE OneSync'
  BY <1>6, <1>2 DEF Refetch, Ingest, IngestFails, Handled
<1>7. ASSUME NEW op \in inflight, Commit(op) \/ GiveUp(op) \/ Refresh(op) PROVE OneSync'
  BY <1>7, <1>2 DEF Commit, GiveUp, Refresh
<1>8. ASSUME NEW op \in inflight, MailboxFails(op) \/ Finish(op) PROVE OneSync'
  BY <1>8, <1>1 DEF MailboxFails, Finish, Ends
<1>9. CASE GraphStep \/ Restart \/ UNCHANGED vars
  BY <1>1, <1>9 DEF GraphStep, Arrives, IsEdited, IsDeleted, Changes, Restart, vars
<1> QED
  BY <1>3, <1>4, <1>5, <1>6, <1>7, <1>8, <1>9
     DEF Next, SyncStep, NextFolder, Fails, CursorExpires, Interrupted

(* What a step of a sync that commits nothing does to the rows' bounds:     *)
(* the cursor may be cleared, the rows and Graph stay                       *)
LEMMA ClearKeepsCover ==
  ASSUME TypeOK, Covered, NEW f, ClearCursor(f), row' = row, remote' = remote
  PROVE  Covered'
<1>1. ASSUME NEW m \in Message
      PROVE  /\ told'[m] <= row'[m] /\ row'[m] <= remote'[m]
             /\ FolderOf[m] \notin held' => told'[m] = 0
  <2>1. row[m] \in Nat /\ told'[m] = IF FolderOf[m] = f THEN 0 ELSE told[m]
    BY VersionFacts DEF ClearCursor, TypeOK
  <2> QED
    BY <2>1 DEF Covered, ClearCursor
<1> QED
  BY <1>1 DEF Covered

(* A cursor moves with the rows it stands for, and rows advance.           *)
LEMMA CoverStep == IInv /\ [Next]_vars => Covered' /\ \A m \in Message : row[m] <= row'[m]
<1> SUFFICES ASSUME IInv, [Next]_vars
             PROVE  Covered' /\ \A m \in Message : row[m] <= row'[m]
  OBVIOUS
<1> DEFINE Goal == Covered' /\ \A m \in Message : row[m] <= row'[m]
<1> USE VersionFacts, SyncAssumption DEF IInv, TypeInv
<1>0. \A m \in Message : /\ row[m] \in Nat /\ told[m] \in Nat /\ remote[m] \in Nat
                        /\ remote[m] <= Gone /\ row[m] \in Version
  BY DEF TypeOK
<1>1. CASE UNCHANGED <<remote, held, told, row>>
  BY <1>0, <1>1 DEF Covered
<1>2. ASSUME NEW m \in Message, Arrives(m) \/ IsEdited(m) \/ IsDeleted(m)
      PROVE Goal
  <2>1. PICK v \in Nat : Changes(m, v) /\ remote[m] <= v
    BY <1>0, <1>2 DEF Arrives, IsEdited, IsDeleted, TypeOK, Version
  <2>2. /\ UNCHANGED <<held, told, row>>
        /\ \A k \in Message : remote'[k] \in Nat /\ remote[k] <= remote'[k]
    BY <1>0, <2>1 DEF Changes, TypeOK, storeVars
  <2> QED
    BY <1>0, <2>2 DEF Covered
<1>3. ASSUME NEW f, ClearCursor(f), row' = row, remote' = remote PROVE Goal
  BY <1>0, <1>3, ClearKeepsCover
<1>4. ASSUME NEW op \in inflight, NEW f, NEW n, Open(op, f, n) PROVE Goal
  BY <1>1, <1>3, <1>4 DEF Open
<1>5. ASSUME NEW op \in inflight, Commit(op) PROVE Goal
  <2>1. \A m \in Message : Fits(op, m)
    BY <1>5 DEF Commit, PagesFit
  <2>2. op.page.listed \in [Message -> Version] /\ op.page.items \in [Message -> Version]
    BY DEF TypeOK, Sync, Page
  <2>3. remote' = remote /\ held' = held \cup {op.at}
    BY <1>5 DEF Commit
  <2>4. ASSUME NEW m \in Message
        PROVE  /\ told'[m] <= row'[m] /\ row'[m] <= remote'[m] /\ row[m] <= row'[m]
               /\ FolderOf[m] \notin held' => told'[m] = 0
    <3>1. /\ op.page.listed[m] \in Nat /\ op.page.items[m] \in Nat
          /\ row'[m] = IF op.page.items[m] # 0 THEN op.page.items[m] ELSE row[m]
          /\ told'[m] = IF op.page.listed[m] # 0 THEN op.page.listed[m] ELSE told[m]
      BY <1>5, <2>2 DEF Commit, RowsAfter
    <3> QED
      BY <1>0, <2>1, <2>3, <3>1 DEF Fits, Covered
  <2> QED
    BY <2>4 DEF Covered
<1>6. ASSUME NEW op \in inflight,
             PageArrives(op) \/ (\E m \in Message : Refetch(op, m) \/ Ingest(op, m)
               \/ IngestFails(op, m)) \/ GiveUp(op) \/ MailboxFails(op) \/ Finish(op)
      PROVE Goal
  BY <1>1, <1>6 DEF PageArrives, Refetch, Ingest, IngestFails, GiveUp, MailboxFails,
     Finish, storeVars
<1>7. ASSUME NEW op \in inflight, Refresh(op) PROVE Goal
  BY <1>3, <1>7 DEF Refresh
<1>8. CASE Restart \/ UNCHANGED vars \/ \E force \in BOOLEAN : StartSync(force)
  BY <1>1, <1>8 DEF Restart, vars, StartSync, storeVars
<1>9. CASE GraphStep
  BY <1>2, <1>9 DEF GraphStep
<1>10. CASE SyncStep
  <2> PICK op \in inflight :
        \/ \E f \in Folder : NextFolder(op, f)
        \/ PageArrives(op)
        \/ \E m \in Message : Refetch(op, m)
        \/ Commit(op)
        \/ Interrupted(op)
        \/ Fails(op)
        \/ CursorExpires(op)
        \/ \E m \in Message : Ingest(op, m) \/ IngestFails(op, m)
        \/ MailboxFails(op)
        \/ Finish(op)
    BY <1>10 DEF SyncStep
  <2> QED
    BY <1>4, <1>5, <1>6, <1>7 DEF NextFolder, Fails, CursorExpires, Interrupted
<1> QED
  BY <1>8, <1>9, <1>10 DEF Next

-----------------------------------------------------------------------------
(* A page is newer than the rows, until it is applied.                     *)
LEMMA PageStep == IInv /\ [Next]_vars => PagesFit'
<1> SUFFICES ASSUME IInv, [Next]_vars PROVE PagesFit'
  OBVIOUS
<1> USE VersionFacts, SyncAssumption DEF IInv, TypeInv
<1>0. \A m \in Message : row[m] \in Nat /\ remote[m] \in Nat /\ remote[m] <= Gone
  BY DEF TypeOK
<1>a. \A op \in inflight : /\ op \in Sync /\ op.page \in Page
                           /\ op.page.items \in [Message -> Nat]
                           /\ op.page.listed \in [Message -> Nat]
  <2>1. \A F \in [Message -> Version] : F \in [Message -> Nat]
    OBVIOUS
  <2> QED
    BY <2>1 DEF TypeOK, Sync, Page
<1>1. CASE inflight' \subseteq inflight /\ UNCHANGED <<row, remote>>
  BY <1>1 DEF PagesFit, Fits
<1>2. ASSUME NEW op \in inflight, NEW new, Becomes(op, new), ~new.page.on
      PROVE PagesFit'
  BY <1>2 DEF Becomes, PagesFit, OneSync
<1>3. ASSUME NEW op \in inflight, NEW new, Becomes(op, new), new.page = op.page,
             new.at = op.at, UNCHANGED <<row, remote>>
      PROVE PagesFit'
  BY <1>3 DEF Becomes, PagesFit, OneSync, Fits
<1>4. ASSUME NEW m \in Message, Arrives(m) \/ IsEdited(m) \/ IsDeleted(m)
      PROVE PagesFit'
  <2>1. /\ \A k \in Message : remote'[k] \in Nat /\ remote[k] <= remote'[k]
        /\ row' = row /\ inflight' = inflight
    BY <1>0, <1>4 DEF Arrives, IsEdited, IsDeleted, Changes, storeVars, TypeOK
  <2>2. ASSUME NEW op \in inflight, op.page.on, NEW k \in Message PROVE Fits(op, k)'
    BY <1>0, <1>a, <2>1, <2>2 DEF PagesFit, Fits
  <2> QED
    BY <2>1, <2>2 DEF PagesFit
<1>5. ASSUME NEW force \in BOOLEAN, StartSync(force) PROVE PagesFit'
  BY <1>5 DEF StartSync, NoneInFlight, PagesFit, NoPage
<1>6. ASSUME NEW op \in inflight, NEW f, NEW n, Open(op, f, n) PROVE PagesFit'
  BY <1>2, <1>6, <1>a DEF Open, NoPage, Sync
<1>7. ASSUME NEW op \in inflight, PageArrives(op) PROVE PagesFit'
  <2>1. PICK S \in SUBSET Pending(op.at), last \in BOOLEAN :
          Becomes(op, [op EXCEPT !.page =
            [on |-> TRUE,
             listed |-> [m \in Message |-> IF m \in S THEN remote[m] ELSE 0],
             items |-> [m \in Message |-> IF m \in S THEN remote[m] ELSE 0],
             last |-> last]])
    BY <1>7 DEF PageArrives
  <2> DEFINE listing == [m \in Message |-> IF m \in S THEN remote[m] ELSE 0]
             new == [op EXCEPT !.page =
               [on |-> TRUE, listed |-> listing, items |-> listing, last |-> last]]
  <2>2. new.at = op.at /\ new.page.listed = listing /\ new.page.items = listing
    BY <1>a DEF Sync
  <2>3. row' = row /\ remote' = remote /\ inflight' = {new}
    BY <1>7, <2>1 DEF PageArrives, storeVars, Becomes, OneSync
  <2>4. ASSUME NEW m \in Message PROVE Fits(new, m)'
    <3>1. CASE m \in S
      <4>1. FolderOf[m] = op.at /\ remote[m] # told[m]
        BY <3>1 DEF Pending, Mails
      <4>2. told[m] <= row[m] /\ row[m] <= remote[m] /\ told[m] \in Nat
        BY DEF Covered, TypeOK
      <4> QED
        BY <1>0, <2>2, <2>3, <3>1, <4>1, <4>2 DEF Fits
    <3> QED
      BY <2>2, <2>3, <3>1 DEF Fits
  <2> QED
    BY <2>3, <2>4 DEF PagesFit
<1>8. ASSUME NEW op \in inflight, NEW m \in Message, Refetch(op, m) PROVE PagesFit'
  <2> DEFINE new == [op EXCEPT !.page.items[m] = remote[m]]
  <2>1. /\ new.at = op.at /\ new.page.listed = op.page.listed
        /\ \A k \in Message : new.page.items[k] =
             IF k = m THEN remote[m] ELSE op.page.items[k]
    BY <1>a DEF Sync, Page
  <2>2. row' = row /\ remote' = remote /\ inflight' = {new}
    BY <1>8 DEF Refetch, storeVars, Becomes, OneSync
  <2>3. op.page.on /\ op.page.items[m] # 0 /\ op.page.items[m] < remote[m]
    BY <1>8 DEF Refetch
  <2>4. ASSUME NEW k \in Message PROVE Fits(new, k)'
    BY <1>0, <1>a, <2>1, <2>2, <2>3 DEF Fits, PagesFit
  <2> QED
    BY <2>2, <2>4 DEF PagesFit
<1>9. ASSUME NEW op \in inflight, Commit(op) PROVE PagesFit'
  BY <1>2, <1>9, <1>a DEF Commit, NoPage, Sync
<1>10. ASSUME NEW op \in inflight, GiveUp(op) PROVE PagesFit'
  BY <1>2, <1>10, <1>a DEF GiveUp, NoPage, Sync
<1>11. ASSUME NEW op \in inflight, Refresh(op) PROVE PagesFit'
  BY <1>3, <1>11, <1>a DEF Refresh, Sync
<1>12. ASSUME NEW op \in inflight, NEW m \in Message, Ingest(op, m) \/ IngestFails(op, m)
       PROVE PagesFit'
  BY <1>3, <1>12, <1>a DEF Ingest, IngestFails, Handled, storeVars, Sync
<1>13. ASSUME NEW op \in inflight, MailboxFails(op) \/ Finish(op) PROVE PagesFit'
  BY <1>1, <1>13 DEF MailboxFails, Finish, Ends, storeVars
<1>14. CASE Restart \/ UNCHANGED vars
  BY <1>1, <1>14 DEF Restart, vars, storeVars
<1>15. CASE GraphStep
  BY <1>4, <1>15 DEF GraphStep
<1>16. CASE SyncStep
  BY <1>6, <1>7, <1>8, <1>9, <1>10, <1>11, <1>12, <1>13, <1>16
     DEF SyncStep, NextFolder, Fails, CursorExpires, Interrupted
<1> QED
  BY <1>5, <1>14, <1>15, <1>16 DEF Next

-----------------------------------------------------------------------------
(* The invariant holds at first,                                           *)
LEMMA IInvInit == Init => IInv
<1> SUFFICES ASSUME Init PROVE IInv
  OBVIOUS
<1>1. TypeInv /\ OneSync /\ PagesFit
  BY TypeInit DEF Init, TypeInv, PagesHaveFolders, OneSync, PagesFit
<1>2. Covered
  BY <1>1 DEF Covered, Init, Nothing
<1> QED
  BY <1>1, <1>2 DEF IInv

(* and every step keeps it.                                                *)
LEMMA IInvStep == IInv /\ [Next]_vars => IInv'
  BY TypeStep, FolderStep, OneStep, CoverStep, PageStep DEF IInv, TypeInv

(* At most one sync of the mailbox is in flight.                            *)
THEOREM SyncsDoNotOverlap == Spec => []OneSync
<1>1. IInv => OneSync
  BY DEF IInv
<1> QED
  BY IInvInit, IInvStep, <1>1, PTL DEF Spec

(* A stored cursor never runs ahead of the rows, for any number of folders  *)
(* and messages and any page size, across failures, retries, cursor resets  *)
(* and restarts.                                                            *)
THEOREM CursorsAreCovered == Spec => []CursorCoversRows
<1>1. IInv => CursorCoversRows
  BY DEF IInv, Covered, CursorCoversRows
<1> QED
  BY IInvInit, IInvStep, <1>1, PTL DEF Spec

(* No row ever goes back to an older version, and no tombstone comes back   *)
(* to life.                                                                 *)
THEOREM RowsOnlyAdvance == Spec => RowsNeverGoBack
<1>1. IInv /\ [Next]_vars => [\A m \in Message : row[m] <= row'[m]]_vars
  BY CoverStep
<1> QED
  BY IInvInit, IInvStep, <1>1, PTL DEF Spec, RowsNeverGoBack

-----------------------------------------------------------------------------
(* The intake                                                               *)
Pends(m) == \E op \in inflight : m \in op.ids

(* What a sync stored it hands on, whatever fails.                         *)
LEMMA IntakeStep ==
  TypeInv /\ OneSync /\ NothingSkipsIntake /\ [Next]_vars => NothingSkipsIntake'
<1> SUFFICES ASSUME TypeInv, OneSync, NothingSkipsIntake, [Next]_vars
             PROVE  NothingSkipsIntake'
  OBVIOUS
<1> USE DEF TypeInv, NothingSkipsIntake
<1>a. \A op \in inflight : op \in Sync
  BY DEF TypeOK
<1>1. ASSUME UNCHANGED <<row, taken, deadMail, deadBox, crashed>>,
             NEW op \in inflight, NEW new, Becomes(op, new), new.ids = op.ids
      PROVE NothingSkipsIntake'
  BY <1>1 DEF Becomes
<1>2. CASE UNCHANGED <<row, taken, deadMail, deadBox, crashed>> /\ inflight \subseteq inflight'
  BY <1>2
<1>3. CASE GraphStep \/ (\E force \in BOOLEAN : StartSync(force)) \/ UNCHANGED vars
  BY <1>2, <1>3 DEF GraphStep, Arrives, IsEdited, IsDeleted, Changes, StartSync, vars,
     storeVars, intakeVars
<1>4. ASSUME NEW op \in inflight, NEW f, NEW n, Open(op, f, n) PROVE NothingSkipsIntake'
  BY <1>1, <1>4, <1>a DEF Open, Sync, intakeVars
<1>5. ASSUME NEW op \in inflight, PageArrives(op) PROVE NothingSkipsIntake'
  BY <1>1, <1>5, <1>a DEF PageArrives, Sync, storeVars, intakeVars
<1>6. ASSUME NEW op \in inflight, NEW m \in Message, Refetch(op, m) PROVE NothingSkipsIntake'
  BY <1>1, <1>6, <1>a DEF Refetch, Sync, storeVars, intakeVars
<1>7. ASSUME NEW op \in inflight, GiveUp(op) \/ Refresh(op) PROVE NothingSkipsIntake'
  BY <1>1, <1>7, <1>a DEF GiveUp, IdsKept, Refresh, Sync, storeVars, intakeVars
<1>8. ASSUME NEW op \in inflight, Commit(op) PROVE NothingSkipsIntake'
  <2> DEFINE new == [op EXCEPT !.at = IF op.page.last THEN NoFolder ELSE op.at,
                              !.page = NoPage,
                              !.ids = op.ids \cup Upserted(op.page)]
  <2>1. new.ids = op.ids \cup Upserted(op.page)
    BY <1>a DEF Sync
  <2>2. inflight' = (inflight \ {op}) \cup {new}
        /\ UNCHANGED <<taken, deadMail, deadBox, crashed>>
    BY <1>8 DEF Commit, Becomes, intakeVars
  <2>3. ASSUME NEW m \in Message, Live(row'[m]), Live(op.page.items[m]) PROVE Pends(m)'
    BY <2>1, <2>2, <2>3 DEF Pends, Upserted
  <2>4. ASSUME NEW m \in Message, Pends(m) PROVE Pends(m)'
    BY <2>1, <2>2, <2>4 DEF Pends
  <2>5. ASSUME NEW m \in Message, Live(row'[m]), ~Live(op.page.items[m])
        PROVE row'[m] = row[m]
    BY <1>8, <2>5 DEF Commit, RowsAfter
  <2> QED
    BY <2>2, <2>3, <2>4, <2>5 DEF Pends
<1>9. ASSUME NEW op \in inflight, NEW k \in Message, Ingest(op, k) \/ IngestFails(op, k)
      PROVE NothingSkipsIntake'
  <2> DEFINE new == [op EXCEPT !.ids = op.ids \ {k}]
  <2>1. new.ids = op.ids \ {k}
    BY <1>a DEF Sync
  <2>2. inflight' = (inflight \ {op}) \cup {new} /\ UNCHANGED <<row, deadBox, crashed>>
    BY <1>9 DEF Ingest, IngestFails, Handled, Becomes, storeVars
  <2>3. ASSUME NEW m \in Message, m # k, Pends(m) PROVE Pends(m)'
    BY <2>1, <2>2, <2>3 DEF Pends
  <2>4. \A m \in Message \ {k} : taken'[m] = taken[m]
    BY <1>9 DEF Ingest, IngestFails, TypeOK
  <2>5. deadMail \subseteq deadMail'
    BY <1>9 DEF Ingest, IngestFails
  <2>6. ~Live(row[k]) \/ taken'[k] = row[k] \/ k \in deadMail'
    BY <1>9 DEF Ingest, IngestFails, TypeOK
  <2> QED
    BY <2>2, <2>3, <2>4, <2>5, <2>6 DEF Pends
<1>10. ASSUME NEW op \in inflight, MailboxFails(op) PROVE NothingSkipsIntake'
  BY <1>10 DEF MailboxFails
<1>11. ASSUME NEW op \in inflight, Finish(op) PROVE NothingSkipsIntake'
  BY <1>11 DEF Finish, Ends, storeVars, intakeVars
<1>12. CASE Restart
  BY <1>12 DEF Restart
<1>13. CASE SyncStep
  BY <1>4, <1>5, <1>6, <1>7, <1>8, <1>9, <1>10, <1>11, <1>13
     DEF SyncStep, NextFolder, Fails, CursorExpires, Interrupted
<1> QED
  BY <1>3, <1>12, <1>13 DEF Next

(* Unless the server died in mid sync, no committed message is lost between *)
(* the store and the intake: errors hand on the ids already committed.      *)
THEOREM IntakeMissesNothing == Spec => []NothingSkipsIntake
<1>1. Init => NothingSkipsIntake
  BY SyncAssumption DEF Init, NothingSkipsIntake, Nothing, Live
<1>2. IInv /\ NothingSkipsIntake /\ [Next]_vars => NothingSkipsIntake'
  BY IntakeStep DEF IInv
<1> QED
  BY IInvInit, IInvStep, <1>1, <1>2, PTL DEF Spec

-----------------------------------------------------------------------------
(* The mirror.  Three more facts: a folder that lost no cursor knows every  *)
(* row it has; a page of a calm folder is what Graph still has; a last page *)
(* of a calm folder leaves nothing untold.                                  *)
RowsKnown == \A m \in Message : FolderOf[m] \notin reset /\ told[m] = 0 => row[m] = 0

PagesCurrent ==
    \A op \in inflight : op.page.on /\ op.at \in calm \cup mirrored =>
        \A m \in Message : op.page.items[m] # 0 => op.page.items[m] = remote[m]

LastPagesTellAll ==
    \A op \in inflight : op.page.on /\ op.page.last /\ op.at \in calm =>
        \A m \in Mails(op.at) :
            \/ op.page.items[m] # 0
            \/ told[m] = remote[m]
            \/ told[m] = 0 /\ remote[m] = Gone

MInv == RowsKnown /\ PagesCurrent /\ LastPagesTellAll /\ MirrorsMailbox

(* What was read without a gap mirrors the folder.                         *)
LEMMA MirrorStep == IInv /\ MInv /\ [Next]_vars => MInv'
<1> SUFFICES ASSUME IInv, MInv, [Next]_vars PROVE MInv'
  OBVIOUS
<1> USE VersionFacts, SyncAssumption DEF IInv, TypeInv, MInv, Mails
<1>a. \A op \in inflight : /\ op \in Sync /\ op.page \in Page
                           /\ op.page.items \in [Message -> Version]
                           /\ op.page.listed \in [Message -> Version]
  BY DEF TypeOK, Sync, Page
<1>b. \A m \in Message : /\ FolderOf[m] \in Folder
                        /\ row[m] \in Nat /\ told[m] \in Nat /\ remote[m] \in Nat
                        /\ told[m] <= row[m] /\ row[m] <= remote[m] /\ remote[m] <= Gone
  BY DEF TypeOK, Covered
<1>1. CASE /\ inflight' \subseteq inflight
           /\ UNCHANGED <<remote, told, row, reset, calm, mirrored>>
  BY <1>1 DEF RowsKnown, PagesCurrent, LastPagesTellAll, MirrorsMailbox, InStep
<1>2. ASSUME NEW op \in inflight, NEW new, Becomes(op, new),
             ~new.page.on \/ (new.page = op.page /\ new.at = op.at),
             UNCHANGED <<remote, told, row, reset, calm, mirrored>>
      PROVE MInv'
  <2>1. inflight' = {new}
    BY <1>2 DEF Becomes, OneSync
  <2> QED
    BY <1>2, <2>1 DEF RowsKnown, PagesCurrent, LastPagesTellAll, MirrorsMailbox, InStep
<1>3. ASSUME NEW k \in Message, Arrives(k) \/ IsEdited(k) \/ IsDeleted(k)
      PROVE MInv'
  <2>1. /\ UNCHANGED <<told, row, reset, inflight>>
        /\ calm' = calm \ {FolderOf[k]} /\ mirrored' = mirrored \ {FolderOf[k]}
        /\ \A m \in Message \ {k} : remote'[m] = remote[m]
    BY <1>3 DEF Arrives, IsEdited, IsDeleted, Changes, storeVars, TypeOK
  <2>2. RowsKnown'
    BY <2>1 DEF RowsKnown
  <2>3. PagesCurrent'
    <3> SUFFICES ASSUME NEW op \in inflight, op.page.on, op.at \in calm' \cup mirrored',
                        NEW m \in Message, op.page.items[m] # 0
                 PROVE  op.page.items[m] = remote'[m]
      BY <2>1 DEF PagesCurrent
    <3>1. FolderOf[m] = op.at
      BY DEF PagesFit, Fits
    <3> QED
      BY <2>1, <3>1 DEF PagesCurrent
  <2>4. LastPagesTellAll'
    <3> SUFFICES ASSUME NEW op \in inflight, op.page.on, op.page.last, op.at \in calm',
                        NEW m \in Mails(op.at)
                 PROVE  \/ op.page.items[m] # 0
                        \/ told[m] = remote'[m]
                        \/ told[m] = 0 /\ remote'[m] = Gone
      BY <2>1 DEF LastPagesTellAll, Mails
    <3>1. m \in Message \ {k} /\ op.at \in calm
      BY <2>1 DEF Mails
    <3> QED
      BY <2>1, <3>1 DEF LastPagesTellAll
  <2>5. MirrorsMailbox'
    BY <2>1 DEF MirrorsMailbox, InStep, Mails
  <2> QED
    BY <2>2, <2>3, <2>4, <2>5
<1>4. ASSUME NEW force \in BOOLEAN, StartSync(force) PROVE MInv'
  <2>1. /\ UNCHANGED <<remote, told, row, reset, calm, mirrored>>
        /\ \A op \in inflight' : ~op.page.on
    BY <1>4 DEF StartSync, storeVars, NoneInFlight, NoPage
  <2> QED
    BY <2>1 DEF RowsKnown, PagesCurrent, LastPagesTellAll, MirrorsMailbox, InStep
<1>5. ASSUME NEW op \in inflight, NEW new, Becomes(op, new), ~new.page.on,
             NEW f, ClearCursor(f) \/ UNCHANGED <<held, told, reset>>,
             UNCHANGED <<remote, row, mirrored>>
      PROVE MInv'
  <2>1. inflight' = {new}
    BY <1>5 DEF Becomes, OneSync
  <2>2. RowsKnown'
    <3> SUFFICES ASSUME NEW m \in Message, FolderOf[m] \notin reset', told'[m] = 0
                 PROVE  row[m] = 0
      BY <1>5 DEF RowsKnown
    <3>1. CASE UNCHANGED <<held, told, reset>>
      BY <3>1 DEF RowsKnown
    <3>2. CASE ClearCursor(f) /\ FolderOf[m] = f
      <4>1. f \notin held /\ f \notin reset
        BY <3>2 DEF ClearCursor
      <4> QED
        BY <3>2, <4>1 DEF RowsKnown, Covered
    <3>3. CASE ClearCursor(f) /\ FolderOf[m] # f
      BY <3>3 DEF ClearCursor, RowsKnown
    <3> QED
      BY <1>5, <3>1, <3>2, <3>3
  <2>3. reset \subseteq reset'
    BY <1>5 DEF ClearCursor
  <2> QED
    BY <1>5, <2>1, <2>2, <2>3 DEF PagesCurrent, LastPagesTellAll, MirrorsMailbox, InStep
<1>6. ASSUME NEW op \in inflight, NEW f, NEW n, Open(op, f, n) PROVE MInv'
  BY <1>5, <1>6, <1>a DEF Open, Sync, NoPage
<1>7. ASSUME NEW op \in inflight, Refresh(op), ~op.page.on PROVE MInv'
  BY <1>5, <1>7, <1>a DEF Refresh, Sync
<1>8. ASSUME NEW op \in inflight, GiveUp(op) PROVE MInv'
  BY <1>2, <1>8, <1>a DEF GiveUp, Sync, NoPage, storeVars
<1>9. ASSUME NEW op \in inflight, NEW m \in Message, Ingest(op, m) \/ IngestFails(op, m)
      PROVE MInv'
  BY <1>2, <1>9, <1>a DEF Ingest, IngestFails, Handled, Sync, storeVars
<1>10. ASSUME NEW op \in inflight, MailboxFails(op) \/ Finish(op) PROVE MInv'
  BY <1>1, <1>10 DEF MailboxFails, Finish, Ends, storeVars
<1>11. CASE Restart \/ UNCHANGED vars
  BY <1>1, <1>11 DEF Restart, vars, storeVars
<1>12. ASSUME NEW op \in inflight, NEW k \in Message, Refetch(op, k) PROVE MInv'
  <2> DEFINE new == [op EXCEPT !.page.items[k] = remote[k]]
  <2>1. /\ new.at = op.at /\ new.page.last = op.page.last /\ new.page.on = op.page.on
        /\ \A m \in Message : new.page.items[m] =
             IF m = k THEN remote[m] ELSE op.page.items[m]
    BY <1>a DEF Sync, Page
  <2>2. inflight' = {new} /\ UNCHANGED <<remote, told, row, reset, calm, mirrored>>
    BY <1>12 DEF Refetch, storeVars, Becomes, OneSync
  <2>3. op.page.on /\ op.page.items[k] # 0 /\ remote[k] # 0
    BY <1>12 DEF Refetch
  <2> QED
    BY <2>1, <2>2, <2>3
       DEF RowsKnown, PagesCurrent, LastPagesTellAll, MirrorsMailbox, InStep, Mails
<1>13. ASSUME NEW op \in inflight, PageArrives(op) PROVE MInv'
  <2>1. PICK S \in SUBSET Pending(op.at) :
          Becomes(op, [op EXCEPT !.page =
            [on |-> TRUE,
             listed |-> [m \in Message |-> IF m \in S THEN remote[m] ELSE 0],
             items |-> [m \in Message |-> IF m \in S THEN remote[m] ELSE 0],
             last |-> S = Pending(op.at)]])
    BY <1>13 DEF PageArrives
  <2> DEFINE listing == [m \in Message |-> IF m \in S THEN remote[m] ELSE 0]
             new == [op EXCEPT !.page = [on |-> TRUE, listed |-> listing,
                       items |-> listing, last |-> S = Pending(op.at)]]
  <2>2. new.at = op.at /\ new.page.items = listing /\ (new.page.last => S = Pending(op.at))
    BY <1>a DEF Sync
  <2>3. inflight' = {new} /\ UNCHANGED <<remote, told, row, reset, calm, mirrored>>
    BY <1>13, <2>1 DEF PageArrives, storeVars, Becomes, OneSync
  <2>4. \A m \in Message : new.page.items[m] # 0 => new.page.items[m] = remote[m]
    BY <2>2
  <2>5. ASSUME S = Pending(op.at), NEW m \in Mails(op.at)
        PROVE  \/ new.page.items[m] # 0
               \/ told[m] = remote[m]
               \/ told[m] = 0 /\ remote[m] = Gone
    <3>1. CASE m \in Pending(op.at)
      <4>1. remote[m] # 0
        BY <1>b, <3>1 DEF Pending, Mails
      <4> QED
        BY <2>2, <2>5, <3>1, <4>1
    <3> QED
      BY <3>1 DEF Pending
  <2>6. PagesCurrent'
    BY <2>3, <2>4 DEF PagesCurrent
  <2>7. LastPagesTellAll'
    <3>1. ASSUME new.page.last, NEW m \in Mails(op.at)
          PROVE  \/ new.page.items[m] # 0
                 \/ told[m] = remote[m]
                 \/ told[m] = 0 /\ remote[m] = Gone
      BY <2>2, <2>5, <3>1
    <3> HIDE DEF new
    <3> QED
      BY <2>2, <2>3, <3>1 DEF LastPagesTellAll
  <2> QED
    BY <2>3, <2>6, <2>7 DEF RowsKnown, MirrorsMailbox, InStep
<1>14. ASSUME NEW op \in inflight, Commit(op) PROVE MInv'
  <2>1. /\ op.page.on /\ UNCHANGED <<remote, calm, reset>>
        /\ mirrored' = IF op.page.last /\ op.at \in calm
                       THEN mirrored \cup {op.at} ELSE mirrored
        /\ \A m \in Message :
             /\ row'[m] = IF op.page.items[m] # 0 THEN op.page.items[m] ELSE row[m]
             /\ told'[m] = IF op.page.listed[m] # 0 THEN op.page.listed[m] ELSE told[m]
    BY <1>14 DEF Commit, RowsAfter
  <2>2. \A m \in Message : Fits(op, m)
    BY <2>1 DEF PagesFit
  <2>3. \A new \in inflight' : ~new.page.on
    <3> DEFINE new == [op EXCEPT !.at = IF op.page.last THEN NoFolder ELSE op.at,
                                !.page = NoPage,
                                !.ids = op.ids \cup Upserted(op.page)]
    <3>1. inflight' = {new}
      BY <1>14 DEF Commit, Becomes, OneSync
    <3>2. ~new.page.on
      BY <1>a DEF Sync, NoPage
    <3> QED
      BY <3>1, <3>2
  <2>4. RowsKnown'
    BY <2>1, <2>2 DEF RowsKnown, Fits
  <2>5. ASSUME NEW f \in mirrored' \ reset', NEW m \in Mails(f) PROVE InStep(m)'
    <3>1. m \in Message /\ FolderOf[m] = f
      BY DEF Mails
    <3>2. CASE op.page.items[m] # 0
      <4>1. f = op.at /\ f \in calm \cup mirrored
        BY <2>1, <2>2, <2>5, <3>1, <3>2 DEF Fits
      <4> QED
        BY <2>1, <3>1, <3>2, <4>1 DEF PagesCurrent, InStep
    <3>3. CASE op.page.items[m] = 0 /\ f \in mirrored
      <4>1. InStep(m)
        BY <2>1, <2>5, <3>3 DEF MirrorsMailbox
      <4> QED
        BY <2>1, <3>1, <3>3, <4>1 DEF InStep
    <3>4. CASE op.page.items[m] = 0 /\ f \notin mirrored
      <4>1. f = op.at /\ op.page.last /\ f \in calm
        BY <2>1, <2>5, <3>4
      <4>2. told[m] = remote[m] \/ (told[m] = 0 /\ remote[m] = Gone)
        BY <2>1, <3>4, <4>1 DEF LastPagesTellAll
      <4>3. row[m] = remote[m] \/ (row[m] = 0 /\ remote[m] = Gone)
        BY <1>b, <2>1, <2>5, <3>1, <4>2 DEF RowsKnown
      <4> QED
        BY <2>1, <3>1, <3>4, <4>3 DEF InStep
    <3> QED
      BY <3>2, <3>3, <3>4
  <2>6. MirrorsMailbox'
    BY <2>5 DEF MirrorsMailbox, Mails
  <2> QED
    BY <2>3, <2>4, <2>6 DEF PagesCurrent, LastPagesTellAll
<1>15. CASE GraphStep
  BY <1>3, <1>15 DEF GraphStep
<1>16. CASE SyncStep
  BY <1>6, <1>7, <1>8, <1>9, <1>10, <1>12, <1>13, <1>14, <1>16
     DEF SyncStep, NextFolder, Fails, CursorExpires, Interrupted
<1> QED
  BY <1>4, <1>11, <1>15, <1>16 DEF Next

(* A completed run leaves the store equal to a folder that did not change   *)
(* meanwhile and has not lost a cursor.                                     *)
THEOREM StoreMirrorsMailbox == Spec => []MirrorsMailbox
<1>1. Init => MInv
  BY DEF Init, MInv, RowsKnown, PagesCurrent, LastPagesTellAll, MirrorsMailbox, Nothing
<1>2. MInv => MirrorsMailbox
  BY DEF MInv
<1> QED
  BY IInvInit, IInvStep, MirrorStep, <1>1, <1>2, PTL DEF Spec

-----------------------------------------------------------------------------
(* The verdicts.                                                            *)
CorrectingMail == correcting.todo # {} => correcting.mail \in PMails

PrecisionInv == PrecisionTypeOK /\ CorrectingMail

-----------------------------------------------------------------------------
(* What each party makes of a mail is a verdict.                            *)
LEMMA RulesSayAVerdict ==
    ASSUME NEW p \in RuleProjects
    PROVE  RulesSay(p) \in Verdicts
  BY PrecisionAssumption DEF RulesSay, Verdicts, Projects

(* Whoever decides it, a verdict is one: a person,                         *)
LEMMA CorrectedIsAVerdict ==
    ASSUME NEW r \in Verdicts, NEW fields
    PROVE  /\ applyPrecisionCorrection(r, fields) \in Verdicts
           /\ applyPrecisionCorrection(r, fields).source = "user-corrected"
  BY DEF applyPrecisionCorrection, Verdicts, Projects

(* a learned policy,                                                       *)
LEMMA PolicyIsAVerdict ==
    ASSUME NEW r \in Verdicts, NEW m \in PMails
    PROVE  WithPolicy(r, m) \in Verdicts
  <1>1. ASSUME NEW fields PROVE applyLearnedPolicy(r, fields) \in Verdicts
    <2> DEFINE s == applyPrecisionCorrection(r, fields)
    <2>1. s \in Verdicts
      BY CorrectedIsAVerdict
    <2> HIDE DEF s
    <2>2. [s EXCEPT !.source = "hybrid", !.review = "auto"] \in Verdicts
      BY <2>1 DEF Verdicts
    <2> QED
      BY <2>2 DEF applyLearnedPolicy, s
  <1> QED
    BY <1>1 DEF WithPolicy

(* a model,                                                                *)
LEMMA ModelSaysAVerdict ==
    ASSUME NEW r \in Verdicts PROVE mergeLlmClassification(r) \in Verdicts
  BY DEF mergeLlmClassification, Verdicts

(* A verdict evaluated anew follows the correction of the mail.             *)
LEMMA EvaluatedIsAVerdict ==
    ASSUME PrecisionTypeOK, NEW m \in PMails, NEW p \in RuleProjects
    PROVE  /\ Evaluate(m, p) \in Verdicts
           /\ correction[m] # {} => Evaluate(m, p).source = "user-corrected"
  <1> DEFINE automatic == IF keepAi(m) THEN verdict[m] ELSE RulesSay(p)
  <1>1. automatic \in Verdicts
    BY RulesSayAVerdict DEF PrecisionTypeOK, keepAi, NoRow, None
  <1> HIDE DEF automatic
  <1>2. Evaluate(m, p) = IF correction[m] # {} THEN applyPrecisionCorrection(automatic, correction[m])
                         ELSE WithPolicy(automatic, m)
    BY DEF Evaluate, automatic
  <1> QED
    BY <1>1, <1>2, CorrectedIsAVerdict, PolicyIsAVerdict

(* a link,                                                                 *)
LEMMA ProjectedIsAVerdict ==
    ASSUME NEW r \in {NoRow} \cup Verdicts, NEW link \in Masters \cup {None}
    PROVE  Projection(r, link) \in {NoRow} \cup Verdicts
  <1>1. CASE isProtected(r) \/ (r = NoRow /\ link = None)
    BY <1>1 DEF Projection, isProtected
  <1>2. CASE ~isProtected(r) /\ r = NoRow /\ link # None
    <2>1. Projection(r, link) = [source |-> "rules", provider |-> "worklink", review |-> "auto",
                                 project |-> "candidate", candidate |-> link]
      BY <1>2 DEF Projection
    <2> QED
      BY <1>2, <2>1 DEF Verdicts, Projects
  <1>3. CASE ~isProtected(r) /\ r # NoRow
    <2> DEFINE project == IF link = None THEN "unassigned" ELSE "candidate"
               candidate == IF link = None THEN "cleared" ELSE link
    <2>1. project \in Projects /\ candidate \in {None, "rules", "user", "cleared"} \cup Masters
      BY DEF Projects
    <2>2. Projection(r, link) = [r EXCEPT !.provider = "worklink", !.project = project, !.candidate = candidate]
      BY <1>3 DEF Projection
    <2> HIDE DEF project, candidate
    <2>3. [r EXCEPT !.provider = "worklink", !.project = project, !.candidate = candidate] \in Verdicts
      BY <1>3, <2>1 DEF Verdicts
    <2> QED
      BY <2>2, <2>3
  <1> QED
    BY <1>1, <1>2, <1>3

(* or an import of projects.                                               *)
LEMMA ImportedIsAVerdict ==
    ASSUME PrecisionTypeOK, NEW m \in PMails, NEW p \in RuleProjects
    PROVE  /\ ProjectOf(m, p) \in {NoRow} \cup Verdicts
           /\ ProjectOf(m, p).source = verdict[m].source
  <1> DEFINE fields == IF correction[m] # {} THEN correction[m] ELSE matchingPolicy(m)
             project == IF "project" \in fields THEN "confirmed" ELSE p
             candidate == IF "project" \in fields THEN "user" ELSE IF p = "unassigned" THEN None ELSE "rules"
             review == IF verdict[m].review # "corrected" /\ "project" \notin fields /\ p = "review_required"
                       THEN "review_required" ELSE verdict[m].review
             orphan == verdict[m].source \in {"user-corrected", "hybrid"} /\ fields = {}
  <1>1. CASE verdict[m] = NoRow \/ orphan
    BY <1>1 DEF ProjectOf, PrecisionTypeOK
  <1>2. CASE ~(verdict[m] = NoRow \/ orphan)
    <2>1. verdict[m] \in Verdicts
      BY <1>2 DEF PrecisionTypeOK
    <2>2. /\ project \in Projects /\ candidate \in {None, "rules", "user", "cleared"} \cup Masters
          /\ review \in {"auto", "review_required", "corrected"}
      BY <2>1, PrecisionAssumption DEF Projects, Verdicts
    <2>3. ProjectOf(m, p) = [verdict[m] EXCEPT !.project = project, !.candidate = candidate, !.review = review]
      BY <1>2 DEF ProjectOf
    <2> HIDE DEF project, candidate, review
    <2>4. /\ [verdict[m] EXCEPT !.project = project, !.candidate = candidate, !.review = review] \in Verdicts
          /\ [verdict[m] EXCEPT !.project = project, !.candidate = candidate, !.review = review].source = verdict[m].source
      BY <2>1, <2>2 DEF Verdicts
    <2> QED
      BY <2>3, <2>4
  <1> QED
    BY <1>1, <1>2

(* Saving a verdict leaves those of the other mails.                       *)
LEMMA RowSaved ==
    ASSUME PrecisionTypeOK, NEW m \in PMails, NEW r \in Verdicts, SaveRow(m, r)
    PROVE  /\ verdict' \in [PMails -> {NoRow} \cup Verdicts] /\ pending' \subseteq PMails
           /\ verdict'[m] = r
           /\ \A n \in PMails \ {m} : verdict'[n] = verdict[n]
  BY DEF PrecisionTypeOK, SaveRow

-----------------------------------------------------------------------------
(* Every verdict stored is a whole one, and corrections, links and passes  *)
(* under way have their types.                                             *)
THEOREM PrecisionInvariant == PrecisionSpec => []PrecisionInv
  <1>1. PrecisionInit => PrecisionInv
    BY PrecisionAssumption DEF PrecisionInit, PrecisionInv, PrecisionTypeOK, CorrectingMail, NoCorrecting, NoRefresh,
                               Correctings, Refreshes
  <1>2. ASSUME PrecisionInv, [PrecisionNext]_precisionVars PROVE PrecisionInv'
    <2> USE DEF PrecisionInv
    <2>1. CASE UNCHANGED precisionVars
      BY <1>2, <2>1 DEF precisionVars, PrecisionTypeOK, CorrectingMail
    <2>2. CASE \E m \in PMails : MailStored(m)
      BY <1>2, <2>2, PrecisionAssumption DEF MailStored, PrecisionTypeOK, CorrectingMail
    <2>3. CASE \E m \in PMails : classifyOne(m)
      BY <1>2, <2>3, EvaluatedIsAVerdict, RowSaved DEF classifyOne, PrecisionTypeOK, CorrectingMail
    <2>4. CASE \E m \in PMails, fields \in Overrides : correct(m, fields)
      BY <1>2, <2>4 DEF correct, PrecisionTypeOK, CorrectingMail, Correctings
    <2>5. CASE \E m \in PMails : Reclassify(m)
      <3> PICK m \in PMails : Reclassify(m)
        BY <2>5
      <3>1. verdict' \in [PMails -> {NoRow} \cup Verdicts] /\ pending' \subseteq PMails
        BY <1>2, EvaluatedIsAVerdict, RowSaved DEF Reclassify
      <3>2. correcting' \in Correctings /\ CorrectingMail'
        BY <1>2 DEF Reclassify, PrecisionTypeOK, CorrectingMail, Correctings, NoCorrecting
      <3> QED
        BY <1>2, <3>1, <3>2 DEF Reclassify, PrecisionTypeOK
    <2>6. CASE \E m \in PMails : acceptLlmObservation(m) \/ recordLlmFailure(m)
      <3> PICK m \in PMails : acceptLlmObservation(m) \/ recordLlmFailure(m)
        BY <2>6
      <3>1. verdict' \in [PMails -> {NoRow} \cup Verdicts] /\ pending' \subseteq PMails
        <4>1. UNCHANGED <<verdict, pending>> \/ \E r \in Verdicts : SaveRow(m, r)
          BY RulesSayAVerdict, ModelSaysAVerdict, PolicyIsAVerdict DEF acceptLlmObservation, recordLlmFailure
        <4> QED
          BY <1>2, <4>1, RowSaved DEF PrecisionTypeOK
      <3> QED
        BY <1>2, <3>1 DEF acceptLlmObservation, recordLlmFailure, PrecisionTypeOK, CorrectingMail
    <2>7. CASE saveLearningPolicy
      <3>1. correcting.mail \in PMails
        BY <1>2, <2>7 DEF saveLearningPolicy, CorrectingMail
      <3> QED
        BY <1>2, <2>7, <3>1 DEF saveLearningPolicy, PrecisionTypeOK, CorrectingMail, Correctings, Keys
    <2>8. CASE \E batch \in SUBSET PMails : listLlmCandidates(batch) \/ classifyByIds(batch)
      BY <1>2, <2>8 DEF listLlmCandidates, classifyByIds, PrecisionTypeOK, CorrectingMail
    <2>9. CASE refreshLinks \/ abortRefresh \/ \E m \in PMails : CollectPage(m)
      <3>1. refresh' \in Refreshes
        <4>1. CASE refreshLinks
          <5> DEFINE todo == {m \in PMails : Stored(m)}
          <5>1. todo \subseteq PMails /\ text \in [PMails -> 0..MaxTexts] /\ [m \in PMails |-> 0] \in [PMails -> 0..MaxTexts]
            BY <1>2, PrecisionAssumption DEF PrecisionTypeOK
          <5>2. refresh' = [NoRefresh EXCEPT !.snapshot = text, !.on = TRUE, !.todo = todo]
            BY <4>1 DEF refreshLinks
          <5> HIDE DEF todo
          <5>3. refresh' = [snapshot |-> text, got |-> [m \in PMails |-> 0], todo |-> todo, on |-> TRUE]
            BY <5>2 DEF NoRefresh
          <5> QED
            BY <5>1, <5>3 DEF Refreshes
        <4>2. CASE abortRefresh
          BY <1>2, <4>2, PrecisionAssumption DEF abortRefresh, NoRefresh, PrecisionTypeOK, Refreshes
        <4>3. CASE \E m \in PMails : CollectPage(m)
          <5> PICK m \in PMails : CollectPage(m)
            BY <4>3
          <5> DEFINE got == [refresh.got EXCEPT ![m] = text[m]]
                     todo == refresh.todo \ {m}
          <5>1. got \in [PMails -> 0..MaxTexts] /\ todo \subseteq PMails /\ refresh \in Refreshes
            BY <1>2 DEF PrecisionTypeOK, Refreshes
          <5>2. refresh' = [refresh EXCEPT !.got = got, !.todo = todo]
            BY <5>1 DEF CollectPage, Refreshes
          <5> HIDE DEF got, todo
          <5> QED
            BY <5>1, <5>2 DEF Refreshes
        <4> QED
          BY <2>9, <4>1, <4>2, <4>3
      <3> QED
        BY <1>2, <2>9, <3>1 DEF refreshLinks, abortRefresh, CollectPage, PrecisionTypeOK, CorrectingMail
    <2>10. CASE \E match \in [PMails -> Masters \cup {None}] : commitWorkLinkRefresh(match)
      <3> PICK match \in [PMails -> Masters \cup {None}] : commitWorkLinkRefresh(match)
        BY <2>10
      <3>1. verdict' \in [PMails -> {NoRow} \cup Verdicts]
        BY <1>2, ProjectedIsAVerdict DEF commitWorkLinkRefresh, PrecisionTypeOK
      <3>2. refresh' \in Refreshes
        BY PrecisionAssumption DEF commitWorkLinkRefresh, NoRefresh, Refreshes
      <3> QED
        BY <1>2, <3>1, <3>2 DEF commitWorkLinkRefresh, PrecisionTypeOK, CorrectingMail
    <2>11. CASE reclassifyProjectAnalysis
      <3>1. verdict' \in [PMails -> {NoRow} \cup Verdicts]
        BY <1>2, <2>11, ImportedIsAVerdict DEF reclassifyProjectAnalysis
      <3> QED
        BY <1>2, <2>11, <3>1 DEF reclassifyProjectAnalysis, PrecisionTypeOK, CorrectingMail
    <2>12. CASE PrecisionCrash
      <3>1. refresh' \in Refreshes /\ correcting' \in Correctings /\ CorrectingMail'
        BY <2>12, PrecisionAssumption DEF PrecisionCrash, NoRefresh, Refreshes, NoCorrecting, Correctings, CorrectingMail
      <3> QED
        BY <1>2, <2>12, <3>1 DEF PrecisionCrash, PrecisionTypeOK
    <2> QED
      BY <1>2, <2>1, <2>2, <2>3, <2>4, <2>5, <2>6, <2>7, <2>8, <2>9, <2>10, <2>11, <2>12 DEF PrecisionNext
  <1> QED
    BY <1>1, <1>2, PTL DEF PrecisionSpec

(* Types of the verdicts and of what is under way: a verdict is whole.      *)
THEOREM PrecisionTypeCorrect == PrecisionSpec => []PrecisionTypeOK
  BY PrecisionInvariant, PTL DEF PrecisionInv

(* Work links are swapped for those of texts that are still the stored      *)
(* ones, and every verdict then shows the link its mail has.                *)
THEOREM LinksAgree == PrecisionSpec => LinksAgreeOnCommit
  <1> DEFINE Agreeing ==
        (\E match \in [PMails -> Masters \cup {None}] : commitWorkLinkRefresh(match))
            => \A m \in PMails : Agrees(m)' /\ (Stored(m) => refresh.got[m] = text[m])
  <1>1. ASSUME PrecisionInv PROVE Agreeing
    <2> SUFFICES ASSUME NEW match \in [PMails -> Masters \cup {None}], commitWorkLinkRefresh(match), NEW m \in PMails
                 PROVE  Agrees(m)' /\ (Stored(m) => refresh.got[m] = text[m])
      OBVIOUS
    <2>1. Stored(m) => refresh.got[m] = text[m]
      BY DEF commitWorkLinkRefresh, SourceUnchanged
    <2> DEFINE r == verdict[m]
               link == match[m]
    <2>2. r \in {NoRow} \cup Verdicts /\ link \in Masters \cup {None}
      BY <1>1 DEF PrecisionInv, PrecisionTypeOK
    <2>3. verdict'[m] = Projection(r, link) /\ links'[m] = link
      BY DEF commitWorkLinkRefresh
    <2> HIDE DEF r, link
    <2>4. CASE isProtected(r)
      <3>1. verdict'[m] = r
        BY <2>3, <2>4 DEF Projection, isProtected
      <3> QED
        BY <2>1, <2>4, <3>1 DEF Agrees, isProtected, isDerived
    <2>5. CASE ~isProtected(r) /\ r = NoRow /\ link = None
      <3>1. verdict'[m] = NoRow
        BY <2>3, <2>5 DEF Projection
      <3> QED
        BY <2>1, <2>3, <2>5, <3>1, PrecisionAssumption DEF Agrees, isDerived, NoRow, None
    <2>6. CASE ~isProtected(r) /\ r = NoRow /\ link # None
      <3>1. verdict'[m] = [source |-> "rules", provider |-> "worklink", review |-> "auto",
                           project |-> "candidate", candidate |-> link]
        BY <2>3, <2>6 DEF Projection
      <3> QED
        BY <2>1, <2>3, <2>6, <3>1 DEF Agrees
    <2>7. CASE ~isProtected(r) /\ r # NoRow
      <3> DEFINE project == IF link = None THEN "unassigned" ELSE "candidate"
                 candidate == IF link = None THEN "cleared" ELSE link
      <3>1. Projection(r, link) = [r EXCEPT !.provider = "worklink", !.project = project, !.candidate = candidate]
        BY <2>7 DEF Projection
      <3> HIDE DEF project, candidate
      <3>2. verdict'[m].project = project /\ verdict'[m].candidate = candidate
        BY <2>2, <2>3, <2>7, <3>1 DEF Verdicts
      <3> QED
        BY <2>1, <2>3, <3>2 DEF Agrees, project, candidate
    <2> QED
      BY <2>1, <2>4, <2>5, <2>6, <2>7
  <1>2. PrecisionInv /\ [PrecisionNext]_precisionVars => [Agreeing]_precisionVars
    BY <1>1
  <1> QED
    BY <1>2, PrecisionInvariant, PTL DEF PrecisionSpec, LinksAgreeOnCommit

(* A corrected mail keeps the verdict of its correction, but for a failure  *)
(* of the model it was asked about.                                         *)
THEOREM CorrectionsHold == PrecisionSpec => CorrectionOutranks
  <1> DEFINE Holds ==
        \A m \in PMails : verdict[m].source = "user-corrected" /\ correction[m] # {}
            => verdict'[m].source = "user-corrected" \/ m \in asked
  <1>1. ASSUME PrecisionInv, PrecisionNext PROVE Holds
    <2> SUFFICES ASSUME NEW m \in PMails, verdict[m].source = "user-corrected", correction[m] # {}, m \notin asked
                 PROVE  verdict'[m].source = "user-corrected"
      OBVIOUS
    <2> USE <1>1 DEF PrecisionInv
    <2>1. CASE \E n \in PMails : classifyOne(n) \/ Reclassify(n)
      BY <2>1, EvaluatedIsAVerdict, RowSaved DEF classifyOne, Reclassify
    <2>2. CASE \E n \in PMails : acceptLlmObservation(n) \/ recordLlmFailure(n)
      <3> PICK n \in PMails : acceptLlmObservation(n) \/ recordLlmFailure(n)
        BY <2>2
      <3>1. n # m
        BY DEF acceptLlmObservation, recordLlmFailure
      <3>2. UNCHANGED verdict \/ \E r \in Verdicts : SaveRow(n, r)
        BY RulesSayAVerdict, ModelSaysAVerdict, PolicyIsAVerdict DEF acceptLlmObservation, recordLlmFailure
      <3> QED
        BY <3>1, <3>2, RowSaved
    <2>3. CASE \E match \in [PMails -> Masters \cup {None}] : commitWorkLinkRefresh(match)
      <3>1. isProtected(verdict[m])
        BY DEF isProtected, NoRow, None
      <3>2. \A link : Projection(verdict[m], link) = verdict[m]
        BY <3>1 DEF Projection, isProtected
      <3> QED
        BY <2>3, <3>2 DEF commitWorkLinkRefresh
    <2>4. CASE reclassifyProjectAnalysis
      BY <2>4, ImportedIsAVerdict DEF reclassifyProjectAnalysis
    <2>5. CASE UNCHANGED verdict
      BY <2>5
    <2> QED
      BY <2>1, <2>2, <2>3, <2>4, <2>5
         DEF PrecisionNext, MailStored, correct, CollectPage, saveLearningPolicy, listLlmCandidates, classifyByIds,
             refreshLinks, abortRefresh, PrecisionCrash
  <1>2. PrecisionInv /\ [PrecisionNext]_precisionVars => [Holds]_precisionVars
    BY <1>1
  <1> QED
    BY <1>2, PrecisionInvariant, PTL DEF PrecisionSpec, CorrectionOutranks

-----------------------------------------------------------------------------
(* The work intake.  At most one candidate is awaited, the one the sync has *)
(* sent, and CWOS has what it says it has created.                          *)
OneAwaited ==
    /\ \A p, q \in crmPosts : p.awaited /\ q.awaited => p = q
    /\ \A p \in crmPosts : p.awaited => intake["sync"].step = "posting" /\ p.candidate = intake["sync"].sent

CreatedIsIn == intake["sync"].step = "created" => intake["sync"].sent \in candidates

IntakeInv == IntakeTypeOK /\ OneAwaited /\ CreatedIsIn

(* An intake that is not running is one of its states.                     *)
LEMMA RestIsAnIntake == NotRunning \in IntakeStates /\ NotRunning.step = "idle"
  <1>1. FirstRow \in Rows
    BY IntakeAssumption DEF FirstRow, Rows, Revisions, Bodies
  <1> QED
    BY <1>1, IntakeAssumption DEF NotRunning, IntakeStates, NoRuntime

(* The invariant holds at first.                                           *)
LEMMA IntakeInitInv == IntakeInit => IntakeInv
  <1> SUFFICES ASSUME IntakeInit PROVE IntakeInv
    OBVIOUS
  <1>1. FirstRow \in Rows /\ NoDelivery \in [rev : 0..MaxRevisions, text : Bodies]
    BY IntakeAssumption DEF FirstRow, Rows, Revisions, Bodies, NoDelivery
  <1>2. crm \in [version : 1..MaxRuntime, rows : Editions]
    BY IntakeAssumption DEF IntakeInit
  <1>3. IntakeTypeOK
    BY <1>1, <1>2, RestIsAnIntake DEF IntakeInit, IntakeTypeOK
  <1>4. OneAwaited /\ CreatedIsIn
    BY RestIsAnIntake DEF IntakeInit, OneAwaited, CreatedIsIn, Intakes
  <1> QED
    BY <1>3, <1>4 DEF IntakeInv

(* An intake becomes another; the other one stays as it is.                 *)
LEMMA IntakeBecomes ==
    ASSUME IntakeTypeOK, NEW o \in Intakes, NEW now \in IntakeStates, intake' = [intake EXCEPT ![o] = now]
    PROVE  /\ intake' \in [Intakes -> IntakeStates]
           /\ intake'[o] = now
           /\ \A p \in Intakes \ {o} : intake'[p] = intake[p]
  BY DEF IntakeTypeOK

(* As long as the sync is not at a candidate, and posts none, nothing of    *)
(* what is awaited changes.                                                 *)
LEMMA NothingAwaited ==
    ASSUME IntakeInv, UNCHANGED <<crmPosts, candidates>>, intake["sync"].step # "posting",
           intake'["sync"].step # "created"
    PROVE  OneAwaited' /\ CreatedIsIn'
  BY DEF IntakeInv, OneAwaited, CreatedIsIn

(* It is kept by whatever leaves the posts and the candidates,             *)
LEMMA SyncAside ==
    ASSUME IntakeInv, UNCHANGED <<crmPosts, candidates>>, intake'["sync"].step = intake["sync"].step,
           intake'["sync"].sent = intake["sync"].sent
    PROVE  OneAwaited' /\ CreatedIsIn'
  BY DEF IntakeInv, OneAwaited, CreatedIsIn

(* The links of a mail, made anew, are links.                               *)
LEMMA LinkedAreLinks ==
    ASSUME IntakeTypeOK, NEW m \in CrmMails, NEW crmRow \in Rows, NEW masters \in SUBSET CrmMasters
    PROVE  /\ Linked(m, crmRow, masters) \subseteq CwosLinkRecords
           /\ \A l \in Linked(m, crmRow, masters) \ cwosLinks[m] : l.rev = crmRow.rev /\ l.master \in crmRow.text
  <1> DEFINE named == crmRow.text \cap masters
             Before(x) == {l \in cwosLinks[m] : l.master = x}
             Older(x) == UNION {l.older \cup ({l.rev} \ {crmRow.rev}) : l \in Before(x)}
  <1>1. cwosLinks[m] \subseteq CwosLinkRecords
    BY DEF IntakeTypeOK
  <1>2. \A x \in named : Older(x) \subseteq Revisions
    BY <1>1 DEF CwosLinkRecords
  <1>3. crmRow.rev \in Revisions
    BY DEF Rows
  <1>4. Linked(m, crmRow, masters) = {l \in cwosLinks[m] : l.master \notin named}
                                    \cup {[master |-> x, rev |-> crmRow.rev, older |-> Older(x)] : x \in named}
    BY DEF Linked
  <1> HIDE DEF Older
  <1>5. \A x \in named : [master |-> x, rev |-> crmRow.rev, older |-> Older(x)] \in CwosLinkRecords
    BY <1>2, <1>3 DEF CwosLinkRecords
  <1> QED
    BY <1>1, <1>4, <1>5

(* What a request reads of the masters are masters.                        *)
LEMMA ReadAreMasters == ASSUME IntakeTypeOK PROVE MastersRead \subseteq CrmMasters
  BY IntakeAssumption DEF IntakeTypeOK, MastersRead, CrmMasters

-----------------------------------------------------------------------------
(* Around the intake.                                                       *)
LEMMA AroundSteps ==
    ASSUME IntakeInv, BindingMoves \/ ServerRestarts \/ CrmMoves \/ \E m \in CrmMails : StoredAgain(m)
    PROVE  IntakeInv'
  <1> USE DEF IntakeInv
  <1>1. CASE BindingMoves
    <2>1. \A o \in Intakes : /\ [intake[o] EXCEPT !.fresh = intake[o].step = "idle"] \in IntakeStates
                             /\ [intake[o] EXCEPT !.fresh = intake[o].step = "idle"].step = intake[o].step
                             /\ [intake[o] EXCEPT !.fresh = intake[o].step = "idle"].sent = intake[o].sent
      BY DEF IntakeTypeOK, IntakeStates
    <2>2. /\ intake' \in [Intakes -> IntakeStates]
          /\ intake'["sync"].step = intake["sync"].step /\ intake'["sync"].sent = intake["sync"].sent
      BY <1>1, <2>1 DEF BindingMoves, Intakes
    <2> QED
      BY <1>1, <2>2, SyncAside DEF BindingMoves, IntakeTypeOK, crmVars
  <1>2. CASE ServerRestarts
    <2>1. \A p \in crmPosts : [p EXCEPT !.awaited = FALSE] \in CandidatePosts /\ ~[p EXCEPT !.awaited = FALSE].awaited
      BY DEF IntakeTypeOK, CandidatePosts
    <2>2. crmPosts' \subseteq CandidatePosts /\ \A p \in crmPosts' : ~p.awaited
      BY <1>2, <2>1 DEF ServerRestarts, Unawaited
    <2>3. intake' \in [Intakes -> IntakeStates] /\ intake'["sync"].step = "idle"
      BY <1>2, RestIsAnIntake DEF ServerRestarts, Intakes
    <2> QED
      BY <1>2, <2>2, <2>3 DEF ServerRestarts, IntakeTypeOK, OneAwaited, CreatedIsIn
  <1>3. CASE CrmMoves
    <2>1. crm' \in [version : 1..MaxRuntime, rows : Editions]
      BY <1>3, IntakeAssumption DEF CrmMoves, IntakeTypeOK
    <2> QED
      BY <1>3, <2>1 DEF CrmMoves, IntakeTypeOK, OneAwaited, CreatedIsIn
  <1>4. CASE \E m \in CrmMails : StoredAgain(m)
    BY <1>4 DEF StoredAgain, IntakeTypeOK, OneAwaited, CreatedIsIn, crmVars
  <1> QED
    BY <1>1, <1>2, <1>3, <1>4

(* A candidate that was posted is taken, refused, lost or given up.         *)
LEMMA PostSteps ==
    ASSUME IntakeInv, NEW p \in crmPosts, CrmTakes(p) \/ PostIsLost(p) \/ PostTimesOut(p)
    PROVE  IntakeInv'
  <1> USE DEF IntakeInv
  <1>1. /\ UNCHANGED <<mailRow, cwosLinks, delivered>> /\ candidates \subseteq candidates'
        /\ p \in CandidatePosts /\ intake["sync"] \in IntakeStates
    BY DEF CrmTakes, PostIsLost, PostTimesOut, IntakeTypeOK, Intakes
  <1>2. candidates' \subseteq Candidates /\ crm' \in [version : 1..MaxRuntime, rows : Editions]
    <2>1. CASE /\ p.expected = crm.version /\ crm.version < MaxRuntime
               /\ candidates' = candidates \cup {p.candidate} /\ crm' = [crm EXCEPT !.version = @ + 1]
      BY <1>1, <2>1, IntakeAssumption DEF IntakeTypeOK, CandidatePosts
    <2>2. CASE UNCHANGED <<candidates, crm>>
      BY <2>2 DEF IntakeTypeOK
    <2> QED
      BY <2>1, <2>2 DEF CrmTakes, PostIsLost, PostTimesOut
  <1>3. crmPosts' \subseteq CandidatePosts /\ \A q \in crmPosts' : q.awaited => q \in crmPosts \ {p}
    <2>1. [p EXCEPT !.awaited = FALSE] \in CandidatePosts /\ ~[p EXCEPT !.awaited = FALSE].awaited
      BY <1>1 DEF CandidatePosts
    <2>2. crmPosts' \subseteq (crmPosts \ {p}) \cup {[p EXCEPT !.awaited = FALSE]}
      BY DEF CrmTakes, PostIsLost, PostTimesOut
    <2> QED
      BY <2>1, <2>2 DEF IntakeTypeOK
  <1>4. CASE ~p.awaited
    <2>1. UNCHANGED intake
      BY <1>4 DEF CrmTakes, PostIsLost, PostTimesOut
    <2> QED
      BY <1>1, <1>2, <1>3, <2>1 DEF IntakeTypeOK, OneAwaited, CreatedIsIn
  <1>5. CASE p.awaited
    <2>1. p.candidate = intake["sync"].sent /\ \A q \in crmPosts' : ~q.awaited
      BY <1>3, <1>5 DEF OneAwaited
    <2>2. PICK now \in IntakeStates : /\ intake' = [intake EXCEPT !["sync"] = now]
                                      /\ now.sent = intake["sync"].sent
                                      /\ now.step = "created" => p.candidate \in candidates'
      <3>1. ASSUME NEW answer \in {"created", "conflict", "denied"}, NEW runtime \in 0..MaxRuntime,
                   intake' = [intake EXCEPT !["sync"].step = answer, !["sync"].runtime = runtime],
                   answer = "created" => p.candidate \in candidates'
            PROVE  \E now \in IntakeStates : /\ intake' = [intake EXCEPT !["sync"] = now]
                                             /\ now.sent = intake["sync"].sent
                                             /\ now.step = "created" => p.candidate \in candidates'
        <4> DEFINE now == [intake["sync"] EXCEPT !.step = answer, !.runtime = runtime]
        <4>1. now \in IntakeStates /\ now.sent = intake["sync"].sent /\ now.step = answer
          BY <1>1 DEF IntakeStates
        <4>2. intake' = [intake EXCEPT !["sync"] = now]
          BY <3>1 DEF IntakeTypeOK, Intakes
        <4> HIDE DEF now
        <4> QED
          BY <3>1, <4>1, <4>2
      <3>2. ASSUME intake' = [intake EXCEPT !["sync"].step = "denied"]
            PROVE  \E now \in IntakeStates : /\ intake' = [intake EXCEPT !["sync"] = now]
                                             /\ now.sent = intake["sync"].sent
                                             /\ now.step = "created" => p.candidate \in candidates'
        <4> DEFINE now == [intake["sync"] EXCEPT !.step = "denied"]
        <4>1. now \in IntakeStates /\ now.sent = intake["sync"].sent /\ now.step = "denied"
          BY <1>1 DEF IntakeStates
        <4>2. intake' = [intake EXCEPT !["sync"] = now]
          BY <3>2 DEF IntakeTypeOK, Intakes
        <4> HIDE DEF now
        <4> QED
          BY <3>2, <4>1, <4>2
      <3>3. crm'.version \in 0..MaxRuntime /\ intake["sync"].runtime \in 0..MaxRuntime
        BY <1>1, <1>2 DEF IntakeStates
      <3>4. CASE CrmTakes(p)
        <4>1. PICK answer \in {"created", "conflict", "denied"} :
                /\ intake' = [intake EXCEPT !["sync"].step = answer,
                                 !["sync"].runtime = IF answer = "created" THEN crm'.version ELSE @]
                /\ answer = "created" => p.candidate \in candidates'
          BY <1>5, <3>4 DEF CrmTakes
        <4> DEFINE runtime == IF answer = "created" THEN crm'.version ELSE intake["sync"].runtime
        <4>2. runtime \in 0..MaxRuntime /\ intake' = [intake EXCEPT !["sync"].step = answer, !["sync"].runtime = runtime]
          BY <3>3, <4>1 DEF IntakeTypeOK, Intakes, IntakeStates
        <4> QED
          BY <3>1, <4>1, <4>2
      <3> QED
        BY <1>5, <3>2, <3>4 DEF PostIsLost, PostTimesOut
    <2>3. intake' \in [Intakes -> IntakeStates] /\ intake'["sync"] = now
      BY <2>2, IntakeBecomes DEF Intakes
    <2>4. IntakeTypeOK'
      BY <1>1, <1>2, <1>3, <2>3 DEF IntakeTypeOK
    <2>5. OneAwaited' /\ CreatedIsIn'
      BY <2>1, <2>2, <2>3 DEF OneAwaited, CreatedIsIn
    <2> QED
      BY <2>4, <2>5
  <1> QED
    BY <1>1, <1>4, <1>5 DEF CandidatePosts

-----------------------------------------------------------------------------
(* The masters are read.                                                    *)
LEMMA ReadingSteps ==
    ASSUME IntakeInv, NEW o \in Intakes,
           \/ \E mails \in SUBSET CrmMails, crmRow \in Rows : Begins(o, mails, crmRow)
           \/ StateAnswers(o) \/ MastersFail(o)
           \/ o = "sync" /\ MastersForSync
    PROVE  IntakeInv'
  <1> USE DEF IntakeInv
  <1>1. UNCHANGED <<mailRow, crmVars, cwosLinks, delivered>> /\ intake[o] \in IntakeStates
    BY DEF Begins, StateAnswers, MastersFail, MastersForSync, IntakeTypeOK
  <1>2. PICK now \in IntakeStates : /\ intake' = [intake EXCEPT ![o] = now] /\ now.step \in {"idle", "state", "masters", "ingest"}
                                    /\ intake[o].step \in {"idle", "state", "masters"}
    <2>1. CASE \E mails \in SUBSET CrmMails, crmRow \in Rows : Begins(o, mails, crmRow)
      <3> PICK mails \in SUBSET CrmMails, crmRow \in Rows : Begins(o, mails, crmRow)
        BY <2>1
      <3> DEFINE now == [NotRunning EXCEPT !.step = "state", !.todo = mails, !.row = crmRow]
      <3>1. now \in IntakeStates /\ now.step = "state"
        BY RestIsAnIntake DEF IntakeStates
      <3>2. intake' = [intake EXCEPT ![o] = now] /\ intake[o].step = "idle"
        BY DEF Begins
      <3> HIDE DEF now
      <3> QED
        BY <3>1, <3>2
    <2>2. CASE StateAnswers(o)
      <3> DEFINE runtime == IF o = "sync" THEN crm.version ELSE NoRuntime
                 now == [intake[o] EXCEPT !.step = "masters", !.runtime = runtime]
      <3>1. runtime \in 0..MaxRuntime
        BY IntakeAssumption DEF IntakeTypeOK, NoRuntime
      <3>2. intake' = [intake EXCEPT ![o] = now] /\ intake[o].step = "state"
        BY <2>2 DEF StateAnswers, IntakeTypeOK
      <3> HIDE DEF runtime
      <3>3. now \in IntakeStates /\ now.step = "masters"
        BY <1>1, <3>1 DEF IntakeStates
      <3> HIDE DEF now
      <3> QED
        BY <3>2, <3>3
    <2>3. CASE MastersFail(o)
      <3> DEFINE now == [intake[o] EXCEPT !.step = "ingest", !.runtime = NoRuntime]
      <3>a. NoRuntime \in 0..MaxRuntime
        BY IntakeAssumption DEF NoRuntime
      <3>1. now \in IntakeStates /\ now.step = "ingest"
        BY <1>1, <3>a DEF IntakeStates
      <3>2. /\ intake' = [intake EXCEPT ![o] = now] \/ intake' = [intake EXCEPT ![o] = NotRunning]
            /\ intake[o].step \in {"state", "masters"}
        BY <2>3 DEF MastersFail, IntakeTypeOK
      <3> HIDE DEF now
      <3> QED
        BY <3>1, <3>2, RestIsAnIntake
    <2>4. CASE o = "sync" /\ MastersForSync
      <3> DEFINE now == [intake[o] EXCEPT !.step = "ingest", !.masters = MastersRead]
      <3>1. now \in IntakeStates /\ now.step = "ingest"
        BY <1>1, ReadAreMasters DEF IntakeStates
      <3>2. /\ intake' = [intake EXCEPT ![o] = now] \/ intake' = [intake EXCEPT ![o] = NotRunning]
            /\ intake[o].step = "masters"
        BY <2>4 DEF MastersForSync, IntakeTypeOK
      <3> HIDE DEF now
      <3> QED
        BY <3>1, <3>2, RestIsAnIntake
    <2> QED
      BY <2>1, <2>2, <2>3, <2>4
  <1>3. IntakeTypeOK'
    BY <1>1, <1>2, IntakeBecomes DEF IntakeTypeOK, crmVars
  <1>4. OneAwaited' /\ CreatedIsIn'
    <2>1. CASE o = "sync"
      BY <1>1, <1>2, <2>1, IntakeBecomes, NothingAwaited DEF crmVars
    <2>2. CASE o # "sync"
      BY <1>1, <1>2, <2>2, IntakeBecomes, SyncAside DEF Intakes, crmVars
    <2> QED
      BY <2>1, <2>2
  <1> QED
    BY <1>3, <1>4

(* by a request that reads the masters,                                    *)
LEMMA RequestStep ==
    ASSUME IntakeInv, NEW m \in CrmMails, MastersForRequest(m)
    PROVE  IntakeInv'
  <1> USE DEF IntakeInv
  <1> DEFINE crmRow == intake["request"].row
             relinked == Linked(m, crmRow, MastersRead)
  <1>1. crmRow \in Rows
    BY DEF IntakeTypeOK, IntakeStates, Intakes
  <1>2. relinked \subseteq CwosLinkRecords
    BY <1>1, LinkedAreLinks, ReadAreMasters
  <1>3. cwosLinks' \in {cwosLinks, [cwosLinks EXCEPT ![m] = relinked]}
    BY DEF MastersForRequest
  <1> HIDE DEF relinked
  <1>4. cwosLinks' \in [CrmMails -> SUBSET CwosLinkRecords]
    BY <1>2, <1>3 DEF IntakeTypeOK
  <1>5. UNCHANGED <<mailRow, crmVars, delivered>> /\ intake' = [intake EXCEPT !["request"] = NotRunning]
    BY DEF MastersForRequest
  <1>6. intake' \in [Intakes -> IntakeStates] /\ intake'["sync"] = intake["sync"]
    BY <1>5, RestIsAnIntake, IntakeBecomes DEF Intakes
  <1> QED
    BY <1>4, <1>5, <1>6, SyncAside DEF IntakeTypeOK, crmVars

(* The mails of a sync, one after the other.                                *)
LEMMA IngestSteps ==
    ASSUME IntakeInv, NEW m \in CrmMails, IngestRefused(m) \/ IngestMail(m)
    PROVE  IntakeInv'
  <1> USE DEF IntakeInv
  <1> DEFINE passed == [intake["sync"] EXCEPT !.todo = @ \ {m}]
  <1>1. passed \in IntakeStates /\ passed.step = "ingest" /\ passed.sent = intake["sync"].sent
    BY DEF IntakeTypeOK, IntakeStates, Intakes, IngestRefused, IngestMail, AtMail
  <1>2. Passed(m) = [intake EXCEPT !["sync"] = passed]
    BY DEF Passed, IntakeTypeOK, Intakes
  <1>3. intake["sync"].step = "ingest" /\ intake["sync"] \in IntakeStates /\ mailRow[m] \in Rows
    BY DEF IngestRefused, IngestMail, AtMail, IntakeTypeOK, Intakes
  <1> HIDE DEF passed
  <1>4. CASE intake' = Passed(m) /\ UNCHANGED crmPosts
    <2>1. intake' \in [Intakes -> IntakeStates] /\ intake'["sync"] = passed
      BY <1>1, <1>2, <1>4, IntakeBecomes DEF Intakes
    <2>2. UNCHANGED <<mailRow, crm, candidates, delivered>>
      BY DEF IngestRefused, IngestMail, crmVars
    <2>3. OneAwaited' /\ CreatedIsIn'
      BY <1>1, <1>3, <1>4, <2>1, <2>2, NothingAwaited
    <2>4. cwosLinks' \in [CrmMails -> SUBSET CwosLinkRecords]
      <3>1. CASE IngestRefused(m)
        BY <3>1 DEF IngestRefused, IntakeTypeOK
      <3>2. CASE IngestMail(m)
        BY <1>3, <3>2, LinkedAreLinks DEF IngestMail, IntakeTypeOK, IntakeStates
      <3> QED
        BY <3>1, <3>2
    <2> QED
      BY <1>4, <2>1, <2>2, <2>3, <2>4 DEF IntakeTypeOK
  <1>5. CASE IngestMail(m) /\ ~(intake' = Passed(m) /\ UNCHANGED crmPosts)
    <2> DEFINE run == intake["sync"]
               crmRow == mailRow[m]
               candidate == [mail |-> m, rev |-> crmRow.rev, text |-> crmRow.text]
               post == [candidate |-> candidate, expected |-> run.runtime, awaited |-> TRUE]
               now == [passed EXCEPT !.step = "posting", !.sent = candidate]
    <2>1. candidate \in Candidates
      BY <1>3 DEF Candidates, Rows
    <2>2. /\ intake' = [Passed(m) EXCEPT !["sync"].step = "posting", !["sync"].sent = candidate]
          /\ crmPosts' = crmPosts \cup {post}
          /\ cwosLinks' = [cwosLinks EXCEPT ![m] = Linked(m, crmRow, run.masters)]
          /\ run.runtime # NoRuntime
          /\ UNCHANGED <<mailRow, crm, candidates, delivered>>
      BY <1>5 DEF IngestMail
    <2> HIDE DEF candidate
    <2>3. post \in CandidatePosts /\ post.awaited /\ post.candidate = candidate
      BY <1>3, <2>1, <2>2, IntakeAssumption DEF CandidatePosts, IntakeStates, NoRuntime
    <2>4. now \in IntakeStates /\ now.step = "posting" /\ now.sent = candidate
      BY <1>1, <2>1 DEF IntakeStates
    <2>5. intake' = [intake EXCEPT !["sync"] = now]
      BY <1>2, <2>2 DEF IntakeTypeOK, Intakes
    <2> HIDE DEF post, now
    <2>6. intake' \in [Intakes -> IntakeStates] /\ intake'["sync"] = now
      BY <2>4, <2>5, IntakeBecomes DEF Intakes
    <2>7. cwosLinks' \in [CrmMails -> SUBSET CwosLinkRecords]
      BY <1>3, <2>2, LinkedAreLinks DEF IntakeTypeOK, IntakeStates
    <2>8. \A p \in crmPosts : ~p.awaited
      BY <1>3 DEF OneAwaited
    <2>9. OneAwaited' /\ CreatedIsIn'
      BY <2>2, <2>3, <2>4, <2>6, <2>8 DEF OneAwaited, CreatedIsIn
    <2> QED
      BY <2>2, <2>3, <2>6, <2>7, <2>9 DEF IntakeTypeOK
  <1> QED
    BY <1>4, <1>5 DEF IngestRefused, crmVars

-----------------------------------------------------------------------------
(* An answer of CWOS.                                                       *)
Recorded(d) == \E c \in candidates : c.mail \in CrmMails /\ d = [delivered EXCEPT ![c.mail] = [rev |-> c.rev, text |-> c.text]]

(* A confirmed candidate is recorded, and the run goes on.                 *)
LEMMA ConfirmedRecords ==
    ASSUME IntakeInv, NEW runtime \in 0..MaxRuntime, intake["sync"].sent \in candidates, Confirmed(runtime)
    PROVE  /\ UNCHANGED delivered \/ Recorded(delivered')
           /\ \E r \in 0..MaxRuntime : GoesOn([intake["sync"] EXCEPT !.runtime = r])
  <1>1. intake["sync"].sent.mail \in CrmMails
    BY DEF IntakeInv, IntakeTypeOK, Candidates
  <1> QED
    BY <1>1, IntakeAssumption DEF Confirmed, Recorded, NoRuntime

(* by an answer or a lookup, which record only what is in CWOS,            *)
LEMMA AnswerSteps ==
    ASSUME IntakeInv, AnswerArrives \/ lookupConfirmedCandidate
    PROVE  /\ IntakeInv'
           /\ UNCHANGED delivered \/ (Recorded(delivered') /\ StillCurrent /\ intake["sync"].sent \in candidates)
  <1> USE DEF IntakeInv
  <1>1. UNCHANGED <<mailRow, crmVars, cwosLinks>> /\ intake["sync"] \in IntakeStates /\ NoRuntime \in 0..MaxRuntime
    BY IntakeAssumption DEF AnswerArrives, lookupConfirmedCandidate, IntakeTypeOK, Intakes, NoRuntime
  <1>2. \/ UNCHANGED delivered /\ GoesOn([intake["sync"] EXCEPT !.runtime = NoRuntime])
        \/ \E r \in 0..MaxRuntime : Confirmed(r) /\ intake["sync"].sent \in candidates
    <2>1. intake["sync"].runtime \in 0..MaxRuntime /\ crm.version \in 0..MaxRuntime
      BY <1>1 DEF IntakeTypeOK, IntakeStates
    <2> QED
      BY <2>1 DEF AnswerArrives, lookupConfirmedCandidate, SameCandidate, CreatedIsIn
  <1>3. PICK r \in 0..MaxRuntime : GoesOn([intake["sync"] EXCEPT !.runtime = r])
    BY <1>1, <1>2, ConfirmedRecords
  <1>4. UNCHANGED delivered \/ (Recorded(delivered') /\ StillCurrent /\ intake["sync"].sent \in candidates)
    BY <1>2, ConfirmedRecords DEF Confirmed
  <1>5. intake["sync"].step \in {"created", "denied", "conflict"}
    BY DEF AnswerArrives, lookupConfirmedCandidate
  <1> DEFINE run == [intake["sync"] EXCEPT !.runtime = r]
             now == [run EXCEPT !.step = "ingest", !.sent = NoPost]
  <1>6. run \in IntakeStates
    BY <1>1 DEF IntakeStates
  <1>7. intake' = [intake EXCEPT !["sync"] = now]
    BY <1>3 DEF GoesOn
  <1> HIDE DEF run
  <1>8. now \in IntakeStates /\ now.step = "ingest"
    BY <1>6 DEF IntakeStates
  <1> HIDE DEF now
  <1>9. intake' \in [Intakes -> IntakeStates] /\ intake'["sync"].step = "ingest"
    BY <1>7, <1>8, IntakeBecomes DEF Intakes
  <1>10. delivered' \in [CrmMails -> [rev : 0..MaxRevisions, text : Bodies]]
    <2>1. \A c \in candidates : [rev |-> c.rev, text |-> c.text] \in [rev : 0..MaxRevisions, text : Bodies]
      BY IntakeAssumption DEF IntakeTypeOK, Candidates, Revisions
    <2> QED
      BY <1>4, <2>1 DEF Recorded, IntakeTypeOK
  <1>11. OneAwaited' /\ CreatedIsIn'
    BY <1>1, <1>5, <1>9, NothingAwaited DEF crmVars
  <1> QED
    BY <1>1, <1>4, <1>9, <1>10, <1>11 DEF IntakeTypeOK, crmVars

(* and by the end of the intake.                                           *)
LEMMA EndStep == ASSUME IntakeInv, SyncIntakeEnds PROVE IntakeInv'
  <1>1. intake' \in [Intakes -> IntakeStates] /\ intake'["sync"].step = "idle"
    BY RestIsAnIntake, IntakeBecomes DEF IntakeInv, SyncIntakeEnds, Intakes
  <1>2. OneAwaited' /\ CreatedIsIn'
    BY <1>1, NothingAwaited DEF SyncIntakeEnds, crmVars
  <1> QED
    BY <1>1, <1>2 DEF IntakeInv, SyncIntakeEnds, IntakeTypeOK, crmVars

(* The one candidate that is awaited is the one the sync has sent, and     *)
(* what is answered as created is in CWOS.                                 *)
THEOREM IntakeInvariant == IntakeSpec => []IntakeInv
  <1>1. ASSUME IntakeInv, [IntakeNext]_workIntakeVars PROVE IntakeInv'
    <2>1. CASE UNCHANGED workIntakeVars
      BY <1>1, <2>1 DEF workIntakeVars, crmVars, IntakeInv, IntakeTypeOK, OneAwaited, CreatedIsIn
    <2>2. CASE \E m \in CrmMails : RequestIntake(m)
      BY <1>1, <2>2, ReadingSteps DEF RequestIntake, Intakes, IntakeInv, IntakeTypeOK
    <2>3. CASE ingestAfterCommittedSync
      BY <1>1, <2>3, ReadingSteps, RestIsAnIntake DEF ingestAfterCommittedSync, Intakes, NotRunning, IntakeStates
    <2> QED
      BY <1>1, <2>1, <2>2, <2>3, AroundSteps, PostSteps, ReadingSteps, RequestStep, IngestSteps, AnswerSteps, EndStep
         DEF IntakeNext, Intakes
  <1> QED
    BY IntakeInitInv, <1>1, PTL DEF IntakeSpec

(* Types of the mails' rows, of the intakes and of what CWOS has.           *)
THEOREM IntakeTypeCorrect == IntakeSpec => []IntakeTypeOK
  BY IntakeInvariant, PTL DEF IntakeInv

(* A link or a delivery is written of the mail as it then stands, and no    *)
(* delivery without the candidate that CWOS has.                            *)
THEOREM WrittenAsItStands == IntakeSpec => WrittenOfTheMail
  <1> DEFINE Holds ==
        \A m \in CrmMails :
          /\ \A l \in cwosLinks'[m] \ cwosLinks[m] : l.rev = mailRow[m].rev /\ l.master \in mailRow[m].text
          /\ delivered'[m] # delivered[m] =>
                /\ delivered'[m].rev = mailRow[m].rev
                /\ [mail |-> m, rev |-> delivered'[m].rev, text |-> delivered'[m].text] \in candidates
  <1>1. ASSUME IntakeInv, IntakeNext PROVE Holds
    <2> SUFFICES ASSUME NEW m \in CrmMails
                 PROVE  /\ \A l \in cwosLinks'[m] \ cwosLinks[m] : l.rev = mailRow[m].rev /\ l.master \in mailRow[m].text
                        /\ delivered'[m] # delivered[m] =>
                              /\ delivered'[m].rev = mailRow[m].rev
                              /\ [mail |-> m, rev |-> delivered'[m].rev, text |-> delivered'[m].text] \in candidates
      OBVIOUS
    <2> USE <1>1 DEF IntakeInv
    <2>1. CASE \E n \in CrmMails : MastersForRequest(n)
      <3> PICK n \in CrmMails : MastersForRequest(n)
        BY <2>1
      <3> DEFINE crmRow == intake["request"].row
                 relinked == Linked(n, crmRow, MastersRead)
      <3>1. crmRow \in Rows
        BY DEF IntakeTypeOK, IntakeStates, Intakes
      <3>2. \A l \in relinked \ cwosLinks[n] : l.rev = crmRow.rev /\ l.master \in crmRow.text
        BY <3>1, LinkedAreLinks, ReadAreMasters
      <3>3. UNCHANGED cwosLinks \/ (cwosLinks' = [cwosLinks EXCEPT ![n] = relinked] /\ mailRow[n] = crmRow)
        BY DEF MastersForRequest, SourceCurrent
      <3>4. UNCHANGED delivered
        BY DEF MastersForRequest
      <3> HIDE DEF relinked, crmRow
      <3> QED
        BY <3>2, <3>3, <3>4 DEF IntakeTypeOK
    <2>2. CASE \E n \in CrmMails : IngestMail(n)
      <3> PICK n \in CrmMails : IngestMail(n)
        BY <2>2
      <3> DEFINE relinked == Linked(n, mailRow[n], intake["sync"].masters)
      <3>1. mailRow[n] \in Rows /\ intake["sync"].masters \in SUBSET CrmMasters
        BY DEF IntakeTypeOK, IntakeStates, Intakes
      <3>2. \A l \in relinked \ cwosLinks[n] : l.rev = mailRow[n].rev /\ l.master \in mailRow[n].text
        BY <3>1, LinkedAreLinks
      <3>3. cwosLinks' = [cwosLinks EXCEPT ![n] = relinked] /\ UNCHANGED delivered
        BY DEF IngestMail
      <3> HIDE DEF relinked
      <3> QED
        BY <3>2, <3>3 DEF IntakeTypeOK
    <2>3. CASE AnswerArrives \/ lookupConfirmedCandidate
      <3>1. UNCHANGED cwosLinks
        BY <2>3 DEF AnswerArrives, lookupConfirmedCandidate
      <3>2. UNCHANGED delivered \/
            \E c \in candidates : c \in Candidates /\ mailRow[c.mail].rev = c.rev
                                  /\ delivered' = [delivered EXCEPT ![c.mail] = [rev |-> c.rev, text |-> c.text]]
        <4>1. CASE ~UNCHANGED delivered
          <5>1. StillCurrent /\ intake["sync"].sent \in candidates
            BY <2>3, <4>1, AnswerSteps
          <5>2. delivered' = [delivered EXCEPT ![intake["sync"].sent.mail] =
                                 [rev |-> intake["sync"].sent.rev, text |-> intake["sync"].sent.text]]
            BY <2>3, <4>1 DEF AnswerArrives, lookupConfirmedCandidate, Confirmed
          <5> QED
            BY <5>1, <5>2 DEF StillCurrent, IntakeTypeOK
        <4> QED
          BY <4>1
      <3>3. CASE ~UNCHANGED delivered
        <4> PICK c \in candidates : c \in Candidates /\ mailRow[c.mail].rev = c.rev
                                  /\ delivered' = [delivered EXCEPT ![c.mail] = [rev |-> c.rev, text |-> c.text]]
          BY <3>2, <3>3
        <4>1. c = [mail |-> c.mail, rev |-> c.rev, text |-> c.text]
          BY DEF Candidates
        <4>2. delivered'[m] # delivered[m] => m = c.mail /\ delivered'[m] = [rev |-> c.rev, text |-> c.text]
          BY DEF IntakeTypeOK
        <4> QED
          BY <3>1, <4>1, <4>2
      <3> QED
        BY <3>1, <3>3
    <2>4. CASE UNCHANGED <<cwosLinks, delivered>>
      BY <2>4
    <2> QED
      BY <2>1, <2>2, <2>3, <2>4
         DEF IntakeNext, StoredAgain, RequestIntake, Begins, IngestRefused, BindingMoves, ServerRestarts, CrmMoves, CrmTakes,
             PostIsLost, PostTimesOut, ingestAfterCommittedSync, MastersForSync, StateAnswers, MastersFail, SyncIntakeEnds
  <1>2. IntakeInv /\ [IntakeNext]_workIntakeVars => [Holds]_workIntakeVars
    BY <1>1
  <1> QED
    BY <1>2, IntakeInvariant, PTL DEF IntakeSpec, WrittenOfTheMail

-----------------------------------------------------------------------------
(* The three parts beside each other, as the run has them: whichever part   *)
(* runs, each takes only steps of its own, so that all that is proved of    *)
(* the parts holds of the run.                                              *)
THEOREM MailboxRunsItsParts == MailboxSpec => Spec /\ PrecisionSpec /\ IntakeSpec
<1>1. MailboxInit => Init /\ PrecisionInit /\ IntakeInit
  BY DEF MailboxInit
<1>2. [MailboxNext]_mailboxVars =>
        [Next]_vars /\ [PrecisionNext]_precisionVars /\ [IntakeNext]_workIntakeVars
  BY DEF MailboxNext, SyncTurn, VerdictTurn, IntakeTurn, mailboxVars
<1> QED
  BY <1>1, <1>2, PTL DEF MailboxSpec, Spec, PrecisionSpec, IntakeSpec

(* Types of the state of the part that runs.                                *)
THEOREM MailboxTypeCorrect == MailboxSpec => []MailboxTypeOK
<1> DEFINE Chosen == chosen \in {"sync", "verdicts", "intake"}
<1>1. MailboxInit => Chosen
  BY DEF MailboxInit
<1>2. Chosen /\ [MailboxNext]_mailboxVars => Chosen'
  BY DEF MailboxNext, SyncTurn, VerdictTurn, IntakeTurn, mailboxVars
<1>3. MailboxSpec => []Chosen
  BY <1>1, <1>2, PTL DEF MailboxSpec
<1>4. Chosen /\ TypeOK /\ PrecisionTypeOK /\ IntakeTypeOK => MailboxTypeOK
  BY DEF MailboxTypeOK
<1> QED
  BY <1>3, <1>4, MailboxRunsItsParts, TypeCorrect, PrecisionTypeCorrect, IntakeTypeCorrect, PTL
=============================================================================
