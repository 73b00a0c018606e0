------------------------------ MODULE MCLiveness ------------------------------
(***************************************************************************)
(* The instance on which TLC checks what must happen at some time: a mail   *)
(* that Graph filed is recorded, and a sync ends.  The worker that sends    *)
(* and the sync of the mailbox share no state, so a behaviour runs the one  *)
(* it has chosen and leaves the other where it began, where none of its     *)
(* fair actions is enabled.                                                 *)
(***************************************************************************)
EXTENDS MCMailSend

CONSTANTS Folder, Message, FolderOf, NoFolder, MaxVer, PageSize, inbox, m1

VARIABLES remote, held, told, row, inflight, taken, deadMail, deadBox, crashed, reset, calm, mirrored

VARIABLE chosen

Syncing == INSTANCE MailSync

OneFolder == [m \in Message |-> inbox]

syncVars == <<remote, held, told, row, inflight, taken, deadMail, deadBox, crashed, reset, calm, mirrored>>
liveVars == <<vars, syncVars, chosen>>

LiveInit ==
  /\ chosen \in {"send", "sync"}
  /\ Init /\ Syncing!Init
  /\ chosen # "sync" => remote = [m \in Message |-> 0]

SendTurn == chosen = "send" /\ Next /\ UNCHANGED <<syncVars, chosen>>
SyncTurn == chosen = "sync" /\ Syncing!Next /\ UNCHANGED <<vars, chosen>>

LiveNext == SendTurn \/ SyncTurn

LiveSpec == LiveInit /\ [][LiveNext]_liveVars /\ Fairness /\ Syncing!Fairness

(* A sync ends, whatever it is interrupted by, and with it the requests that *)
(* were joined to it (syncInFlight of server.mjs).                          *)
SyncsEnd == Syncing!SyncsEnd
===============================================================================
