------------------------------- MODULE MCMailbox -------------------------------
(***************************************************************************)
(* Instances for TLC of what happens to a stored mail: the sync that       *)
(* stores it, the verdict on it, and its way into CWOS.  They share no     *)
(* state, so a behaviour runs the one it has chosen and leaves the others  *)
(* where they began.                                                       *)
(***************************************************************************)
EXTENDS MCMailSync, PrecisionStore, WorkIntake

CONSTANT x1

VARIABLE chosen

(* both mails of one sender and template *)
OnePolicy == [m \in PMails |-> 1]
(* an engagement of an account, the account missing from one projection *)
OneCustomer == "engagement" :> "account"
TwoEditions == {{"account", "engagement"}, {"engagement"}}

mailboxVars == <<vars, precisionVars, workIntakeVars, chosen>>

MailboxInit ==
  /\ chosen \in {"sync", "verdicts", "intake"}
  /\ Init /\ PrecisionInit /\ IntakeInit
  /\ chosen # "sync" => remote = [m \in Message |-> 0]

SyncTurn ==
  /\ chosen = "sync" /\ Next
  /\ UNCHANGED <<precisionVars, workIntakeVars, chosen>>
VerdictTurn ==
  /\ chosen = "verdicts" /\ PrecisionNext
  /\ UNCHANGED <<vars, workIntakeVars, chosen>>
IntakeTurn ==
  /\ chosen = "intake" /\ IntakeNext
  /\ UNCHANGED <<vars, precisionVars, chosen>>

MailboxNext == SyncTurn \/ VerdictTurn \/ IntakeTurn

MailboxSpec == MailboxInit /\ [][MailboxNext]_mailboxVars

(* Types of the state of the part that runs. *)
MailboxTypeOK ==
  CASE chosen = "sync" -> TypeOK
    [] chosen = "verdicts" -> PrecisionTypeOK
    [] chosen = "intake" -> IntakeTypeOK
===============================================================================
