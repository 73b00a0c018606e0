------------------------------ MODULE MCComposer ------------------------------
(***************************************************************************)
(* Instances for TLC of what an operator does in the browser: approving    *)
(* drafts with receipts, composing one, and signing in for the work        *)
(* intake.  They share no state, so a behaviour runs the one it has chosen *)
(* and leaves the others where they began.                                 *)
(***************************************************************************)
EXTENDS MCMailSend, SendReview, IntakeGrant

CONSTANTS t1, t2

VARIABLE chosen

(* one account per token *)
OneEach == (t1 :> "a") @@ (t2 :> "b")
(* the files of the composer and the requests of the intake are alike *)
FilesAlike == Permutations(LocalFiles)

(* bound: one request for a draft and two for the list on their way at once *)
FewRequests == Cardinality(details) <= 1 /\ Cardinality(lists) <= 2

operatorVars == <<vars, composerVars, grantVars, chosen>>

OperatorInit ==
  /\ chosen \in {"send", "composer", "grant"}
  /\ Init /\ ComposerInit /\ GrantInit
  /\ chosen # "grant" => token = NoToken

SendTurn == chosen = "send" /\ Next /\ UNCHANGED <<composerVars, grantVars, chosen>>
ComposerTurn == chosen = "composer" /\ ComposerNext /\ UNCHANGED <<vars, grantVars, chosen>>
GrantTurn == chosen = "grant" /\ GrantNext /\ UNCHANGED <<vars, composerVars, chosen>>

OperatorNext == SendTurn \/ ComposerTurn \/ GrantTurn

OperatorSpec == OperatorInit /\ [][OperatorNext]_operatorVars
===============================================================================
