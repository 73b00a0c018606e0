------------------------------ MODULE MCMailSync ------------------------------
(* One folder of two messages and one-item pages, so that a run can stop    *)
(* between its pages                                                        *)
EXTENDS MailSync, TLC

CONSTANTS inbox, sent, m1, m2

OneFolder == [m \in Message |-> inbox]
Alike == Permutations(Message)
=============================================================================
