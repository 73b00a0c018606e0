------------------------------ MODULE SendOnce ------------------------------
(***************************************************************************)
(* What the outgoing mail machinery promises for each draft, whatever it   *)
(* does inside: it may be withdrawn only before it is committed, a         *)
(* committed draft is handed over at most once and never withdrawn, and    *)
(* the outcome that is reported is what happened to the mail.              *)
(***************************************************************************)
CONSTANT Draft

VARIABLES phase,  \* what the operator sees
          mail    \* what happened to the mail itself

Init ==
    /\ phase = [d \in Draft |-> "open"]
    /\ mail = [d \in Draft |-> "none"]

Set(d, p, m) ==
    /\ phase' = [phase EXCEPT ![d] = p]
    /\ mail' = [mail EXCEPT ![d] = m]

Withdraw(d) == phase[d] = "open" /\ Set(d, "withdrawn", mail[d])
Reopen(d) == phase[d] = "withdrawn" /\ Set(d, "open", mail[d])
Commit(d) == phase[d] = "open" /\ Set(d, "committed", mail[d])

HandOver(d) == phase[d] = "committed" /\ mail[d] = "none" /\ Set(d, "committed", "underway")
Fate(d, m) == mail[d] = "underway" /\ Set(d, phase[d], m)
Report(d, p, m) == phase[d] = "committed" /\ mail[d] = m /\ Set(d, p, m)

Next == \E d \in Draft :
    \/ Withdraw(d) \/ Reopen(d) \/ Commit(d)
    \/ HandOver(d)
    \/ Fate(d, "delivered") \/ Fate(d, "refused")
    \/ Report(d, "delivered", "delivered") \/ Report(d, "failed", "refused")

Spec == Init /\ [][Next]_<<phase, mail>>
=============================================================================
