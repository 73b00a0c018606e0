----------------------------- MODULE MCMailSend -----------------------------
(***************************************************************************)
(* Instances of MailSend for TLC.                                          *)
(***************************************************************************)
EXTENDS MailSend, TLC

CONSTANTS d1, d2, d3, s1, r1, g1, g2

(* the bot wrote one payload twice; a third draft is somebody else's *)
SharedDigest == (d1 :> g1 @@ d2 :> g1 @@ d3 :> g2)
ListsBoth == (r1 :> {d1, d2})

D1Digest == (d1 :> g1)
ListsD1 == (r1 :> {d1})

TwoDigests == (d1 :> g1 @@ d2 :> g2)
NoCovers == [r \in {} |-> {}]
=============================================================================
