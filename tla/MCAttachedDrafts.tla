-------------------------- MODULE MCAttachedDrafts --------------------------
(***************************************************************************)
(* Instances of AttachedDrafts for TLC.                                    *)
(***************************************************************************)
EXTENDS AttachedDrafts, TLC

CONSTANTS d1, d2, q1, q2, q3, c1, c2, s1, g1

(* a small file and one of the greatest length *)
Sizes == (c1 :> 1 @@ c2 :> 2)
(* both drafts name the first file, the second draft only if the other      *)
(* file still fits                                                          *)
Attached == (d1 :> {q1} @@ d2 :> {q1, q2})
Uploads == Permutations(Upload)
NoneAttached == [d \in {} |-> {}]
Digests == (d1 :> g1 @@ d2 :> g1)
NoDigests == [d \in {} |-> g1]
NoCovers == [r \in {} |-> {}]
=============================================================================
