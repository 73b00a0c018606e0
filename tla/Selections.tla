------------------------------ MODULE Selections ------------------------------
(***************************************************************************)
(* Choosing from a sequence by position: the first rule that applies, and  *)
(* the entries at some of the places, in their order.  Said by positions,  *)
(* they can be proved about.                                               *)
(***************************************************************************)
EXTENDS Naturals, Sequences, FiniteSets

(* The result of the first rule that applies; the last one always does.     *)
Rule(when, then) == [when |-> when, then |-> then]
FirstOf(rules) ==
    LET applies == {i \in DOMAIN rules : rules[i].when}
    IN rules[CHOOSE i \in applies : \A j \in applies : i <= j].then

(* The entries of s at these places, in their order.                        *)
AtPlaces(s, places) ==
    LET Before(i) == Cardinality({j \in places : j < i})
    IN [n \in 1..Cardinality(places) |-> s[CHOOSE i \in places : Before(i) = n - 1]]
===============================================================================
