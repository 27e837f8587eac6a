-------------------------- MODULE MCOrderLifecycle --------------------------
(***************************************************************************)
(* Instances of OrderLifecycle.  Types are numbered in request order.      *)
(***************************************************************************)
EXTENDS OrderLifecycle, TLC

CONSTANTS o1, o2, u1, u2, s1, s2

(* Two customers, one ticket each of a type with a single ticket. *)
Rivals == [o \in {o1, o2} |-> IF o = o1 THEN u1 ELSE u2]
(* One customer sending both orders. *)
Regular == [o \in {o1, o2} |-> u1]

OneType == {1}
Single == [o \in {o1, o2} |-> [t \in OneType |-> 1]]
One == [t \in OneType |-> 1]
Two == [t \in OneType |-> 2]

(* Request o1 asks for both types, o2 for the first only. *)
TwoTypes == {1, 2}
Mixed == [o \in {o1, o2} |-> [t \in TwoTypes |-> IF o = o2 /\ t = 2 THEN 0 ELSE 1]]
One2 == [t \in TwoTypes |-> 1]
Two2 == [t \in TwoTypes |-> 2]

SlotSymmetry == Permutations(Slot)
=============================================================================
