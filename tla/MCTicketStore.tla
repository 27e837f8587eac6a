---------------------------- MODULE MCTicketStore ----------------------------
(***************************************************************************)
(* Three order ids, two users and two ticket types; items of one or two    *)
(* tickets, so that both scripts reach every checkpoint.                   *)
(***************************************************************************)
EXTENDS TicketStore, TLC

CONSTANTS o1, o2, o3, u1, u2

MCOrder == {o1, o2, o3}
MCUser == {u1, u2}
MCTicketType == {1, 2}
MCCountValue == {-1, 0, 2}
MCMaxPerUser == [t \in MCTicketType |-> 2]

Symmetry == Permutations(MCOrder) \cup Permutations(MCUser)
=============================================================================
