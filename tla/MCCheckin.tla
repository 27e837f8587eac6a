------------------------------ MODULE MCCheckin ------------------------------
(***************************************************************************)
(* Two devices, a valid code and others the server refuses.                *)
(***************************************************************************)
EXTENDS CheckinSync, TLC

CONSTANTS d1, d2, s1, s2, good, stale, foreign, t1, t2

(* Good and stale name ticket t1, stale with an older token; foreign names *)
(* t2, which is not in the server's database. *)
MCTicketOf == [c \in Code |-> IF c = foreign THEN t2 ELSE t1]
AnyGate == Device \X Ticket
(* Device d1 scans twice, d2 once. *)
TwoAndOne == [d \in Device |-> IF d = d1 THEN 2 ELSE 1]

(* One thing goes wrong: a reply is given up or something stops or fails. *)
OneFault == drops' + crashes' <= 1
OneFaultSpec == Init /\ [][Next /\ OneFault]_vars

SlotSymmetry == Permutations(Slot)
=============================================================================
