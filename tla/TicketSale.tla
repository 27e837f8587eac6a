------------------------------ MODULE TicketSale ------------------------------
(***************************************************************************)
(* What selling tickets promises, with every order settled in one step: an *)
(* order claims all its tickets while enough are left, and its claim ends  *)
(* once, either sold or given back.                                        *)
(***************************************************************************)
EXTENDS Integers

CONSTANTS Order, TicketType, Items, Total

VARIABLES
    claim,      \* claim[o]: "none", "held", "sold" or "returned"
    left        \* left[t]: tickets of type t nobody claims

saleVars == <<claim, left>>

SaleInit ==
    /\ claim = [o \in Order |-> "none"]
    /\ left = Total

Claim(o) ==
    /\ claim[o] = "none"
    /\ \A t \in TicketType : Items[o][t] <= left[t]
    /\ claim' = [claim EXCEPT ![o] = "held"]
    /\ left' = [t \in TicketType |-> left[t] - Items[o][t]]

Buy(o) ==
    /\ claim[o] = "held"
    /\ claim' = [claim EXCEPT ![o] = "sold"]
    /\ UNCHANGED left

GiveBack(o) ==
    /\ claim[o] = "held"
    /\ claim' = [claim EXCEPT ![o] = "returned"]
    /\ left' = [t \in TicketType |-> left[t] + Items[o][t]]

SaleNext == \E o \in Order : Claim(o) \/ Buy(o) \/ GiveBack(o)

SaleSpec == SaleInit /\ [][SaleNext]_saleVars
=============================================================================
