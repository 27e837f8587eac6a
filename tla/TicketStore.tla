----------------------------- MODULE TicketStore -----------------------------
(***************************************************************************)
(* The Redis side of the ticket inventory: the keys stock:{type},          *)
(* user_limit:{user}:{type} and reservation:{order}, and the commands the  *)
(* backend sends to them.  Redis runs one command or Lua script at a time, *)
(* so each of them is one action.                                          *)
(*                                                                         *)
(* A missing counter key reads as 0 in the scripts; which keys exist       *)
(* matters only to SET NX, so it is kept in stockKeys and limitKeys.       *)
(* A reservation key is a record of `reservation' carrying the fields the  *)
(* release script compares.  supply, base and gone are history variables:  *)
(* what was ever seeded, and the quantity whose reservation key went away  *)
(* without the release script (TTL or DEL).                                *)
(***************************************************************************)
EXTENDS Integers, FiniteSetsExt

CONSTANTS
    Order,          \* order ids; a reservation key is named after one
    User,
    TicketType,
    MaxPerUser,     \* MaxPerUser[t]: limit the reserve script is called with
    SeedValue,      \* the values a stock key may be seeded with
    CountValue,     \* the values a user_limit key may be seeded with
    Quantity        \* the quantities an order item may ask for

ASSUME StoreAssumption ==
    /\ MaxPerUser \in [TicketType -> Nat]
    /\ SeedValue \subseteq Nat
    /\ CountValue \subseteq Int    \* paidQty + reservedQty may be negative
    /\ Quantity \subseteq Nat \ {0}
    /\ IsFiniteSet(User)

VARIABLES
    stock,          \* stock[t]: value of stock:{t}
    stockKeys,      \* the types whose stock key exists
    userLimit,      \* userLimit[u][t]: value of user_limit:{u}:{t}
    limitKeys,      \* the pairs <<u, t>> whose user_limit key exists
    reservation,    \* the live reservation keys
    supply,         \* history: quantity seeded into stock[t]
    base,           \* history: value user_limit was seeded with
    gone            \* history: gone[u][t], reserved and never returned

storeVars == <<stock, stockKeys, userLimit, limitKeys, reservation,
               supply, base, gone>>

Hold == [order : Order, user : User, type : TicketType, qty : Quantity]

(* EXISTS reservation:{o} *)
HasHold(o) == \E r \in reservation : r.order = o

StoreTypeOK ==
    /\ stock \in [TicketType -> Nat]
    /\ stockKeys \subseteq TicketType
    /\ userLimit \in [User -> [TicketType -> Int]]
    /\ limitKeys \subseteq User \X TicketType
    /\ reservation \subseteq Hold
    /\ supply \in [TicketType -> Nat]
    /\ base \in [User -> [TicketType -> Int]]
    /\ gone \in [User -> [TicketType -> Nat]]

(***************************************************************************)
(* Ticket-type creation has either seeded stock:{t} already (n tickets) or *)
(* left it to the first order; no user_limit key exists yet.               *)
(***************************************************************************)
StoreInit ==
    /\ stockKeys \in SUBSET TicketType
    /\ stock \in [TicketType -> SeedValue]
    /\ \A t \in TicketType \ stockKeys : stock[t] = 0
    /\ supply = stock
    /\ userLimit = [u \in User |-> [t \in TicketType |-> 0]]
    /\ limitKeys = {}
    /\ reservation = {}
    /\ base = userLimit
    /\ gone = userLimit

-----------------------------------------------------------------------------
(* Mutant of Seed: SET instead of SET NX. *)
SeedOverwrites(u, S, n, m) ==
    /\ stock'  = [t \in TicketType |-> IF t \in S THEN n[t] ELSE stock[t]]
    /\ supply' = [t \in TicketType |-> IF t \in S THEN n[t] ELSE supply[t]]
    /\ stockKeys' = stockKeys \cup S
    /\ userLimit' = [userLimit EXCEPT ![u] =
                       [t \in TicketType |-> IF t \in S THEN m[t] ELSE @[t]]]
    /\ base' = [base EXCEPT ![u] =
                       [t \in TicketType |-> IF t \in S THEN m[t] ELSE @[t]]]
    /\ limitKeys' = limitKeys \cup {<<u, t>> : t \in S}
    /\ UNCHANGED <<reservation, gone>>

(***************************************************************************)
(* Lazy seeding sends the SET NX commands of one request together: every   *)
(* type of S, with the values n[t] and m[t] read from PostgreSQL.          *)
(***************************************************************************)
Seed(u, S, n, m) ==
    LET newStock == S \ stockKeys
        newLimit == {t \in S : <<u, t>> \notin limitKeys}
    IN /\ stock'  = [t \in TicketType |-> IF t \in newStock THEN n[t] ELSE stock[t]]
       /\ supply' = [t \in TicketType |-> IF t \in newStock THEN n[t] ELSE supply[t]]
       /\ stockKeys' = stockKeys \cup newStock
       /\ userLimit' = [userLimit EXCEPT ![u] =
                          [t \in TicketType |-> IF t \in newLimit THEN m[t] ELSE @[t]]]
       /\ base' = [base EXCEPT ![u] =
                          [t \in TicketType |-> IF t \in newLimit THEN m[t] ELSE @[t]]]
       /\ limitKeys' = limitKeys \cup {<<u, t>> : t \in newLimit}
       /\ UNCHANGED <<reservation, gone>>

(* Mutants of Reservable: one of the checkpoints is missing. *)
ReservableAnyCount(r) == stock[r.type] >= r.qty /\ ~ HasHold(r.order)
ReservableTwice(r) ==
    /\ stock[r.type] >= r.qty
    /\ userLimit[r.user][r.type] + r.qty <= MaxPerUser[r.type]

(* The three checkpoints of reserve-ticket.lua. *)
Reservable(r) ==
    /\ stock[r.type] >= r.qty
    /\ userLimit[r.user][r.type] + r.qty <= MaxPerUser[r.type]
    /\ ~ HasHold(r.order)

(* reserve-ticket.lua, all checkpoints passed. *)
Reserve(r) ==
    /\ Reservable(r)
    /\ stock' = [stock EXCEPT ![r.type] = @ - r.qty]
    /\ userLimit' = [userLimit EXCEPT ![r.user][r.type] = @ + r.qty]
    /\ limitKeys' = limitKeys \cup {<<r.user, r.type>>}
    /\ reservation' = reservation \cup {r}
    /\ UNCHANGED <<stockKeys, supply, base, gone>>

(* reserve-ticket.lua, a checkpoint failed: nothing is written. *)
Refuse(r) == ~ Reservable(r) /\ UNCHANGED storeVars

(* What DECRBY and the reset of a negative result leave in user_limit. *)
Lowered(n, q) == IF n - q < 0 THEN 0 ELSE n - q

(* Mutant of Release: the key is not deleted. *)
ReleaseAgain(r) ==
    /\ r \in reservation
    /\ stock' = [stock EXCEPT ![r.type] = @ + r.qty]
    /\ userLimit' = [userLimit EXCEPT ![r.user][r.type] = Lowered(@, r.qty)]
    /\ UNCHANGED <<stockKeys, limitKeys, reservation, supply, base, gone>>

(***************************************************************************)
(* release-reservation.lua: the key must exist and carry the order, user,  *)
(* type and quantity of the caller; INCRBY creates a missing stock key.    *)
(***************************************************************************)
Release(r) ==
    /\ r \in reservation
    /\ stock' = [stock EXCEPT ![r.type] = @ + r.qty]
    /\ stockKeys' = stockKeys \cup {r.type}
    /\ userLimit' = [userLimit EXCEPT ![r.user][r.type] = Lowered(@, r.qty)]
    /\ limitKeys' = limitKeys \cup {<<r.user, r.type>>}
    /\ reservation' = reservation \ {r}
    /\ UNCHANGED <<supply, base, gone>>

(* release-reservation.lua, key missing or not matching. *)
ReleaseNothing(r) == r \notin reservation /\ UNCHANGED storeVars

(***************************************************************************)
(* The reservation key of order o goes away without the release script:    *)
(* its TTL ends, or the payment handler deletes it.                        *)
(***************************************************************************)
Forget(o) ==
    \/ ~ HasHold(o) /\ UNCHANGED storeVars
    \/ \E r \in reservation :
         /\ r.order = o
         /\ reservation' = reservation \ {r}
         /\ gone' = [gone EXCEPT ![r.user][r.type] = @ + r.qty]
         /\ UNCHANGED <<stock, stockKeys, userLimit, limitKeys, supply, base>>

StoreNext ==
    \/ \E u \in User, S \in SUBSET TicketType, n \in [TicketType -> SeedValue],
          m \in [TicketType -> CountValue] : Seed(u, S, n, m)
    \/ \E r \in Hold : Reserve(r)
    \/ \E r \in reservation : Release(r)
    \/ \E o \in Order : Forget(o)

StoreSpec == StoreInit /\ [][StoreNext]_storeVars

-----------------------------------------------------------------------------
(* Quantity held by live reservation keys: of type t, and by user u of type t. *)
SumOfHolds(H) == SumFunctionOnSet([r \in H |-> r.qty], H)
HoldsOf(t)    == {r \in reservation : r.type = t}
HoldsBy(u, t) == {r \in reservation : r.user = u /\ r.type = t}
HeldOf(t)     == SumOfHolds(HoldsOf(t))
HeldBy(u, t)  == SumOfHolds(HoldsBy(u, t))
GoneOf(t)     == SumFunctionOnSet([u \in User |-> gone[u][t]], User)

(***************************************************************************)
(* Checkpoint 5 of the reserve script: an order id never has two           *)
(* reservation keys, whichever ticket types it asked for.                  *)
(***************************************************************************)
OneHoldPerOrder == \A r, s \in reservation : r.order = s.order => r = s

(***************************************************************************)
(* No ticket of stock:{t} is lost or made by the two scripts: what was     *)
(* seeded is in stock, under a live reservation key, or went away with a   *)
(* key the release script never saw.  user_limit is its seed, plus the     *)
(* user's live keys, plus the keys that ended without release; so the      *)
(* release script's reset of a negative counter has nothing to do, unless  *)
(* PostgreSQL's counters were negative when the key was seeded.            *)
(***************************************************************************)
CountersConserved ==
    \A t \in TicketType :
      /\ stock[t] + HeldOf(t) + GoneOf(t) = supply[t]
      /\ \A u \in User : base[u][t] >= 0 =>
           userLimit[u][t] = base[u][t] + HeldBy(u, t) + gone[u][t]

(***************************************************************************)
(* Checkpoint 4 of the reserve script: the scripts never take a user over  *)
(* maxPerUser, unless the counter was seeded above it.                     *)
(***************************************************************************)
LimitRespected ==
    \A u \in User, t \in TicketType :
        base[u][t] <= MaxPerUser[t] => userLimit[u][t] <= MaxPerUser[t]

=============================================================================
