----------------------------- MODULE SeatSelection -----------------------------
(***************************************************************************)
(* A customer chooses seats (SeatMapPage and useSeatMap) and takes them to *)
(* the checkout page.  The chosen zone with its quantity and the seats are *)
(* two states of two components and two keys of sessionStorage; effects of *)
(* React keep them together.  An event and the effects it sets off are one *)
(* step: React runs them before the next event.                            *)
(*                                                                         *)
(* A seat is the number the customer pressed and the zone it was pressed   *)
(* in; the code stores the number alone.  left is what the customer may    *)
(* still buy, everything until the orders are loaded.  orphaned, shrunk    *)
(* and undone are history: seats restored without their zone, orders       *)
(* loaded that leave less than the seats chosen, a zone given up that is   *)
(* still stored.                                                           *)
(***************************************************************************)
EXTENDS Naturals, FiniteSets, FiniteSetsExt

CONSTANTS
    Area,               \* zones of the venue
    Places,             \* seats of a zone
    MaxPerUser,
    NoArea

ASSUME SelectionAssumption ==
    NoArea \notin Area /\ Places \in Nat \ {0} /\ MaxPerUser \in Nat \ {0}

VARIABLES
    at,                 \* the page: "away", "loading", "seats" or "checkout"
    free,               \* free[z]: availableCount of the loaded map
    left,               \* left[z]: getRemainingAllowance
    chosen,             \* zone and quantity
    lastZone,           \* lastZoneKey
    seats,              \* selectedSeats
    kept,               \* sessionStorage: selection and seats
    orphaned, shrunk, undone

selectionVars == <<at, free, left, chosen, lastZone, seats, kept,
                   orphaned, shrunk, undone>>

Place == 1..Places
Seat == [place : Place, zone : Area]
NoChoice == [zone |-> NoArea, qty |-> 0]
Choice == [zone : Area, qty : 0..MaxPerUser] \cup {NoChoice}
Everything == [z \in Area |-> MaxPerUser]
Histories == <<orphaned, shrunk, undone>>

SelectionTypeOK ==
    /\ at \in {"away", "loading", "seats", "checkout"}
    /\ free \in [Area -> 0..Places] /\ left \in [Area -> 0..MaxPerUser]
    /\ chosen \in Choice /\ lastZone \in Area \cup {NoArea}
    /\ seats \subseteq Seat
    /\ kept \in [choice : Choice, seats : SUBSET Seat]
    /\ orphaned \in BOOLEAN /\ shrunk \in BOOLEAN /\ undone \in BOOLEAN

SelectionInit ==
    /\ at = "away"
    /\ free = [z \in Area |-> Places] /\ left = Everything
    /\ chosen = NoChoice /\ lastZone = NoArea /\ seats = {}
    /\ kept = [choice |-> NoChoice, seats |-> {}]
    /\ orphaned = FALSE /\ shrunk = FALSE /\ undone = FALSE

-----------------------------------------------------------------------------
(* maxQuantityForSelection *)
Most(z) == Min({free[z], MaxPerUser, left[z]})

(* The page is opened: the seats are restored at once. *)
OpenSeatPage ==
    /\ at \in {"away", "checkout"}
    /\ at' = "loading" /\ left' = Everything
    /\ chosen' = NoChoice /\ lastZone' = NoArea /\ seats' = kept.seats
    /\ UNCHANGED <<free, kept, Histories>>

(* The map arrives; the zone is restored if it still has the quantity and  *)
(* is not one of R, those whose status is RESERVED (deriveZoneStatus: no   *)
(* more seats available than reserved).                                    *)
Restorable(c, f, R) ==
    c # NoChoice /\ c.zone \notin R /\ f[c.zone] > 0 /\ f[c.zone] >= c.qty

MapArrives(f, R) ==
    /\ at = "loading" /\ at' = "seats" /\ free' = f
    /\ IF Restorable(kept.choice, f, R)
       THEN /\ chosen' = kept.choice /\ lastZone' = kept.choice.zone
            /\ UNCHANGED orphaned
       ELSE /\ orphaned' = (orphaned \/ seats # {})
            /\ UNCHANGED <<chosen, lastZone>>
    /\ UNCHANGED <<left, seats, kept, shrunk, undone>>

(* fetchUserTicketUsage: the customer's orders are known. *)
OrdersArrive(l) ==
    /\ at \in {"loading", "seats"} /\ left = Everything
    /\ left' = l
    /\ shrunk' = (shrunk \/ \E z \in Area : l[z] < Cardinality(seats))
    /\ UNCHANGED <<at, free, chosen, lastZone, seats, kept, orphaned, undone>>

-----------------------------------------------------------------------------
(* The effect of another zone on the seats: when it replaces one, as when  *)
(* none does, the seats are emptied, on the page and in the storage.       *)
Emptied == lastZone # NoArea

(* Mutant of ResetSeats: the stored seats stay. *)
ResetShownSeats(choice) ==
    IF Emptied
    THEN /\ seats' = {} /\ kept' = [kept EXCEPT !.choice = choice]
         /\ orphaned' = FALSE /\ shrunk' = FALSE
    ELSE kept' = [kept EXCEPT !.choice = choice] /\ UNCHANGED <<seats, orphaned, shrunk>>

ResetSeats(choice) ==
    IF Emptied
    THEN /\ seats' = {} /\ kept' = [choice |-> choice, seats |-> {}]
         /\ orphaned' = FALSE /\ shrunk' = FALSE
    ELSE kept' = [kept EXCEPT !.choice = choice] /\ UNCHANGED <<seats, orphaned, shrunk>>

(* selectZone *)
SelectZone(z) ==
    /\ at = "seats" /\ chosen.zone # z
    /\ free[z] > 0 /\ left[z] > 0
    /\ chosen' = [zone |-> z, qty |-> 0] /\ lastZone' = z
    /\ ResetSeats(chosen') /\ undone' = FALSE
    /\ UNCHANGED <<at, free, left>>

(* The chosen zone is pressed again (if it may still be pressed), or       *)
(* filtered away: nothing stores that there is no selection.               *)
GiveUpZone ==
    /\ at = "seats" /\ chosen # NoChoice
    /\ chosen' = NoChoice /\ lastZone' = NoArea
    /\ ResetSeats(kept.choice)
    /\ undone' = (kept.choice.qty > 0)
    /\ UNCHANGED <<at, free, left>>

(* handleSelectSeat, with setQuantity.  A place is pressed by its number.  *)
Pressed(p) == {s \in seats : s.place = p}

SetQuantity(S) ==
    IF left[chosen.zone] = 0 THEN UNCHANGED <<chosen, undone>> /\ kept' = [kept EXCEPT !.seats = S]
    ELSE /\ chosen' = [chosen EXCEPT !.qty = Min({Cardinality(S), Most(chosen.zone)})]
         /\ kept' = [choice |-> chosen', seats |-> S]
         /\ undone' = FALSE

PressSeat(p) ==
    /\ at = "seats" /\ chosen # NoChoice
    /\ p > Places - free[chosen.zone]
    /\ Pressed(p) # {} \/ Cardinality(seats) < Most(chosen.zone)
    /\ seats' = IF Pressed(p) # {} THEN seats \ Pressed(p)
                ELSE seats \cup {[place |-> p, zone |-> chosen.zone]}
    /\ SetQuantity(seats')
    /\ UNCHANGED <<at, free, left, lastZone, orphaned, shrunk>>

-----------------------------------------------------------------------------
(* handleProceed, by its button; or the browser's own way to the page.     *)
HandleProceed ==
    /\ at = "seats" /\ chosen.qty > 0 /\ seats # {}
    /\ at' = "checkout" /\ kept' = [kept EXCEPT !.choice = chosen]
    /\ UNCHANGED <<free, left, chosen, lastZone, seats, Histories>>

GoForward ==
    /\ at \in {"away", "loading", "seats"} /\ kept.choice # NoChoice
    /\ at' = "checkout"
    /\ UNCHANGED <<free, left, chosen, lastZone, seats, kept, Histories>>

(* The order is there: both keys are removed. *)
OrderTaken ==
    /\ at = "checkout" /\ kept.choice.qty > 0
    /\ at' = "away" /\ kept' = [choice |-> NoChoice, seats |-> {}]
    /\ chosen' = NoChoice /\ lastZone' = NoArea /\ seats' = {}
    /\ orphaned' = FALSE /\ shrunk' = FALSE /\ undone' = FALSE
    /\ UNCHANGED <<free, left>>

LeaveShop == at # "away" /\ at' = "away"
             /\ UNCHANGED <<free, left, chosen, lastZone, seats, kept, Histories>>

SelectionNext ==
    \/ OpenSeatPage \/ GiveUpZone \/ HandleProceed \/ GoForward \/ OrderTaken \/ LeaveShop
    \/ \E f \in [Area -> 0..Places] : \E R \in SUBSET {z \in Area : f[z] > 0} : MapArrives(f, R)
    \/ \E l \in [Area -> 0..MaxPerUser] : OrdersArrive(l)
    \/ \E z \in Area : SelectZone(z)
    \/ \E p \in Place : PressSeat(p)

SelectionSpec == SelectionInit /\ [][SelectionNext]_selectionVars

-----------------------------------------------------------------------------
(* The checkout page lists the seats and orders the quantity; one is the   *)
(* number of the others, and they were pressed in the zone that is         *)
(* ordered, unless seats came back without their zone, the customer's      *)
(* orders left less than was chosen, or a zone given up was still stored   *)
(* (sessionStorage is written from three effects and a click).             *)
SeatsMatchOrder ==
    at = "checkout" =>
        \/ orphaned \/ shrunk \/ undone
        \/ /\ kept.choice.qty = Cardinality(kept.seats)
           /\ \A s \in kept.seats : s.zone = kept.choice.zone
=============================================================================
