----------------------------- MODULE SystemReset -----------------------------
(***************************************************************************)
(* The system is reset to its test data while it is in use: POST           *)
(* /health/reset (flush Redis, run seed-test in a process of its own, read *)
(* the ticket types, store their stocks) and the seed script run by hand.  *)
(* The scripts delete table after table and then insert, one statement at  *)
(* a time; other statements come in between.                               *)
(*                                                                         *)
(* Of a row only the generation of the data it hangs on is kept: the old   *)
(* data, or what one run of a script inserted.  A script's inserts into    *)
(* one table are one step.  met, heard and beaten are history: another     *)
(* actor inserted into a table the run had emptied or deleted what it had  *)
(* inserted; read the listing of concerts while the run emptied and filled *)
(* tables, or before, and had not cached it yet when the run flushed; held *)
(* or counted one of its tickets, or gave one back, between its read of    *)
(* the ticket types and its SETs, or held one over that read.              *)
(***************************************************************************)
EXTENDS Integers, Sequences, SequencesExt, FiniteSets

CONSTANTS
    Run,
    ByHand,             \* runs of the seed script by hand
    Old,                \* the generation there was before
    SeatsPerType,       \* available tickets of a generation's types
    MaxStrays           \* bound: statements of others

ASSUME ResetAssumption ==
    ByHand \subseteq Run /\ Old \notin Run /\ SeatsPerType \in Nat /\ MaxStrays \in Nat

VARIABLES
    data,               \* data[t]: generations of the table's rows
    avail,              \* avail[g]: available tickets by the rows
    stock,              \* stock[g]: stock keys, NoStock if there are none
    holds,              \* holds[g]: orders with a ticket held but not counted
                        \* yet; of those lost a flush has deleted the hold
    listing,            \* the cached listing of concerts, if there is one
    reading,            \* listings read from the rows and not cached yet
    reset, strays, met, heard, beaten

resetVars == <<data, avail, stock, holds, listing, reading, reset, strays,
               met, heard, beaten>>

Generation == Run \cup {Old}
NoStock == -1

(* The foreign keys a row needs when it is inserted, and those that forbid *)
(* to delete what it refers to. *)
Parents ==
    [user |-> {}, concert |-> {"user"}, ticketType |-> {"concert"},
     order |-> {"user", "concert"}, orderItem |-> {"order", "ticketType"},
     paymentTransaction |-> {"order"},
     ticket |-> {"order", "orderItem", "concert", "ticketType", "user"},
     idempotencyKey |-> {"user"}, userTicketCounter |-> {"user", "ticketType"},
     checkinLog |-> {"user", "ticket", "concert"},
     guestListEntry |-> {"concert"}, gate |-> {"concert"},
     uploadedFile |-> {"concert"}]

Table == DOMAIN Parents

Restricts(child) ==
    CASE child \in {"gate", "uploadedFile"} -> {}
      [] child = "checkinLog" -> {"user"}
      [] OTHER -> Parents[child]

(* Mutant of Wiped: orders before their items. *)
WipedOrdersFirst ==
    <<"checkinLog", "ticket", "order", "orderItem", "paymentTransaction",
      "idempotencyKey", "userTicketCounter", "guestListEntry", "gate",
      "ticketType", "concert", "user">>

(* The tables in the order in which they are emptied, and filled; uploaded *)
(* files stay, without their concert.                                      *)
Wiped ==
    <<"checkinLog", "ticket", "orderItem", "paymentTransaction", "order",
      "idempotencyKey", "userTicketCounter", "guestListEntry", "gate",
      "ticketType", "concert", "user">>

Cleared == ToSet(Wiped)

Filled(r) ==
    IF r \in ByHand
    THEN <<"user", "concert", "ticketType", "gate", "order", "orderItem",
           "paymentTransaction", "ticket", "checkinLog", "guestListEntry">>
    ELSE <<"user", "concert", "ticketType", "gate", "order", "orderItem",
           "ticket", "checkinLog">>

RunStep == {"idle", "wiping", "filling", "filled", "storing", "done", "failed"}

ResetTypeOK ==
    /\ data \in [Table -> SUBSET Generation]
    /\ avail \in [Generation -> 0..SeatsPerType]
    /\ stock \in [Generation -> Nat \cup {NoStock}]
    /\ holds \in [Generation -> [kept : Nat, lost : Nat]]
    /\ listing \in SUBSET SUBSET Generation /\ Cardinality(listing) <= 1
    /\ reading \in SUBSET SUBSET Generation
    /\ reset \in [Run -> [step : RunStep, at : 1..Len(Wiped) + 1, got : 0..SeatsPerType]]
    /\ strays \in 0..MaxStrays
    /\ met \subseteq Run /\ heard \subseteq Run /\ beaten \subseteq Run

(* A database in use. *)
ResetInit ==
    /\ data = [t \in Table |-> {Old}]
    /\ avail = [g \in Generation |-> SeatsPerType]
    /\ stock \in {[g \in Generation |-> IF g = Old THEN s ELSE NoStock] :
                    s \in {NoStock, SeatsPerType}}
    /\ holds = [g \in Generation |-> [kept |-> 0, lost |-> 0]]
    /\ listing \in {{}, {{Old}}} /\ reading = {}
    /\ reset = [r \in Run |-> [step |-> "idle", at |-> 1, got |-> 0]]
    /\ strays = 0 /\ met = {} /\ heard = {} /\ beaten = {}

-----------------------------------------------------------------------------
Goes(r, step, at) == reset' = [reset EXCEPT ![r].step = step, ![r].at = at]

(* resetDatabase: FLUSHALL. *)
Flush(r) ==
    /\ r \notin ByHand /\ reset[r].step = "idle"
    /\ stock' = [g \in Generation |-> NoStock] /\ listing' = {}
    /\ holds' = [g \in Generation |-> [kept |-> 0, lost |-> holds[g].kept + holds[g].lost]]
    /\ heard' = IF reading = {} THEN heard ELSE heard \cup {r}
    /\ Goes(r, "wiping", 1)
    /\ UNCHANGED <<data, avail, reading, strays, met, beaten>>

StartByHand(r) ==
    /\ r \in ByHand /\ reset[r].step = "idle"
    /\ Goes(r, "wiping", 1)
    /\ UNCHANGED <<data, avail, stock, holds, listing, reading, strays, met, heard, beaten>>

(* Tables a run has emptied, and filled. *)
EmptiedBy(r) ==
    CASE reset[r].step \in {"idle", "done", "failed"} -> {}
      [] reset[r].step = "wiping" -> {Wiped[i] : i \in 1..reset[r].at - 1}
      [] OTHER -> Cleared

Referred(t) == \E c \in Table : t \in Restricts(c) /\ data[c] # {}

(* deleteMany; a concert takes its gates along. *)
Deleted(t) == IF t = "concert" THEN {"concert", "gate"} ELSE {t}

Wipe(r) ==
    /\ reset[r].step = "wiping"
    /\ LET t == Wiped[reset[r].at]
       IN  IF Referred(t)
           THEN Goes(r, "failed", 1) /\ UNCHANGED <<data, met>>
           ELSE /\ data' = [u \in Table |-> IF u \in Deleted(t) THEN {} ELSE data[u]]
                /\ met' = met \cup {q \in Run \ {r} : q \in data[t]}
                /\ IF t = Last(Wiped) THEN Goes(r, "filling", 1)
                   ELSE Goes(r, "wiping", reset[r].at + 1)
    /\ UNCHANGED <<avail, stock, holds, listing, reading, strays, heard, beaten>>

(* Somebody inserts rows into tables T that hang on the data g. *)
Fits(T, g) == \A t \in T : \A p \in Parents[t] : p \in T \/ g \in data[p]
Added(T, g) == [t \in Table |-> IF t \in T THEN data[t] \cup {g} ELSE data[t]]
Meets(T, g) ==
    {q \in Run : EmptiedBy(q) \cap T # {} /\ (q # g \/ ~(T \subseteq ToSet(Filled(q))))}

(* The scripts' users have the same addresses. *)
AddressTaken(t) == t = "user" /\ data["user"] \cap Run # {}

Fill(r) ==
    /\ reset[r].step = "filling"
    /\ LET t == Filled(r)[reset[r].at]
       IN  IF AddressTaken(t) \/ ~Fits({t}, r)
           THEN Goes(r, "failed", 1) /\ UNCHANGED <<data, met>>
           ELSE /\ data' = Added({t}, r)
                /\ met' = met \cup Meets({t}, r)
                /\ IF t = Last(Filled(r))
                   THEN Goes(r, IF r \in ByHand THEN "done" ELSE "filled", 1)
                   ELSE Goes(r, "filling", reset[r].at + 1)
    /\ UNCHANGED <<avail, stock, holds, listing, reading, strays, heard, beaten>>

(* resetDatabase: findMany, then seedStock of each. *)
ReadTypes(r) ==
    /\ reset[r].step = "filled"
    /\ reset' = [reset EXCEPT ![r].step = "storing", ![r].got = avail[r]]
    /\ beaten' = IF holds[r].kept > 0 THEN beaten \cup {r} ELSE beaten
    /\ UNCHANGED <<data, avail, stock, holds, listing, reading, strays, met, heard>>

StoreStocks(r) ==
    /\ reset[r].step = "storing"
    /\ stock' = [stock EXCEPT ![r] = reset[r].got]
    /\ Goes(r, "done", 1)
    /\ UNCHANGED <<data, avail, holds, listing, reading, strays, met, heard, beaten>>

-----------------------------------------------------------------------------
(* The rest of the system: orders (with a lazily seeded stock), rows of    *)
(* other tables, the listing of concerts.                                  *)
Stray == strays < MaxStrays /\ strays' = strays + 1
Beats(g) == {q \in Run : q = g /\ reset[q].step = "storing"}

HoldTicket(g) ==
    /\ Stray /\ g \in data["ticketType"]
    /\ LET left == IF stock[g] = NoStock THEN avail[g] ELSE stock[g]
       IN  left > 0 /\ stock' = [stock EXCEPT ![g] = left - 1]
    /\ holds' = [holds EXCEPT ![g].kept = @ + 1]
    /\ beaten' = beaten \cup Beats(g)
    /\ UNCHANGED <<data, avail, listing, reading, reset, met, heard>>

(* The order and its items, then the count.  An order that is not counted  *)
(* stays, as its items keep it; its hold is released, if there still is    *)
(* one.                                                                    *)
CountHeld(g, h) ==
    /\ holds[g][h] > 0
    /\ Fits({"order", "orderItem"}, g) /\ avail[g] > 0
    /\ holds' = [holds EXCEPT ![g][h] = @ - 1]
    /\ avail' = [avail EXCEPT ![g] = @ - 1]
    /\ data' = Added({"order", "orderItem"}, g)
    /\ met' = met \cup Meets({"order", "orderItem"}, g)
    /\ beaten' = beaten \cup Beats(g)
    /\ UNCHANGED <<stock, listing, reading, reset, strays, heard>>

RefuseHeld(g, h) ==
    /\ holds[g][h] > 0
    /\ IF Fits({"order", "orderItem"}, g)
       THEN /\ avail[g] = 0
            /\ data' = Added({"order", "orderItem"}, g)
            /\ met' = met \cup Meets({"order", "orderItem"}, g)
       ELSE UNCHANGED <<data, met>>
    /\ holds' = [holds EXCEPT ![g][h] = @ - 1]
    /\ stock' = IF h = "kept" THEN [stock EXCEPT ![g] = @ + 1] ELSE stock
    /\ UNCHANGED <<avail, listing, reading, reset, strays, heard, beaten>>

(* An order ends unpaid; its hold may have lapsed. *)
EndOrder(g) ==
    /\ Stray /\ {"order", "ticketType"} \subseteq {t \in Table : g \in data[t]}
    /\ avail[g] < SeatsPerType /\ avail' = [avail EXCEPT ![g] = @ + 1]
    /\ \/ stock[g] # NoStock /\ stock' = [stock EXCEPT ![g] = @ + 1]
       \/ UNCHANGED stock
    /\ beaten' = beaten \cup Beats(g)
    /\ UNCHANGED <<data, holds, listing, reading, reset, met, heard>>

InsertElsewhere(t, g) ==
    /\ Stray /\ Fits({t}, g)
    /\ data' = Added({t}, g)
    /\ met' = met \cup Meets({t}, g)
    /\ UNCHANGED <<avail, stock, holds, listing, reading, reset, heard, beaten>>

(* findAll: the rows, then SET.  Readers that found the same are one here, *)
(* which may store it again.                                               *)
QueryListing ==
    /\ Stray /\ listing = {}
    /\ reading' = reading \cup {data["concert"]}
    /\ heard' = heard \cup {r \in Run : reset[r].step \in {"wiping", "filling"}}
    /\ UNCHANGED <<data, avail, stock, holds, listing, reset, met, beaten>>

StoreListing(found) ==
    /\ listing' = {found}
    /\ reading' \in {reading, reading \ {found}}
    /\ UNCHANGED <<data, avail, stock, holds, reset, strays, met, heard, beaten>>

ListingExpires ==
    /\ listing # {} /\ listing' = {}
    /\ UNCHANGED <<data, avail, stock, holds, reading, reset, strays, met, heard, beaten>>

ResetNext ==
    \/ \E r \in Run : \/ Flush(r) \/ StartByHand(r) \/ Wipe(r) \/ Fill(r)
                      \/ ReadTypes(r) \/ StoreStocks(r)
    \/ \E g \in Generation :
         \/ HoldTicket(g) \/ EndOrder(g)
         \/ \E h \in {"kept", "lost"} : CountHeld(g, h) \/ RefuseHeld(g, h)
         \/ \E t \in {"ticket", "gate", "guestListEntry", "uploadedFile"} :
                InsertElsewhere(t, g)
    \/ InsertElsewhere("user", Old)
    \/ QueryListing \/ ListingExpires
    \/ \E found \in reading : StoreListing(found)

-----------------------------------------------------------------------------
(* The data of a run and nothing else, but for uploaded files. *)
OnlyRowsOf(r) ==
    \A t \in Cleared : data[t] = IF t \in ToSet(Filled(r)) THEN {r} ELSE {}

Ends(r, step) == reset[r].step # step /\ reset'[r].step = step

(* A run of the script fails only if somebody inserted into a table it had *)
(* emptied, or emptied one it had filled; otherwise the tables it empties  *)
(* hold its data and nothing else.  After a reset that succeeded the       *)
(* cached listing, and any that a reader is about to cache, is of that     *)
(* data unless somebody read it meanwhile or before and was slow to cache  *)
(* it, and the stocks are the rows' less what is held, unless an order of  *)
(* it came between findMany and seedStock or was under way at findMany     *)
(* (health.controller.ts:127 wants no race with orders).                   *)
ResetLeavesSeed ==
    [][\A r \in Run :
        /\ Ends(r, "failed") => r \in met
        /\ Ends(r, "done") =>
             /\ r \in met \/ OnlyRowsOf(r)'
             /\ r \notin ByHand =>
                  /\ r \in met \cup heard \/ (listing \cup reading)' \subseteq {{r}}
                  /\ r \in met \cup beaten \/ stock'[r] = avail'[r] - holds'[r].kept
      ]_resetVars
=============================================================================
