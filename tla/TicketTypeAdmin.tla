--------------------------- MODULE TicketTypeAdmin ---------------------------
(***************************************************************************)
(* Administration of a ticket type (TicketTypeService create, update and   *)
(* remove) while customers order it.  An admin request is cut at its       *)
(* awaits, so the row it checks, the row it writes and the Redis key it    *)
(* sets may belong to different moments.                                   *)
(*                                                                         *)
(* Orders are for one ticket and appear with the steps that touch the row  *)
(* or stock:{id}, each decided by one handler: OrderLifecycle has the rest *)
(* of them.  drifted and squeezed are history: a SET of an administrator   *)
(* overtook an order, or an order was paid or ended whose creation had     *)
(* been undone; and an UPDATE lowered totalQty by a check that orders had  *)
(* made obsolete.                                                          *)
(***************************************************************************)
EXTENDS Integers, FiniteSets

CONSTANTS
    Buyer,          \* orders, of one ticket each
    Admin,          \* requests of administrators that may run together
    TotalQty,       \* the values of totalQty an administrator may choose
    MaxEdits        \* bound: number of admin requests

ASSUME AdminAssumption ==
    /\ TotalQty \subseteq Nat
    /\ MaxEdits \in Nat
    /\ IsFiniteSet(Buyer)

VARIABLES
    typeRow,        \* the TicketType row: there, active, total, sold, reserved
    stockKey,       \* stock:{id}, NoKey when missing
    buyer,          \* buyer[o]: the order's step and the stock value it read
    lapsed,         \* orders whose reservation key ran out, and whose ticket no
                    \* SET has put back into the stock since
    edit,           \* edit[a]: a running admin request
    edits,          \* admin requests so far
    drifted, squeezed

adminVars == <<typeRow, stockKey, buyer, lapsed, edit, edits, drifted, squeezed>>

NoKey == -1                \* missing key, or a field the request leaves out
Qty == TotalQty \cup {NoKey}

Row == [there : BOOLEAN, active : BOOLEAN, total : TotalQty,
        sold : Nat, reserved : Int]

(* The Redis stock is taken, reservedQty does not count it (yet, or no     *)
(* longer: "lowered").  Over: no hold is left to be released; "left" is a  *)
(* creation that was undone, whose row stays to be paid or cancelled.      *)
Uncounted == {"held", "rowed", "undo", "fail", "lowered"}
HasOrderRow == {"rowed", "fail", "left", "counted", "paid", "released", "lowered", "ended"}
Over == {"refused", "left", "ended"}
BuyerStep == {"new", "check", "seed", "ready"} \cup Uncounted \cup HasOrderRow \cup Over

Request == [step : {"idle", "update", "set", "close", "delete", "del"},
            total : Qty, reopen : BOOLEAN, seen : Int, left : Int, fresh : BOOLEAN]
NoRequest == [step |-> "idle", total |-> NoKey, reopen |-> FALSE, seen |-> 0,
              left |-> 0, fresh |-> TRUE]

AdminTypeOK ==
    /\ typeRow \in Row
    /\ stockKey \in Nat \cup {NoKey}
    /\ buyer \in [Buyer -> [at : BuyerStep, seed : Nat]]
    /\ lapsed \subseteq Buyer
    /\ edit \in [Admin -> Request]
    /\ edits \in 0..MaxEdits
    /\ drifted \in BOOLEAN /\ squeezed \in BOOLEAN

Left == typeRow.total - typeRow.sold - typeRow.reserved
At(S) == {o \in Buyer : buyer[o].at \in S}
AtLeastZero(n) == IF n < 0 THEN 0 ELSE n

(***************************************************************************)
(* create has inserted the row and is about to seed stock:{id}.            *)
(***************************************************************************)
AdminInit ==
    /\ \E n \in TotalQty, a \in Admin :
         /\ typeRow = [there |-> TRUE, active |-> TRUE, total |-> n,
                       sold |-> 0, reserved |-> 0]
         /\ edit = [b \in Admin |->
                      IF b = a THEN [NoRequest EXCEPT !.step = "set", !.left = n,
                                                      !.total = n]
                               ELSE NoRequest]
    /\ stockKey = NoKey
    /\ buyer = [o \in Buyer |-> [at |-> "new", seed |-> 0]]
    /\ lapsed = {}
    /\ edits = 0
    /\ drifted = FALSE
    /\ squeezed = FALSE

-----------------------------------------------------------------------------
(* The orders *)

Go(o, step) == buyer' = [buyer EXCEPT ![o].at = step]

(* A step that changes the counters or the key makes requests that have    *)
(* written the row and not yet the key obsolete.                           *)
Obsolete(e) == IF e.step = "set" THEN [e EXCEPT !.fresh = FALSE] ELSE e
Overtake == edit' = [a \in Admin |-> Obsolete(edit[a])]

CheckTicketType(o) ==
    /\ buyer[o].at = "new"
    /\ Go(o, IF typeRow.there /\ typeRow.active THEN "check" ELSE "refused")
    /\ UNCHANGED <<typeRow, stockKey, lapsed, edit, edits, drifted, squeezed>>

(* ensureRedisStock: EXISTS, and the row if the key is missing *)
ReadStock(o) ==
    /\ buyer[o].at = "check"
    /\ IF stockKey = NoKey /\ typeRow.there
         THEN buyer' = [buyer EXCEPT ![o] = [at |-> "seed", seed |-> AtLeastZero(Left)]]
         ELSE Go(o, "ready")
    /\ UNCHANGED <<typeRow, stockKey, lapsed, edit, edits, drifted, squeezed>>

SeedStockNx(o) ==
    /\ buyer[o].at = "seed"
    /\ buyer' = [buyer EXCEPT ![o] = [at |-> "ready", seed |-> 0]]
    /\ stockKey' = IF stockKey = NoKey THEN buyer[o].seed ELSE stockKey
    /\ Overtake
    /\ UNCHANGED <<typeRow, lapsed, edits, drifted, squeezed>>

(* The reserve script *)
Take(o) ==
    /\ buyer[o].at = "ready"
    /\ \/ /\ stockKey > 0
          /\ stockKey' = stockKey - 1
          /\ Go(o, "held")
          /\ Overtake
       \/ /\ stockKey <= 0
          /\ Go(o, "refused")
          /\ UNCHANGED <<stockKey, edit>>
    /\ UNCHANGED <<typeRow, lapsed, edits, drifted, squeezed>>

(* The order row; its item refers to the ticket type. *)
InsertOrder(o) ==
    /\ buyer[o].at = "held"
    /\ Go(o, IF typeRow.there THEN "rowed" ELSE "undo")
    /\ UNCHANGED <<typeRow, stockKey, lapsed, edit, edits, drifted, squeezed>>

(* Mutant of HasRoom: the WHERE clause forgets what is sold. *)
HasRoomUnsold == typeRow.reserved + 1 <= typeRow.total
HasRoom == typeRow.reserved + typeRow.sold + 1 <= typeRow.total

CountOrder(o) ==
    /\ buyer[o].at = "rowed"
    /\ \/ /\ HasRoom
          /\ typeRow' = [typeRow EXCEPT !.reserved = @ + 1]
          /\ Go(o, "counted")
          /\ Overtake
       \/ /\ ~ HasRoom
          /\ Go(o, "fail")
          /\ UNCHANGED <<typeRow, edit>>
    /\ UNCHANGED <<stockKey, lapsed, edits, drifted, squeezed>>

(* order.delete, which the items of the order refuse, comes before: an     *)
(* order that reservedQty does not count can be paid, and end unpaid.      *)
Uncounts(o) == drifted' = (drifted \/ buyer[o].at = "left")

PayOrder(o) ==
    /\ buyer[o].at \in {"counted", "left"}
    /\ typeRow' = [typeRow EXCEPT !.reserved = @ - 1, !.sold = @ + 1]
    /\ Go(o, "paid")
    /\ Uncounts(o)
    /\ UNCHANGED <<stockKey, lapsed, edit, edits, squeezed>>

(* The release script.  A hold whose key has lapsed gives nothing back.    *)
Release(o) ==
    IF o \in lapsed THEN UNCHANGED <<stockKey, edit>>
                    ELSE stockKey' = AtLeastZero(stockKey) + 1 /\ Overtake

(* Of a refused inventory transaction, of cancelOrder or expireOrder       *)
(* before they lower reservedQty, of a FAILED webhook or the cron after.   *)
GiveBack(o) ==
    /\ buyer[o].at \in {"undo", "fail", "counted", "lowered"}
    /\ Go(o, CASE buyer[o].at = "undo" -> "refused"
               [] buyer[o].at = "fail" -> "left"
               [] buyer[o].at = "counted" -> "released"
               [] buyer[o].at = "lowered" -> "ended")
    /\ Release(o)
    /\ UNCHANGED <<typeRow, lapsed, edits, drifted, squeezed>>

(* The counters: of cancelOrder, expireOrder and a creation whose gateway  *)
(* failed after the release, of a FAILED webhook and the cron, which lower *)
(* reservedQty only if there is something to lower, before it.             *)
UncountOrder(o, guarded) ==
    /\ buyer[o].at \in {"released", "counted", "left"}
    /\ buyer[o].at = "counted" => guarded
    /\ buyer[o].at = "released" => ~ guarded
    /\ typeRow' = [typeRow EXCEPT !.reserved = IF guarded /\ @ < 1 THEN @ ELSE @ - 1]
    /\ \E step \in CASE buyer[o].at = "released" -> {"ended", "left"}
                     [] buyer[o].at = "counted" -> {"lowered"}
                     [] buyer[o].at = "left" -> {"ended"} : Go(o, step)
    /\ Uncounts(o)
    /\ Overtake
    /\ UNCHANGED <<stockKey, lapsed, edits, squeezed>>

(* The reservation key runs out; the stock is not raised. *)
Lapse(o) ==
    /\ buyer[o].at \in Uncounted \cup {"counted"} /\ o \notin lapsed
    /\ lapsed' = lapsed \cup {o}
    /\ UNCHANGED <<typeRow, stockKey, buyer, edit, edits, drifted, squeezed>>

-----------------------------------------------------------------------------
(* The administrators *)

(* totalQty may not fall below the soldQty + reservedQty of the row read.  *)
Acceptable(n) == n = NoKey \/ n >= typeRow.sold + typeRow.reserved

(* update: the row is read and the request checked. *)
StartEdit(a, n, reopen) ==
    /\ edit[a].step = "idle" /\ edits < MaxEdits
    /\ typeRow.there /\ Acceptable(n)
    /\ edits' = edits + 1
    /\ edit' = [edit EXCEPT ![a] = [NoRequest EXCEPT !.step = "update", !.total = n,
                                      !.reopen = reopen, !.seen = typeRow.sold + typeRow.reserved]]
    /\ UNCHANGED <<typeRow, stockKey, buyer, lapsed, drifted, squeezed>>

(* UPDATE ... RETURNING; the next awaits work with the row it returns.     *)
WriteRow(a) ==
    LET e == edit[a]
        row == [typeRow EXCEPT !.total = IF e.total = NoKey THEN @ ELSE e.total,
                               !.active = @ \/ e.reopen]
        left == row.total - row.sold - row.reserved
    IN /\ e.step = "update"
       /\ IF typeRow.there
            THEN /\ typeRow' = row
                 /\ edit' = [b \in Admin |->
                      IF b = a
                        THEN [e EXCEPT !.step = IF e.total = NoKey THEN "close" ELSE "set",
                                       !.left = left, !.seen = 0, !.reopen = FALSE,
                                       !.fresh = At(Uncounted \cup {"released"}) = {}]
                        ELSE Obsolete(edit[b])]
                 /\ squeezed' = (squeezed \/ (/\ e.total # NoKey
                                              /\ row.sold + row.reserved > e.seen))
            ELSE /\ edit' = [edit EXCEPT ![a] = NoRequest]
                 /\ UNCHANGED <<typeRow, squeezed>>
       /\ UNCHANGED <<stockKey, buyer, lapsed, edits, drifted>>

(* Mutant of NewStock: Redis gets totalQty. *)
NewStockTotal(e) == AtLeastZero(e.total)
(* seedStock(available) *)
NewStock(e) == AtLeastZero(e.left)

SetStock(a) ==
    /\ edit[a].step = "set"
    /\ stockKey' = NewStock(edit[a])
    /\ drifted' = (drifted \/ ~ edit[a].fresh \/ edit[a].left < 0)
    /\ edit' = [b \in Admin |-> IF b = a THEN [NoRequest EXCEPT !.step = "close",
                                                               !.left = edit[a].left]
                                         ELSE Obsolete(edit[b])]
    /\ lapsed' = lapsed \ At(Over)
    /\ UNCHANGED <<typeRow, buyer, edits, squeezed>>

(* A row returned with nothing left is set to SOLD_OUT. *)
CloseIfSoldOut(a) ==
    /\ edit[a].step = "close"
    /\ typeRow' = [typeRow EXCEPT !.active = @ /\ (edit[a].left # 0 \/ ~ typeRow.there)]
    /\ edit' = [edit EXCEPT ![a] = NoRequest]
    /\ UNCHANGED <<stockKey, buyer, lapsed, edits, drifted, squeezed>>

StartRemove(a) ==
    /\ edit[a].step = "idle" /\ edits < MaxEdits
    /\ typeRow.there /\ typeRow.sold = 0 /\ typeRow.reserved <= 0
    /\ edits' = edits + 1
    /\ edit' = [edit EXCEPT ![a] = [NoRequest EXCEPT !.step = "delete"]]
    /\ UNCHANGED <<typeRow, stockKey, buyer, lapsed, drifted, squeezed>>

(* DELETE fails while an order item refers to the type. *)
DeleteRow(a) ==
    /\ edit[a].step = "delete"
    /\ IF At(HasOrderRow) = {} /\ typeRow.there
         THEN /\ typeRow' = [typeRow EXCEPT !.there = FALSE]
              /\ edit' = [edit EXCEPT ![a].step = "del"]
         ELSE /\ edit' = [edit EXCEPT ![a] = NoRequest]
              /\ UNCHANGED typeRow
    /\ UNCHANGED <<stockKey, buyer, lapsed, edits, drifted, squeezed>>

DelStock(a) ==
    /\ edit[a].step = "del"
    /\ stockKey' = NoKey
    /\ edit' = [edit EXCEPT ![a] = NoRequest]
    /\ UNCHANGED <<typeRow, buyer, lapsed, edits, drifted, squeezed>>

(* The process stops, or an await throws. *)
AdminCrash(a) ==
    /\ edit[a].step # "idle"
    /\ edit' = [edit EXCEPT ![a] = NoRequest]
    /\ drifted' = (drifted \/ edit[a].step = "set")
    /\ UNCHANGED <<typeRow, stockKey, buyer, lapsed, edits, squeezed>>

AdminNext ==
    \/ \E o \in Buyer : \/ CheckTicketType(o) \/ ReadStock(o) \/ SeedStockNx(o)
                        \/ Take(o) \/ InsertOrder(o) \/ CountOrder(o) \/ PayOrder(o)
                        \/ GiveBack(o) \/ Lapse(o)
                        \/ \E guarded \in BOOLEAN : UncountOrder(o, guarded)
    \/ \E a \in Admin :
         \/ \E n \in Qty, reopen \in BOOLEAN : StartEdit(a, n, reopen)
         \/ WriteRow(a) \/ SetStock(a) \/ CloseIfSoldOut(a)
         \/ StartRemove(a) \/ DeleteRow(a) \/ DelStock(a) \/ AdminCrash(a)

AdminSpec == AdminInit /\ [][AdminNext]_adminVars

-----------------------------------------------------------------------------
(***************************************************************************)
(* update's check of totalQty against soldQty + reservedQty is as good as  *)
(* its row is young: the sum exceeds totalQty only if an UPDATE was        *)
(* written after orders had raised the sum it was checked against.         *)
(***************************************************************************)
RoomUnlessSqueezed ==
    typeRow.sold + typeRow.reserved > typeRow.total => squeezed

(***************************************************************************)
(* stock:{id} is what PostgreSQL has left, less the orders that hold a     *)
(* ticket and are not counted, or that have ended after their reservation  *)
(* had lapsed, plus those given back and still counted: whoever seeded the *)
(* key, whatever was edited, refused, cancelled or failed, and in whatever *)
(* order the two stores were told.  Only an admin's SET that overtakes     *)
(* such an order (or a request that stops before its SET), and the payment *)
(* or end of an order whose creation had been undone, make the two drift   *)
(* apart in another way.                                                   *)
(***************************************************************************)
Missing == At(Uncounted) \cup (lapsed \cap At(Over))
GivenBack == At({"released"}) \ lapsed

StockUnlessDrifted ==
    typeRow.there /\ stockKey # NoKey /\ ~ drifted
        /\ (\A a \in Admin : edit[a].step # "set") =>
      stockKey = Left - Cardinality(Missing) + Cardinality(GivenBack)
=============================================================================
