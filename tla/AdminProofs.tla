----------------------------- MODULE AdminProofs -----------------------------
(***************************************************************************)
(* What holds of ticket types, of gates and of the database under          *)
(* administration, for any number of administrators, orders, gates,        *)
(* tickets and calls.                                                      *)
(*                                                                         *)
(* Ticket types: the counters and the stock key follow the orders unless   *)
(* an edit overtakes one.  Orders are counted by the step they stand at;   *)
(* an action moves one order, so each count changes by at most one         *)
(* (CountMove), and the stock key must change with the counts.             *)
(*                                                                         *)
(* Gates: a call that runs alone knows at every await where the tickets    *)
(* are (Stage), and a rebalance that runs alone which of them have had     *)
(* their turn (Round).                                                     *)
(*                                                                         *)
(* Reset: a run of the seed script that nobody met finds empty what it has *)
(* emptied, and in the tables it has filled its own rows and no others     *)
(* (ResetInv).                                                             *)
(***************************************************************************)
EXTENDS TicketTypeAdmin, GateAdmin, SystemReset, FiniteSums, FiniteSetTheorems, TLAPS

(* At(S), with the orders' steps as a parameter, and how many there are.   *)
Among(b, S) == {o \in Buyer : b[o].at \in S}
Count(b, S) == Cardinality(Among(b, S))

LEMMA CountType ==
    ASSUME NEW b, NEW S
    PROVE  Count(b, S) \in Nat
<1>1. Among(b, S) \subseteq Buyer
  BY DEF Among
<1>2. IsFiniteSet(Among(b, S))
  BY <1>1, AdminAssumption, FS_Subset DEF AdminAssumption
<1> QED
  BY <1>2, FS_CardinalityType DEF Count

LEMMA CountNone ==
    ASSUME NEW b, NEW S
    PROVE  Count(b, S) = 0 <=> Among(b, S) = {}
<1>1. Among(b, S) \subseteq Buyer
  BY DEF Among
<1>2. IsFiniteSet(Among(b, S))
  BY <1>1, AdminAssumption, FS_Subset DEF AdminAssumption
<1> QED
  BY <1>2, FS_EmptySet DEF Count

(* One order moves from one step to another. *)
LEMMA CountMove ==
    ASSUME NEW b, NEW c, NEW o \in Buyer, NEW S,
           \A x \in Buyer \ {o} : c[x].at = b[x].at
    PROVE  Count(c, S) = Count(b, S) - (IF b[o].at \in S THEN 1 ELSE 0)
                                     + (IF c[o].at \in S THEN 1 ELSE 0)
<1> DEFINE A == Among(b, S)
           B == A \ {o}
<1>1. IsFiniteSet(A)
  <2>1. A \subseteq Buyer
    BY DEF Among
  <2> QED
    BY <2>1, AdminAssumption, FS_Subset DEF AdminAssumption
<1>2. o \in A <=> b[o].at \in S
  BY DEF Among
<1>3. Among(c, S) = IF c[o].at \in S THEN B \cup {o} ELSE B
  BY DEF Among
<1>4. o \notin B
  OBVIOUS
<1> HIDE DEF A
<1>5. /\ IsFiniteSet(B)
      /\ Cardinality(B) = IF o \in A THEN Cardinality(A) - 1 ELSE Cardinality(A)
  BY <1>1, FS_RemoveElement
<1> HIDE DEF B
<1>6. Cardinality(B \cup {o}) = Cardinality(B) + 1
  BY <1>4, <1>5, FS_AddElement
<1>7. Cardinality(A) \in Nat /\ Cardinality(B) \in Nat
  BY <1>1, <1>5, FS_CardinalityType
<1> QED
  BY <1>2, <1>3, <1>5, <1>6, <1>7 DEF Count, A

-----------------------------------------------------------------------------
(* The counters of the row *)

Counters ==
    /\ ~ drifted => typeRow.reserved = Count(buyer, {"counted", "released"})
    /\ typeRow.sold = Count(buyer, {"paid"})

TypeInv == AdminTypeOK /\ Counters

LEMMA NoKeyNoQty == NoKey \notin TotalQty /\ TotalQty \subseteq Nat
BY AdminAssumption DEF AdminAssumption, NoKey

LEMMA NoRequestType == NoRequest \in Request /\ NoRequest.step = "idle"
BY DEF NoRequest, Request, Qty

LEMMA RequestSet ==
    ASSUME NEW e \in Request, NEW n \in Qty, NEW m \in Int
    PROVE  LET r == [e EXCEPT !.step = "set", !.left = m, !.total = n] IN
           /\ r \in Request
           /\ r.step = "set" /\ r.left = m /\ r.total = n
           /\ r.fresh = e.fresh
BY DEF Request

LEMMA TypeInvInit == AdminInit => TypeInv
<1> SUFFICES ASSUME AdminInit PROVE TypeInv
  OBVIOUS
<1>1. PICK n \in TotalQty, a \in Admin :
        /\ typeRow = [there |-> TRUE, active |-> TRUE, total |-> n,
                      sold |-> 0, reserved |-> 0]
        /\ edit = [b \in Admin |-> IF b = a THEN [NoRequest EXCEPT !.step = "set", !.left = n,
                                                                   !.total = n]
                                            ELSE NoRequest]
  BY DEF AdminInit
<1>2. n \in Nat
  BY NoKeyNoQty
<1>3. /\ NoRequest \in Request
      /\ [NoRequest EXCEPT !.step = "set", !.left = n, !.total = n] \in Request
  <2>1. n \in Qty /\ n \in Int
    BY <1>2 DEF Qty
  <2> QED
    BY <2>1, RequestSet, NoRequestType
<1>4. AdminTypeOK
  <2>1. edits \in 0..MaxEdits
    BY AdminAssumption DEF AdminInit, AdminAssumption
  <2>2. buyer \in [Buyer -> [at : BuyerStep, seed : Nat]]
    BY DEF AdminInit, BuyerStep
  <2>3. edit \in [Admin -> Request]
    BY <1>1, <1>3
  <2>4. typeRow \in Row
    BY <1>1 DEF Row
  <2>5. /\ stockKey \in Nat \cup {NoKey} /\ lapsed \subseteq Buyer
        /\ drifted \in BOOLEAN /\ squeezed \in BOOLEAN
    BY DEF AdminInit
  <2> QED
    BY <2>1, <2>2, <2>3, <2>4, <2>5 DEF AdminTypeOK
<1>5. Among(buyer, {"counted", "released"}) = {} /\ Among(buyer, {"paid"}) = {}
  BY DEF AdminInit, Among
<1> QED
  BY <1>1, <1>4, <1>5, CountNone DEF TypeInv, Counters

(* Step "step" of order o, which read the stock value n. *)
Moved(o, step, n) == buyer' = [buyer EXCEPT ![o] = [at |-> step, seed |-> n]]

LEMMA MovedType ==
    ASSUME AdminTypeOK, NEW o \in Buyer, NEW step \in BuyerStep, NEW n \in Nat,
           Moved(o, step, n)
    PROVE  /\ buyer' \in [Buyer -> [at : BuyerStep, seed : Nat]]
           /\ \A S : Count(buyer', S) = Count(buyer, S)
                        - (IF buyer[o].at \in S THEN 1 ELSE 0)
                        + (IF step \in S THEN 1 ELSE 0)
<1>1. buyer' \in [Buyer -> [at : BuyerStep, seed : Nat]]
  BY DEF AdminTypeOK, Moved
<1>2. buyer'[o].at = step /\ \A x \in Buyer \ {o} : buyer'[x].at = buyer[x].at
  BY DEF AdminTypeOK, Moved
<1>3. ASSUME NEW S
      PROVE  Count(buyer', S) = Count(buyer, S)
                        - (IF buyer[o].at \in S THEN 1 ELSE 0)
                        + (IF step \in S THEN 1 ELSE 0)
  <2> DEFINE c == buyer'
  <2>1. c[o].at = step /\ \A x \in Buyer \ {o} : c[x].at = buyer[x].at
    BY <1>2
  <2> HIDE DEF c
  <2>2. Count(c, S) = Count(buyer, S) - (IF buyer[o].at \in S THEN 1 ELSE 0)
                                      + (IF c[o].at \in S THEN 1 ELSE 0)
    BY <2>1, CountMove
  <2> QED
    BY <2>1, <2>2 DEF c
<1> QED
  BY <1>1, <1>3

LEMMA GoMoves ==
    ASSUME AdminTypeOK, NEW o \in Buyer, NEW step, Go(o, step)
    PROVE  Moved(o, step, buyer[o].seed) /\ buyer[o].seed \in Nat
<1>1. buyer[o] \in [at : BuyerStep, seed : Nat]
  BY DEF AdminTypeOK
<1>2. [buyer[o] EXCEPT !.at = step] = [at |-> step, seed |-> buyer[o].seed]
  BY <1>1
<1>3. buyer' = [buyer EXCEPT ![o] = [buyer[o] EXCEPT !.at = step]]
  BY DEF AdminTypeOK, Go
<1> QED
  BY <1>1, <1>2, <1>3 DEF Moved

LEMMA OvertakeType ==
    ASSUME AdminTypeOK, Overtake
    PROVE  /\ edit' \in [Admin -> Request]
           /\ \A a \in Admin : /\ edit'[a].step = edit[a].step
                               /\ edit'[a].total = edit[a].total
                               /\ edit'[a].seen = edit[a].seen
                               /\ edit'[a].left = edit[a].left
                               /\ edit'[a].step = "set" => ~ edit'[a].fresh
<1>1. \A a \in Admin : edit[a] \in Request
  BY DEF AdminTypeOK
<1>2. ASSUME NEW e \in Request
      PROVE  /\ Obsolete(e) \in Request
             /\ Obsolete(e).step = e.step /\ Obsolete(e).total = e.total
             /\ Obsolete(e).seen = e.seen /\ Obsolete(e).left = e.left
             /\ e.step = "set" => ~ Obsolete(e).fresh
  BY DEF Obsolete, Request
<1>3. edit' = [a \in Admin |-> Obsolete(edit[a])]
  BY DEF Overtake
<1> QED
  BY <1>1, <1>2, <1>3

OnHand == {"counted", "released"}
One(b) == IF b THEN 1 ELSE 0

LEMMA MovedTypeInv ==
    ASSUME TypeInv, NEW o \in Buyer, NEW step \in BuyerStep, NEW n \in Nat, Moved(o, step, n),
           typeRow'.there \in BOOLEAN, typeRow'.active \in BOOLEAN, typeRow'.total \in TotalQty,
           NEW p \in Int, typeRow'.reserved = p,
           ~ drifted' => /\ ~ drifted
                         /\ p = typeRow.reserved - One(buyer[o].at \in OnHand)
                                  + One(step \in OnHand),
           NEW q, typeRow'.sold = q,
           q = typeRow.sold - One(buyer[o].at = "paid") + One(step = "paid"),
           typeRow' = [there |-> typeRow'.there, active |-> typeRow'.active,
                       total |-> typeRow'.total, sold |-> q, reserved |-> p],
           stockKey' \in Nat \cup {NoKey}, edit' \in [Admin -> Request],
           drifted' \in BOOLEAN, UNCHANGED <<lapsed, edits, squeezed>>
    PROVE  TypeInv'
<1>1. /\ buyer' \in [Buyer -> [at : BuyerStep, seed : Nat]]
      /\ \A S : Count(buyer', S) = Count(buyer, S)
                   - (IF buyer[o].at \in S THEN 1 ELSE 0) + (IF step \in S THEN 1 ELSE 0)
  BY MovedType DEF TypeInv
<1>2. (~ drifted' => p = Count(buyer', OnHand)) /\ q = Count(buyer', {"paid"})
  BY <1>1 DEF TypeInv, Counters, OnHand, One
<1>3. q \in Nat
  BY <1>2, CountType
<1>4. typeRow' \in Row
  BY <1>3 DEF Row
<1>5. Counters'
  BY <1>2 DEF Counters, OnHand
<1> QED
  BY <1>1, <1>4, <1>5 DEF TypeInv, AdminTypeOK

(* Steps of an order that leave row and key alone. *)
LEMMA StillTypeInv ==
    ASSUME TypeInv, NEW o \in Buyer, NEW step \in BuyerStep, NEW n \in Nat, Moved(o, step, n),
           buyer[o].at \notin OnHand \cup {"paid"}, step \notin OnHand \cup {"paid"},
           UNCHANGED <<typeRow, stockKey, lapsed, edits, drifted, squeezed>>,
           edit' \in [Admin -> Request]
    PROVE  TypeInv'
<1>1. /\ typeRow \in Row /\ stockKey \in Nat \cup {NoKey}
      /\ typeRow.reserved \in Int /\ typeRow.sold \in Nat
  BY DEF TypeInv, AdminTypeOK, Row
<1>2. /\ typeRow.reserved = typeRow.reserved - One(buyer[o].at \in OnHand) + One(step \in OnHand)
      /\ typeRow.sold = typeRow.sold - One(buyer[o].at = "paid") + One(step = "paid")
  BY <1>1 DEF One
<1>3. /\ typeRow = [there |-> typeRow.there, active |-> typeRow.active,
                    total |-> typeRow.total, sold |-> typeRow.sold, reserved |-> typeRow.reserved]
      /\ typeRow.there \in BOOLEAN /\ typeRow.active \in BOOLEAN /\ typeRow.total \in TotalQty
  BY <1>1 DEF Row
<1>4. drifted \in BOOLEAN
  BY DEF TypeInv, AdminTypeOK
<1> QED
  BY <1>1, <1>2, <1>3, <1>4, MovedTypeInv

RowOf(row, p, q) ==
    [there |-> row.there, active |-> row.active, total |-> row.total, sold |-> q, reserved |-> p]

LEMMA RowSet ==
    ASSUME NEW row \in Row, NEW p, NEW q
    PROVE  /\ [row EXCEPT !.reserved = p] = RowOf(row, p, row.sold)
           /\ [row EXCEPT !.reserved = p, !.sold = q] = RowOf(row, p, q)
<1>1. [row EXCEPT !.reserved = p] = RowOf(row, p, row.sold)
  BY DEF RowOf, Row
<1>2. [RowOf(row, p, row.sold) EXCEPT !.sold = q] = RowOf(row, p, q)
  BY DEF RowOf
<1>3. [row EXCEPT !.reserved = p, !.sold = q] = [[row EXCEPT !.reserved = p] EXCEPT !.sold = q]
  OBVIOUS
<1> QED
  BY <1>1, <1>2, <1>3

Orders(o) ==
    \/ CheckTicketType(o) \/ ReadStock(o) \/ SeedStockNx(o) \/ Take(o) \/ InsertOrder(o)
    \/ CountOrder(o) \/ PayOrder(o) \/ GiveBack(o) \/ Lapse(o)
    \/ \E guarded \in BOOLEAN : UncountOrder(o, guarded)

(* A row that counts a pending order has something to lower. *)
LEMMA CountedOnce ==
    ASSUME TypeInv, NEW o \in Buyer, buyer[o].at \in OnHand, ~ drifted
    PROVE  typeRow.reserved >= 1
<1>1. o \in Among(buyer, OnHand) /\ Count(buyer, OnHand) \in Nat
  BY CountType DEF Among
<1>2. Count(buyer, OnHand) # 0
  BY <1>1, CountNone
<1> QED
  BY <1>1, <1>2 DEF TypeInv, Counters, OnHand

LEMMA OrdersTypeInv ==
    ASSUME TypeInv, NEW o \in Buyer, Orders(o)
    PROVE  TypeInv'
<1>1. /\ AdminTypeOK /\ edit \in [Admin -> Request] /\ stockKey \in Nat \cup {NoKey}
      /\ typeRow \in Row /\ typeRow.reserved \in Int /\ typeRow.sold \in Nat
      /\ typeRow.total \in Nat /\ typeRow.total \in TotalQty
      /\ typeRow.there \in BOOLEAN /\ typeRow.active \in BOOLEAN
      /\ buyer[o].seed \in Nat /\ drifted \in BOOLEAN
  BY NoKeyNoQty DEF TypeInv, AdminTypeOK, Row
<1>2. Overtake => edit' \in [Admin -> Request]
  BY <1>1, OvertakeType
<1>3. \A step : Go(o, step) => Moved(o, step, buyer[o].seed)
  BY <1>1, GoMoves
<1>4. {"check", "refused", "ready", "seed", "held", "rowed", "undo", "fail", "left",
       "counted", "paid", "released", "lowered", "ended"} \subseteq BuyerStep
  BY DEF BuyerStep, Uncounted, HasOrderRow, Over
<1>5. CASE CheckTicketType(o)
  <2>1. PICK step \in {"check", "refused"} : Go(o, step)
    BY <1>5 DEF CheckTicketType
  <2> QED
    BY <1>1, <1>3, <1>4, <1>5, <2>1, StillTypeInv DEF CheckTicketType, OnHand
<1>6. CASE ReadStock(o)
  <2>1. CASE Go(o, "ready")
    BY <1>1, <1>3, <1>4, <1>6, <2>1, StillTypeInv DEF ReadStock, OnHand
  <2>2. CASE buyer' = [buyer EXCEPT ![o] = [at |-> "seed", seed |-> AtLeastZero(Left)]]
    <3>1. AtLeastZero(Left) \in Nat
      BY <1>1 DEF AtLeastZero, Left
    <3>2. Moved(o, "seed", AtLeastZero(Left))
      BY <2>2 DEF Moved
    <3> QED
      BY <1>1, <1>4, <1>6, <3>1, <3>2, StillTypeInv DEF ReadStock, OnHand
  <2> QED
    BY <1>6, <2>1, <2>2 DEF ReadStock
<1>7. ASSUME NEW step \in BuyerStep, NEW n \in Nat, Moved(o, step, n),
             buyer[o].at \notin OnHand \cup {"paid"}, step \notin OnHand \cup {"paid"},
             UNCHANGED <<typeRow, lapsed, edits, drifted, squeezed>>,
             stockKey' \in Nat \cup {NoKey}, edit' \in [Admin -> Request]
      PROVE  TypeInv'
  <2>1. /\ typeRow.reserved = typeRow.reserved - One(buyer[o].at \in OnHand) + One(step \in OnHand)
        /\ typeRow.sold = typeRow.sold - One(buyer[o].at = "paid") + One(step = "paid")
    BY <1>1, <1>7 DEF One
  <2>2. typeRow = [there |-> typeRow.there, active |-> typeRow.active,
                   total |-> typeRow.total, sold |-> typeRow.sold, reserved |-> typeRow.reserved]
    BY <1>1 DEF Row
  <2> QED
    BY <1>1, <1>7, <2>1, <2>2, MovedTypeInv
<1>8. CASE SeedStockNx(o)
  <2>1. Moved(o, "ready", 0)
    BY <1>8 DEF SeedStockNx, Moved
  <2>2. stockKey' \in Nat \cup {NoKey}
    BY <1>1, <1>8 DEF SeedStockNx
  <2> QED
    BY <1>2, <1>4, <1>7, <1>8, <2>1, <2>2 DEF SeedStockNx, OnHand
<1>9. CASE Take(o)
  <2>1. PICK step \in {"held", "refused"} : Go(o, step)
    BY <1>9 DEF Take
  <2>2. stockKey' \in Nat \cup {NoKey} /\ edit' \in [Admin -> Request]
    BY <1>1, <1>2, <1>9 DEF Take, NoKey
  <2> QED
    BY <1>1, <1>3, <1>4, <1>7, <1>9, <2>1, <2>2 DEF Take, OnHand
<1>10. CASE InsertOrder(o)
  <2>1. PICK step \in {"rowed", "undo"} : Go(o, step)
    BY <1>10 DEF InsertOrder
  <2> QED
    BY <1>1, <1>3, <1>4, <1>10, <2>1, StillTypeInv DEF InsertOrder, OnHand
<1>12. CASE GiveBack(o) /\ buyer[o].at # "counted"
  <2>1. PICK step \in {"refused", "left", "ended"} : Go(o, step)
    BY <1>12 DEF GiveBack
  <2>2. stockKey' \in Nat \cup {NoKey} /\ edit' \in [Admin -> Request]
    BY <1>1, <1>2, <1>12 DEF GiveBack, Release, AtLeastZero, NoKey
  <2> QED
    BY <1>1, <1>3, <1>4, <1>7, <1>12, <2>1, <2>2 DEF GiveBack, OnHand
<1>13. CASE GiveBack(o) /\ buyer[o].at = "counted"
  <2>1. Go(o, "released") /\ UNCHANGED <<typeRow, lapsed, edits, drifted, squeezed>>
    BY <1>13 DEF GiveBack
  <2>2. stockKey' \in Nat \cup {NoKey} /\ edit' \in [Admin -> Request]
    BY <1>1, <1>2, <1>13 DEF GiveBack, Release, AtLeastZero, NoKey
  <2>3. /\ typeRow.reserved = typeRow.reserved - One(buyer[o].at \in OnHand)
                                + One("released" \in OnHand)
        /\ typeRow.sold = typeRow.sold - One(buyer[o].at = "paid") + One("released" = "paid")
    BY <1>1, <1>13 DEF One, OnHand
  <2>4. typeRow = [there |-> typeRow.there, active |-> typeRow.active,
                   total |-> typeRow.total, sold |-> typeRow.sold, reserved |-> typeRow.reserved]
    BY <1>1 DEF Row
  <2> QED
    BY <1>1, <1>3, <1>4, <2>1, <2>2, <2>3, <2>4, MovedTypeInv
<1>14. ASSUME NEW step \in BuyerStep, NEW p \in Int, NEW q, Go(o, step),
              typeRow' = RowOf(typeRow, p, q), drifted' \in BOOLEAN,
              ~ drifted' => /\ ~ drifted
                            /\ p = typeRow.reserved - One(buyer[o].at \in OnHand)
                                     + One(step \in OnHand),
              q = typeRow.sold - One(buyer[o].at = "paid") + One(step = "paid"),
              UNCHANGED <<stockKey, lapsed, edits, squeezed>>, edit' \in [Admin -> Request]
       PROVE  TypeInv'
  <2>1. /\ typeRow'.there = typeRow.there /\ typeRow'.active = typeRow.active
        /\ typeRow'.total = typeRow.total /\ typeRow'.sold = q /\ typeRow'.reserved = p
        /\ typeRow' = [there |-> typeRow.there, active |-> typeRow.active,
                       total |-> typeRow.total, sold |-> q, reserved |-> p]
    BY <1>14 DEF RowOf
  <2> QED
    BY <1>1, <1>3, <1>14, <2>1, MovedTypeInv
<1>15. CASE CountOrder(o)
  <2>1. CASE Go(o, "fail") /\ UNCHANGED <<typeRow, edit>>
    BY <1>1, <1>3, <1>4, <1>15, <2>1, StillTypeInv DEF CountOrder, OnHand
  <2>2. CASE Go(o, "counted") /\ typeRow' = [typeRow EXCEPT !.reserved = @ + 1] /\ Overtake
    <3>1. typeRow' = RowOf(typeRow, typeRow.reserved + 1, typeRow.sold)
      BY <1>1, <2>2, RowSet
    <3> QED
      BY <1>1, <1>2, <1>4, <1>14, <1>15, <2>2, <3>1 DEF CountOrder, OnHand, One
  <2> QED
    BY <1>15, <2>1, <2>2 DEF CountOrder
<1>16. CASE PayOrder(o)
  <2>1. typeRow' = RowOf(typeRow, typeRow.reserved - 1, typeRow.sold + 1)
    <3> DEFINE p == typeRow.reserved - 1
               q == typeRow.sold + 1
    <3>1. typeRow' = [typeRow EXCEPT !.reserved = p, !.sold = q]
      BY <1>16 DEF PayOrder
    <3>2. typeRow \in Row
      BY <1>1
    <3> HIDE DEF p, q
    <3>3. [typeRow EXCEPT !.reserved = p] = RowOf(typeRow, p, typeRow.sold)
      BY ONLY <3>2 DEF RowOf, Row
    <3>4. [RowOf(typeRow, p, typeRow.sold) EXCEPT !.sold = q] = RowOf(typeRow, p, q)
      BY DEF RowOf
    <3>5. typeRow' = [[typeRow EXCEPT !.reserved = p] EXCEPT !.sold = q]
      BY ONLY <3>1
    <3>6. typeRow' = RowOf(typeRow, p, q)
      BY ONLY <3>3, <3>4, <3>5
    <3> QED
      BY <3>6 DEF p, q
  <2> QED
    <3>1. drifted' \in BOOLEAN /\ (~ drifted' => ~ drifted /\ buyer[o].at = "counted")
      BY <1>1, <1>16 DEF PayOrder, Uncounts
    <3>2. /\ Go(o, "paid") /\ UNCHANGED <<stockKey, lapsed, edits, squeezed, edit>>
          /\ buyer[o].at # "paid"
      BY <1>16 DEF PayOrder
    <3>3. /\ ~ drifted' => /\ ~ drifted
                           /\ typeRow.reserved - 1 = typeRow.reserved
                                - One(buyer[o].at \in OnHand) + One("paid" \in OnHand)
          /\ typeRow.sold + 1 = typeRow.sold - One(buyer[o].at = "paid") + One("paid" = "paid")
      BY <1>1, <3>1, <3>2 DEF OnHand, One
    <3>4. typeRow.reserved - 1 \in Int /\ "paid" \in BuyerStep
      BY <1>1, <1>4
    <3> QED
      BY <1>1, <1>14, <2>1, <3>1, <3>2, <3>3, <3>4
<1>17. ASSUME NEW guarded \in BOOLEAN, UncountOrder(o, guarded) PROVE TypeInv'
  <2> DEFINE p == IF guarded /\ typeRow.reserved < 1 THEN typeRow.reserved
                                                     ELSE typeRow.reserved - 1
  <2>1. p \in Int
    BY <1>1
  <2>2. typeRow' = RowOf(typeRow, p, typeRow.sold)
    BY <1>1, <1>17, RowSet DEF UncountOrder
  <2>3. PICK step \in {"ended", "left", "lowered"} : Go(o, step)
    BY <1>17 DEF UncountOrder
  <2>4. /\ drifted' \in BOOLEAN /\ buyer[o].at \in {"counted", "released", "left"}
        /\ ~ drifted' => ~ drifted /\ buyer[o].at \in OnHand
    BY <1>1, <1>17 DEF UncountOrder, Uncounts, OnHand
  <2>5. ~ drifted' => p = typeRow.reserved - 1
    <3>1. ~ drifted' => typeRow.reserved >= 1
      BY <2>4, CountedOnce
    <3> QED
      BY <1>1, <3>1
  <2> HIDE DEF p
  <2>6. /\ ~ drifted' => /\ ~ drifted
                         /\ p = typeRow.reserved - One(buyer[o].at \in OnHand)
                                  + One(step \in OnHand)
        /\ typeRow.sold = typeRow.sold - One(buyer[o].at = "paid") + One(step = "paid")
    BY <1>1, <2>3, <2>4, <2>5 DEF OnHand, One
  <2>7. UNCHANGED <<stockKey, lapsed, edits, squeezed>> /\ edit' \in [Admin -> Request]
    BY <1>2, <1>17 DEF UncountOrder
  <2> QED
    BY <1>1, <1>4, <1>14, <2>1, <2>2, <2>3, <2>4, <2>6, <2>7
<1>18. CASE Lapse(o)
  BY <1>1, <1>18 DEF Lapse, TypeInv, AdminTypeOK, Counters
<1> QED
  BY <1>5, <1>6, <1>8, <1>9, <1>10, <1>12, <1>13, <1>15, <1>16, <1>17, <1>18 DEF Orders

Admins(a) ==
    \/ \E n \in Qty, reopen \in BOOLEAN : StartEdit(a, n, reopen)
    \/ WriteRow(a) \/ SetStock(a) \/ CloseIfSoldOut(a)
    \/ StartRemove(a) \/ DeleteRow(a) \/ DelStock(a) \/ AdminCrash(a)

LEMMA ObsoleteType ==
    ASSUME NEW e \in Request
    PROVE  /\ Obsolete(e) \in Request
           /\ Obsolete(e).step = e.step /\ Obsolete(e).total = e.total
           /\ Obsolete(e).seen = e.seen /\ Obsolete(e).left = e.left
           /\ e.step = "set" => ~ Obsolete(e).fresh
BY DEF Obsolete, Request

(* The requests admin actions leave, as functions of the one before. *)
EditOf(n, reopen, seen) ==
    [NoRequest EXCEPT !.step = "update", !.total = n, !.reopen = reopen, !.seen = seen]
Written(e, step, left, fresh) ==
    [e EXCEPT !.step = step, !.left = left, !.seen = 0, !.reopen = FALSE, !.fresh = fresh]

LEMMA EditOfType ==
    ASSUME NEW n \in Qty, NEW reopen \in BOOLEAN, NEW seen \in Int
    PROVE  /\ EditOf(n, reopen, seen) \in Request
           /\ EditOf(n, reopen, seen).step = "update"
           /\ EditOf(n, reopen, seen).total = n
           /\ EditOf(n, reopen, seen).seen = seen
<1>1. ASSUME NEW e \in Request
      PROVE  LET r == [e EXCEPT !.step = "update", !.total = n, !.reopen = reopen, !.seen = seen]
             IN  r \in Request /\ r.step = "update" /\ r.total = n /\ r.seen = seen
  BY DEF Request
<1> QED
  BY <1>1, NoRequestType DEF EditOf

LEMMA WrittenType ==
    ASSUME NEW e \in Request, NEW step \in {"close", "set"}, NEW left \in Int,
           NEW fresh \in BOOLEAN
    PROVE  LET r == Written(e, step, left, fresh)
           IN  r \in Request /\ r.step = step /\ r.left = left /\ r.fresh = fresh
<1>1. ASSUME NEW seen \in Int
      PROVE  LET r == [e EXCEPT !.step = step, !.left = left, !.seen = seen,
                                !.reopen = FALSE, !.fresh = fresh]
             IN  r \in Request /\ r.step = step /\ r.left = left /\ r.fresh = fresh
  BY DEF Request
<1>2. 0 \in Int
  OBVIOUS
<1> QED
  BY <1>1, <1>2, Zenon DEF Written

LEMMA ClosingType ==
    ASSUME NEW m \in Int
    PROVE  LET r == [NoRequest EXCEPT !.step = "close", !.left = m]
           IN  r \in Request /\ r.step = "close"
<1>1. ASSUME NEW e \in Request
      PROVE  LET r == [e EXCEPT !.step = "close", !.left = m]
             IN  r \in Request /\ r.step = "close"
  BY DEF Request
<1> QED
  BY <1>1, NoRequestType

(* WriteRow, with the row it writes and what it has left. *)
Rewritten(a, active, total) ==
    /\ typeRow.there
    /\ typeRow' = [typeRow EXCEPT !.total = total, !.active = active]
    /\ IF edit[a].total = NoKey THEN total = typeRow.total /\ UNCHANGED squeezed
       ELSE /\ total = edit[a].total
            /\ squeezed' = (squeezed \/ typeRow.sold + typeRow.reserved > edit[a].seen)
    /\ edit' = [b \in Admin |->
         IF b = a
           THEN Written(edit[a], IF edit[a].total = NoKey THEN "close" ELSE "set",
                        total - typeRow.sold - typeRow.reserved,
                        At(Uncounted \cup {"released"}) = {})
           ELSE Obsolete(edit[b])]

LEMMA WriteRowCases ==
    ASSUME TypeInv, NEW a \in Admin, WriteRow(a)
    PROVE  /\ edit[a].step = "update"
           /\ UNCHANGED <<stockKey, buyer, lapsed, edits, drifted>>
           /\ \/ /\ edit' = [edit EXCEPT ![a] = NoRequest]
                 /\ ~ typeRow.there /\ UNCHANGED <<typeRow, squeezed>>
              \/ \E active \in BOOLEAN, total \in TotalQty : Rewritten(a, active, total)
<1> DEFINE e == edit[a]
           total == IF e.total = NoKey THEN typeRow.total ELSE e.total
           active == typeRow.active \/ e.reopen
           row == [typeRow EXCEPT !.total = total, !.active = active]
<1>1. typeRow \in Row /\ e \in Request
  BY DEF TypeInv, AdminTypeOK
<1>2. total \in TotalQty /\ active \in BOOLEAN
  BY <1>1 DEF Row, Request, Qty
<1>3. typeRow.there \in BOOLEAN /\ squeezed \in BOOLEAN
  BY <1>1 DEF Row, TypeInv, AdminTypeOK
<1>4. CASE ~ typeRow.there
  BY <1>4 DEF WriteRow
<1>5. CASE typeRow.there
  <2>1. row.total = total /\ row.sold = typeRow.sold /\ row.reserved = typeRow.reserved
    BY <1>1 DEF Row
  <2>2. row = [typeRow EXCEPT !.total = IF e.total = NoKey THEN @ ELSE e.total,
                              !.active = @ \/ e.reopen]
    BY <1>1 DEF Row
  <2>3. /\ typeRow' = row
        /\ edit' = [b \in Admin |->
             IF b = a
               THEN Written(e, IF e.total = NoKey THEN "close" ELSE "set",
                            row.total - row.sold - row.reserved,
                            At(Uncounted \cup {"released"}) = {})
               ELSE Obsolete(edit[b])]
        /\ squeezed' = (squeezed \/ (/\ e.total # NoKey
                                     /\ row.sold + row.reserved > e.seen))
    BY <1>5, <2>2 DEF WriteRow, Written
  <2>4. /\ UNCHANGED <<stockKey, buyer, lapsed, edits, drifted>>
        /\ edit[a].step = "update"
    BY DEF WriteRow
  <2>5. IF edit[a].total = NoKey THEN total = typeRow.total /\ UNCHANGED squeezed
        ELSE /\ total = edit[a].total
             /\ squeezed' = (squeezed \/ typeRow.sold + typeRow.reserved > edit[a].seen)
    BY <1>3, <2>1, <2>3
  <2>6. Rewritten(a, active, total)
    BY <1>5, <2>1, <2>3, <2>5 DEF Rewritten
  <2> HIDE DEF total, active, row, e
  <2> QED
    BY <1>2, <2>4, <2>6
<1> QED
  BY <1>3, <1>4, <1>5

LEMMA RowRewritten ==
    ASSUME NEW row \in Row, NEW total \in TotalQty, NEW active \in BOOLEAN
    PROVE  LET r == [row EXCEPT !.total = total, !.active = active]
           IN  /\ r \in Row /\ r.there = row.there /\ r.total = total
               /\ r.sold = row.sold /\ r.reserved = row.reserved
BY DEF Row

(* An admin action leaves the orders and their counters alone. *)
LEMMA AdminTypeInv ==
    ASSUME TypeInv, UNCHANGED buyer, lapsed' \subseteq Buyer, typeRow' \in Row,
           typeRow'.sold = typeRow.sold, typeRow'.reserved = typeRow.reserved,
           stockKey' \in Nat \cup {NoKey}, edit' \in [Admin -> Request],
           edits' \in 0..MaxEdits, drifted' \in BOOLEAN, drifted => drifted',
           squeezed' \in BOOLEAN
    PROVE  TypeInv'
BY DEF TypeInv, AdminTypeOK, Counters

LEMMA AdminsTypeInv ==
    ASSUME TypeInv, NEW a \in Admin, Admins(a)
    PROVE  TypeInv'
<1>1. /\ edit \in [Admin -> Request] /\ stockKey \in Nat \cup {NoKey}
      /\ typeRow \in Row /\ typeRow.reserved \in Int /\ typeRow.sold \in Nat
      /\ edits \in 0..MaxEdits /\ drifted \in BOOLEAN /\ squeezed \in BOOLEAN
      /\ lapsed \subseteq Buyer /\ edit[a] \in Request /\ edit[a].left \in Int /\ edit[a].fresh \in BOOLEAN
  BY DEF TypeInv, AdminTypeOK, Row, Request
<1>2. NoRequest \in Request
  BY NoRequestType
<1>3. ASSUME NEW n \in Qty, NEW reopen \in BOOLEAN, StartEdit(a, n, reopen)
      PROVE  TypeInv'
  <2>1. edit' = [edit EXCEPT ![a] = EditOf(n, reopen, typeRow.sold + typeRow.reserved)]
    BY <1>3 DEF StartEdit, EditOf
  <2>2. EditOf(n, reopen, typeRow.sold + typeRow.reserved) \in Request
    BY <1>1, EditOfType
  <2>3. edits' \in 0..MaxEdits
    BY <1>1, <1>3, AdminAssumption DEF StartEdit, AdminAssumption
  <2> QED
    BY <1>1, <1>3, <2>1, <2>2, <2>3, AdminTypeInv DEF StartEdit
<1>4. CASE WriteRow(a)
  <2>1. UNCHANGED <<stockKey, buyer, lapsed, edits, drifted>>
    BY <1>4, WriteRowCases
  <2>2. CASE edit' = [edit EXCEPT ![a] = NoRequest] /\ UNCHANGED <<typeRow, squeezed>>
    BY <1>1, <1>2, <2>1, <2>2, AdminTypeInv
  <2>3. ASSUME NEW active \in BOOLEAN, NEW total \in TotalQty, Rewritten(a, active, total)
        PROVE  TypeInv'
    <3> DEFINE left == total - typeRow.sold - typeRow.reserved
               step == IF edit[a].total = NoKey THEN "close" ELSE "set"
               fresh == At(Uncounted \cup {"released"}) = {}
    <3>1. left \in Int /\ step \in {"close", "set"} /\ fresh \in BOOLEAN
      BY <1>1, NoKeyNoQty
    <3>2. edit' = [b \in Admin |-> IF b = a THEN Written(edit[a], step, left, fresh)
                                            ELSE Obsolete(edit[b])]
      BY <2>3 DEF Rewritten
    <3> HIDE DEF left, step, fresh
    <3>3. Written(edit[a], step, left, fresh) \in Request
      BY <1>1, <3>1, WrittenType
    <3>4. \A b \in Admin : Obsolete(edit[b]) \in Request
      BY <1>1, ObsoleteType
    <3>5. edit' \in [Admin -> Request]
      BY <3>2, <3>3, <3>4
    <3>6. /\ typeRow' \in Row /\ typeRow'.sold = typeRow.sold
          /\ typeRow'.reserved = typeRow.reserved
      <4>1. typeRow' = [typeRow EXCEPT !.total = total, !.active = active]
        BY <2>3 DEF Rewritten
      <4>2. typeRow \in Row
        BY <1>1
      <4> DEFINE r == [typeRow EXCEPT !.total = total, !.active = active]
      <4>3. r \in Row /\ r.sold = typeRow.sold /\ r.reserved = typeRow.reserved
        BY ONLY <4>2, RowRewritten, ZenonT(30)
      <4> QED
        BY <4>1, <4>3
    <3>7. squeezed' \in BOOLEAN
      BY <1>1, <2>3 DEF Rewritten
    <3> QED
      BY <1>1, <2>1, <3>5, <3>6, <3>7, AdminTypeInv
  <2> QED
    BY <1>4, <2>2, <2>3, WriteRowCases
<1>5. CASE SetStock(a)
  <2>1. stockKey' \in Nat \cup {NoKey} /\ drifted' \in BOOLEAN
    BY <1>1, <1>5 DEF SetStock, NewStock, AtLeastZero
  <2>2. [NoRequest EXCEPT !.step = "close", !.left = edit[a].left] \in Request
    BY <1>1, ClosingType
  <2>3. \A b \in Admin : Obsolete(edit[b]) \in Request
    BY <1>1, ObsoleteType
  <2>4. edit' \in [Admin -> Request]
    BY <1>5, <2>2, <2>3 DEF SetStock
  <2> QED
    BY <1>1, <1>5, <2>1, <2>4, AdminTypeInv DEF SetStock
<1>6. CASE CloseIfSoldOut(a)
  <2>1. \A active \in BOOLEAN :
          LET r == [typeRow EXCEPT !.active = active]
          IN  r \in Row /\ r.sold = typeRow.sold /\ r.reserved = typeRow.reserved
    BY <1>1 DEF Row
  <2>2. typeRow.active \in BOOLEAN
    BY <1>1 DEF Row
  <2>3. typeRow' = [typeRow EXCEPT !.active = typeRow.active /\ (edit[a].left # 0 \/ ~ typeRow.there)]
    BY <1>6 DEF CloseIfSoldOut
  <2>4. /\ typeRow' \in Row /\ typeRow'.sold = typeRow.sold
        /\ typeRow'.reserved = typeRow.reserved
    BY <2>1, <2>2, <2>3
  <2> QED
    BY <1>1, <1>2, <1>6, <2>4, AdminTypeInv DEF CloseIfSoldOut
<1>7. CASE StartRemove(a)
  <2>1. [NoRequest EXCEPT !.step = "delete"] \in Request
    <3>1. \A e \in Request : [e EXCEPT !.step = "delete"] \in Request
      BY DEF Request
    <3> QED
      BY <1>2, <3>1
  <2>2. edits' \in 0..MaxEdits
    BY <1>1, <1>7, AdminAssumption DEF StartRemove, AdminAssumption
  <2> QED
    BY <1>1, <1>7, <2>1, <2>2, AdminTypeInv DEF StartRemove
<1>8. CASE DeleteRow(a)
  <2>1. LET r == [typeRow EXCEPT !.there = FALSE]
        IN  r \in Row /\ r.sold = typeRow.sold /\ r.reserved = typeRow.reserved
    BY <1>1 DEF Row
  <2>2. [edit[a] EXCEPT !.step = "del"] \in Request
    BY <1>1 DEF Request
  <2> QED
    BY <1>1, <1>2, <1>8, <2>1, <2>2, AdminTypeInv DEF DeleteRow
<1>9. CASE DelStock(a) \/ AdminCrash(a)
  BY <1>1, <1>2, <1>9, AdminTypeInv DEF DelStock, AdminCrash
<1> QED
  BY <1>3, <1>4, <1>5, <1>6, <1>7, <1>8, <1>9 DEF Admins

LEMMA NextCases ==
    AdminNext <=> (\E o \in Buyer : Orders(o)) \/ (\E a \in Admin : Admins(a))
BY DEF AdminNext, Orders, Admins

(***************************************************************************)
(* soldQty counts the orders that are paid, and reservedQty those that     *)
(* wait for payment unless the stock has drifted, whatever administrators  *)
(* do to the row and whatever handler pays or ends an order.               *)
(***************************************************************************)
THEOREM AdminTypeCorrect == AdminSpec => [](AdminTypeOK /\ Counters)
<1>1. TypeInv /\ [AdminNext]_adminVars => TypeInv'
  <2>1. CASE UNCHANGED adminVars
    BY <2>1 DEF adminVars, TypeInv, AdminTypeOK, Counters
  <2> QED
    BY <2>1, OrdersTypeInv, AdminsTypeInv, NextCases
<1> QED
  BY <1>1, TypeInvInit, PTL DEF AdminSpec, TypeInv

-----------------------------------------------------------------------------
(* totalQty and the orders *)

RoomInv ==
    /\ RoomUnlessSqueezed
    /\ \A a \in Admin : edit[a].step = "update" /\ edit[a].total # NoKey =>
         edit[a].total >= edit[a].seen

LEMMA OrdersRoom ==
    ASSUME TypeInv, RoomInv, NEW o \in Buyer, Orders(o)
    PROVE  RoomInv'
<1>1. /\ AdminTypeOK /\ typeRow \in Row /\ typeRow.reserved \in Int /\ typeRow.sold \in Nat
      /\ typeRow.total \in Nat
  BY NoKeyNoQty DEF TypeInv, AdminTypeOK, Row
<1>2. UNCHANGED squeezed /\ (UNCHANGED edit \/ Overtake)
  BY DEF Orders, CheckTicketType, ReadStock, SeedStockNx, Take, InsertOrder, CountOrder,
     PayOrder, GiveBack, Release, UncountOrder, Lapse
<1>3. \A a \in Admin : edit'[a].step = "update" /\ edit'[a].total # NoKey =>
         edit'[a].total >= edit'[a].seen
  BY <1>1, <1>2, OvertakeType DEF RoomInv
<1>4. RoomUnlessSqueezed'
  <2>1. CASE UNCHANGED typeRow
    BY <1>2, <2>1 DEF RoomInv, RoomUnlessSqueezed
  <2>2. CASE HasRoom /\ typeRow' = [typeRow EXCEPT !.reserved = @ + 1]
    BY <1>1, <2>2 DEF HasRoom, RoomUnlessSqueezed, Row
  <2>3. CASE PayOrder(o)
    BY <1>1, <1>2, <2>3 DEF PayOrder, RoomInv, RoomUnlessSqueezed, Row
  <2>4. ASSUME NEW guarded \in BOOLEAN, UncountOrder(o, guarded) PROVE RoomUnlessSqueezed'
    BY <1>1, <1>2, <2>4 DEF UncountOrder, RoomInv, RoomUnlessSqueezed, Row
  <2> QED
    BY <2>1, <2>2, <2>3, <2>4 DEF Orders, CheckTicketType, ReadStock, SeedStockNx, Take,
       InsertOrder, CountOrder, GiveBack, Lapse
<1> QED
  BY <1>3, <1>4 DEF RoomInv

(* The requests after an admin action that starts no update. *)
LEMMA AdminRoom ==
    ASSUME TypeInv, RoomInv, NEW a \in Admin, edit' \in [Admin -> Request],
           edit'[a].step # "update",
           \A b \in Admin \ {a} : edit'[b] = edit[b] \/ edit'[b] = Obsolete(edit[b]),
           typeRow'.sold = typeRow.sold, typeRow'.reserved = typeRow.reserved,
           typeRow'.total = typeRow.total, UNCHANGED squeezed
    PROVE  RoomInv'
<1>1. \A b \in Admin : edit[b] \in Request
  BY DEF TypeInv, AdminTypeOK
<1>2. \A b \in Admin \ {a} : /\ edit'[b].step = edit[b].step
                             /\ edit'[b].total = edit[b].total
                             /\ edit'[b].seen = edit[b].seen
  BY <1>1, ObsoleteType
<1> QED
  BY <1>2 DEF RoomInv, RoomUnlessSqueezed

LEMMA AdminsRoom ==
    ASSUME TypeInv, TypeInv', RoomInv, NEW a \in Admin, Admins(a)
    PROVE  RoomInv'
<1>1. /\ edit \in [Admin -> Request] /\ edit' \in [Admin -> Request]
      /\ typeRow \in Row /\ typeRow.reserved \in Int /\ typeRow.sold \in Nat
      /\ typeRow.total \in Nat
      /\ edit[a] \in Request /\ edit[a].left \in Int /\ edit[a].fresh \in BOOLEAN
      /\ edit[a].total \in Int /\ edit[a].seen \in Int
      /\ squeezed \in BOOLEAN
  <2>1. Qty \subseteq Int
    BY NoKeyNoQty DEF Qty, NoKey
  <2>2. edit \in [Admin -> Request] /\ edit' \in [Admin -> Request]
    BY DEF TypeInv, AdminTypeOK
  <2>3. /\ typeRow \in Row /\ typeRow.reserved \in Int /\ typeRow.sold \in Nat
        /\ typeRow.total \in Nat /\ squeezed \in BOOLEAN
    BY NoKeyNoQty DEF TypeInv, AdminTypeOK, Row
  <2>4. edit[a] \in Request
    BY <2>2
  <2>5. /\ edit[a].left \in Int /\ edit[a].fresh \in BOOLEAN
        /\ edit[a].total \in Int /\ edit[a].seen \in Int
    BY <2>1, <2>4 DEF Request
  <2> QED
    BY <2>2, <2>3, <2>4, <2>5
<1>2. NoRequest.step = "idle"
  BY NoRequestType
<1>3. ASSUME NEW n \in Qty, NEW reopen \in BOOLEAN, StartEdit(a, n, reopen)
      PROVE  RoomInv'
  <2> DEFINE r == EditOf(n, reopen, typeRow.sold + typeRow.reserved)
  <2>1. edit' = [edit EXCEPT ![a] = r]
    BY <1>3 DEF StartEdit, EditOf
  <2>2. r.total = n /\ r.seen = typeRow.sold + typeRow.reserved
    BY <1>1, EditOfType
  <2>3. n # NoKey => n >= typeRow.sold + typeRow.reserved
    BY <1>3 DEF StartEdit, Acceptable
  <2>4. UNCHANGED <<typeRow, squeezed>>
    BY <1>3 DEF StartEdit
  <2> HIDE DEF r
  <2> QED
    BY <1>1, <2>1, <2>2, <2>3, <2>4 DEF RoomInv, RoomUnlessSqueezed
<1>4. ASSUME edit' = [edit EXCEPT ![a] = edit'[a]], edit'[a].step # "update",
             UNCHANGED squeezed, typeRow'.total = typeRow.total,
             typeRow'.sold = typeRow.sold, typeRow'.reserved = typeRow.reserved
      PROVE  RoomInv'
  BY <1>1, <1>4, AdminRoom
<1>5. CASE WriteRow(a)
  <2>1. CASE edit' = [edit EXCEPT ![a] = NoRequest] /\ UNCHANGED <<typeRow, squeezed>>
    BY <1>1, <1>2, <1>4, <2>1
  <2>2. ASSUME NEW active \in BOOLEAN, NEW total \in TotalQty, Rewritten(a, active, total)
        PROVE  RoomInv'
    <3> DEFINE left == total - typeRow.sold - typeRow.reserved
               step == IF edit[a].total = NoKey THEN "close" ELSE "set"
               fresh == At(Uncounted \cup {"released"}) = {}
               r == [typeRow EXCEPT !.total = total, !.active = active]
    <3>1. left \in Int /\ step \in {"close", "set"} /\ fresh \in BOOLEAN /\ total \in Nat
      BY <1>1, NoKeyNoQty
    <3>2. edit' = [b \in Admin |-> IF b = a THEN Written(edit[a], step, left, fresh)
                                            ELSE Obsolete(edit[b])]
      BY <2>2 DEF Rewritten
    <3>3. typeRow' = r
      BY <2>2 DEF Rewritten
    <3>4. r.total = total /\ r.sold = typeRow.sold /\ r.reserved = typeRow.reserved
      <4>1. typeRow \in Row
        BY <1>1
      <4> QED
        BY ONLY <4>1, SMTT(30) DEF Row
    <3>5. IF edit[a].total = NoKey THEN total = typeRow.total /\ UNCHANGED squeezed
          ELSE /\ total = edit[a].total
               /\ squeezed' = (squeezed \/ typeRow.sold + typeRow.reserved > edit[a].seen)
      BY <2>2 DEF Rewritten
    <3>6. edit[a].step = "update"
      BY <1>5, WriteRowCases
    <3> HIDE DEF left, step, fresh, r
    <3>7. Written(edit[a], step, left, fresh).step # "update"
      BY <1>1, <3>1, WrittenType
    <3>8. /\ edit'[a].step # "update"
          /\ \A b \in Admin \ {a} : edit'[b] = Obsolete(edit[b])
      BY <3>2, <3>7
    <3>9. RoomUnlessSqueezed'
      <4>1. /\ typeRow'.total = total /\ typeRow'.sold = typeRow.sold
            /\ typeRow'.reserved = typeRow.reserved
        BY <3>3, <3>4
      <4>2. edit[a].total # NoKey => edit[a].total >= edit[a].seen
        BY <3>6 DEF RoomInv
      <4>3. typeRow.sold + typeRow.reserved > typeRow.total => squeezed
        BY DEF RoomInv, RoomUnlessSqueezed
      <4>4. CASE edit[a].total = NoKey
        BY <3>5, <4>1, <4>3, <4>4 DEF RoomUnlessSqueezed
      <4>5. CASE edit[a].total # NoKey
        <5>1. /\ total = edit[a].total /\ total >= edit[a].seen
              /\ typeRow.sold + typeRow.reserved > edit[a].seen => squeezed'
          BY <1>1, <3>5, <4>2, <4>5
        <5>2. typeRow.sold + typeRow.reserved > total
                => typeRow.sold + typeRow.reserved > edit[a].seen
          BY <1>1, <3>1, <5>1
        <5> QED
          BY <4>1, <5>1, <5>2 DEF RoomUnlessSqueezed
      <4> QED
        BY <4>4, <4>5
    <3>10. \A b \in Admin \ {a} : /\ edit'[b].step = edit[b].step
                                  /\ edit'[b].total = edit[b].total
                                  /\ edit'[b].seen = edit[b].seen
      BY <1>1, <3>8, ObsoleteType
    <3> QED
      BY <3>8, <3>9, <3>10 DEF RoomInv
  <2> QED
    BY <1>5, <2>1, <2>2, WriteRowCases
<1>6. CASE SetStock(a)
  <2>1. [NoRequest EXCEPT !.step = "close", !.left = edit[a].left].step = "close"
    BY <1>1, ClosingType
  <2>2. /\ edit'[a].step # "update"
        /\ \A b \in Admin \ {a} : edit'[b] = Obsolete(edit[b])
        /\ UNCHANGED <<typeRow, squeezed>>
    BY <1>6, <2>1 DEF SetStock
  <2> QED
    BY <1>1, <2>2, AdminRoom
<1>7. CASE CloseIfSoldOut(a)
  <2>1. /\ typeRow'.sold = typeRow.sold /\ typeRow'.reserved = typeRow.reserved
        /\ typeRow'.total = typeRow.total
    BY <1>1, <1>7 DEF CloseIfSoldOut, Row
  <2> QED
    BY <1>1, <1>2, <1>4, <1>7, <2>1 DEF CloseIfSoldOut
<1>8. CASE StartRemove(a)
  <2>1. [NoRequest EXCEPT !.step = "delete"].step = "delete"
    <3>1. \A e \in Request : [e EXCEPT !.step = "delete"].step = "delete"
      BY DEF Request
    <3> QED
      BY <3>1, NoRequestType
  <2> QED
    BY <1>1, <1>4, <1>8, <2>1 DEF StartRemove
<1>9. CASE DeleteRow(a)
  <2>1. LET r == [typeRow EXCEPT !.there = FALSE]
        IN  r.total = typeRow.total /\ r.sold = typeRow.sold /\ r.reserved = typeRow.reserved
    BY <1>1 DEF Row
  <2>2. /\ typeRow'.sold = typeRow.sold /\ typeRow'.reserved = typeRow.reserved
        /\ typeRow'.total = typeRow.total
    BY <1>9, <2>1 DEF DeleteRow
  <2>3. [edit[a] EXCEPT !.step = "del"].step = "del"
    BY <1>1 DEF Request
  <2>4. edit' = [edit EXCEPT ![a] = [edit[a] EXCEPT !.step = "del"]]
        \/ edit' = [edit EXCEPT ![a] = NoRequest]
    BY <1>1, <1>9 DEF DeleteRow
  <2> QED
    BY <1>1, <1>2, <1>4, <1>9, <2>2, <2>3, <2>4 DEF DeleteRow
<1>10. CASE DelStock(a) \/ AdminCrash(a)
  BY <1>1, <1>2, <1>4, <1>10 DEF DelStock, AdminCrash
<1> QED
  BY <1>3, <1>5, <1>6, <1>7, <1>8, <1>9, <1>10 DEF Admins

LEMMA RoomInit == AdminInit => RoomInv
<1> SUFFICES ASSUME AdminInit PROVE RoomInv
  OBVIOUS
<1>1. TypeInv
  BY TypeInvInit
<1>2. PICK n \in TotalQty, a \in Admin :
        /\ typeRow = [there |-> TRUE, active |-> TRUE, total |-> n,
                      sold |-> 0, reserved |-> 0]
        /\ edit = [b \in Admin |-> IF b = a THEN [NoRequest EXCEPT !.step = "set", !.left = n,
                                                                   !.total = n]
                                            ELSE NoRequest]
  BY DEF AdminInit
<1>3. n \in Nat /\ n \in Qty
  BY NoKeyNoQty DEF Qty
<1>4. [NoRequest EXCEPT !.step = "set", !.left = n, !.total = n].step = "set"
  <2>1. \A e \in Request : [e EXCEPT !.step = "set", !.left = n, !.total = n].step = "set"
    BY DEF Request
  <2> QED
    BY <2>1, NoRequestType
<1>5. \A b \in Admin : edit[b].step # "update"
  BY <1>2, <1>4, NoRequestType
<1> QED
  BY <1>2, <1>3, <1>5 DEF RoomInv, RoomUnlessSqueezed

(***************************************************************************)
(* update checks totalQty against a row that orders may change before the  *)
(* UPDATE: without such an order in between, totalQty always has room for  *)
(* what is sold and reserved.                                              *)
(***************************************************************************)
THEOREM RoomHolds == AdminSpec => []RoomUnlessSqueezed
<1>1. TypeInv /\ RoomInv /\ [AdminNext]_adminVars => TypeInv' /\ RoomInv'
  <2>1. CASE UNCHANGED adminVars
    BY <2>1 DEF adminVars, TypeInv, AdminTypeOK, Counters, RoomInv, RoomUnlessSqueezed
  <2> QED
    BY <2>1, OrdersTypeInv, AdminsTypeInv, OrdersRoom, AdminsRoom, NextCases
<1>2. RoomInv => RoomUnlessSqueezed
  BY DEF RoomInv
<1> QED
  BY <1>1, <1>2, TypeInvInit, RoomInit, PTL DEF AdminSpec

-----------------------------------------------------------------------------
(* The stock key and the orders *)

(* Where an order stands between the two stores: one whose reservation has *)
(* lapsed gave nothing back, and once it is over its ticket is lost to the *)
(* stock.                                                                  *)
Standing(at, gone) ==
    IF gone /\ at \in Over THEN "lost" ELSE IF gone /\ at = "released" THEN "spent" ELSE at

Stands(b, l) == [o \in Buyer |-> [at |-> Standing(b[o].at, o \in l)]]

(* Orders that hold a ticket uncounted, those given back and still counted, *)
(* and those whose ticket is lost.                                         *)
Owing(b, l) == Count(Stands(b, l), Uncounted)
Given(b, l) == Count(Stands(b, l), {"released"})
Lost(b, l) == Count(Stands(b, l), {"lost"})

LeftOf(row) == row.total - row.sold - row.reserved

(* What the stock key of the row should be. *)
FreeOf(row, b, l) == LeftOf(row) - Owing(b, l) - Lost(b, l) + Given(b, l)

Setting == {a \in Admin : edit[a].step = "set"}

(* Before the reserve script: there is no reservation to lapse. *)
Early == {"new", "check", "seed", "ready"}

(***************************************************************************)
(* Once no SET is on its way, the key is there and right; a SET that       *)
(* nothing has overtaken finds no order between the stores and will make   *)
(* the key right; the DEL of a removal comes after the row is gone; and    *)
(* what has lapsed was held.                                               *)
(***************************************************************************)
StockInv ==
    /\ typeRow.there /\ ~ drifted /\ Setting = {} =>
         stockKey # NoKey /\ stockKey = FreeOf(typeRow, buyer, lapsed)
    /\ \A a \in Setting : edit[a].fresh /\ typeRow.there =>
         /\ Owing(buyer, lapsed) = 0 /\ Given(buyer, lapsed) = 0
         /\ edit[a].left = LeftOf(typeRow)
    /\ \A a \in Admin : edit[a].step = "del" => ~ typeRow.there
    /\ \A o \in lapsed : buyer[o].at \notin Early

LEMMA CountsNat ==
    ASSUME NEW b, NEW l
    PROVE  Owing(b, l) \in Nat /\ Given(b, l) \in Nat /\ Lost(b, l) \in Nat
BY CountType DEF Owing, Given, Lost

LEMMA FreeInt ==
    ASSUME NEW row \in Row, NEW b, NEW l
    PROVE  LeftOf(row) \in Int /\ FreeOf(row, b, l) \in Int
<1>1. Owing(b, l) \in Nat /\ Given(b, l) \in Nat /\ Lost(b, l) \in Nat
  BY CountsNat
<1>2. row.total \in Nat /\ row.sold \in Nat /\ row.reserved \in Int
  BY NoKeyNoQty DEF Row
<1> QED
  BY <1>1, <1>2 DEF FreeOf, LeftOf

(* The orders the property counts are those. *)
LEMMA StandsCount ==
    ASSUME AdminTypeOK
    PROVE  /\ Cardinality(Missing) = Owing(buyer, lapsed) + Lost(buyer, lapsed)
           /\ Cardinality(GivenBack) = Given(buyer, lapsed)
<1> DEFINE v == Stands(buyer, lapsed)
           A == At(Uncounted)
           B == lapsed \cap At(Over)
<1>1. A = Among(v, Uncounted) /\ B = Among(v, {"lost"}) /\ A \cap B = {}
      /\ GivenBack = Among(v, {"released"})
  <2>1. \A o \in Buyer : buyer[o].at \notin {"lost", "spent"}
    BY DEF AdminTypeOK, BuyerStep, Uncounted, HasOrderRow, Over
  <2>2. \A o \in Buyer :
          /\ v[o].at \in Uncounted <=> buyer[o].at \in Uncounted
          /\ v[o].at = "lost" <=> o \in lapsed /\ buyer[o].at \in Over
          /\ v[o].at = "released" <=> buyer[o].at = "released" /\ o \notin lapsed
    <3> SUFFICES ASSUME NEW o \in Buyer
                 PROVE  LET x == Standing(buyer[o].at, o \in lapsed)
                        IN  /\ x \in Uncounted <=> buyer[o].at \in Uncounted
                            /\ x = "lost" <=> o \in lapsed /\ buyer[o].at \in Over
                            /\ x = "released" <=> buyer[o].at = "released" /\ o \notin lapsed
      BY DEF Stands
    <3> QED
      BY <2>1 DEF Standing, Uncounted, Over
  <2>3. Uncounted \cap Over = {}
    BY DEF Uncounted, Over
  <2> HIDE DEF v
  <2> QED
    BY <2>2, <2>3 DEF At, Among, GivenBack
<1>2. IsFiniteSet(A) /\ IsFiniteSet(B)
  <2>1. A \subseteq Buyer /\ B \subseteq Buyer
    BY DEF At
  <2> QED
    BY <2>1, AdminAssumption, FS_Subset DEF AdminAssumption
<1>3. Missing = A \cup B
  BY DEF Missing
<1> HIDE DEF A, B, v
<1>4. Cardinality(A \cup B) = Cardinality(A) + Cardinality(B) - Cardinality(A \cap B)
  BY <1>2, FS_Union
<1>5. Cardinality(A \cap B) = 0
  BY <1>1, FS_EmptySet
<1>6. Cardinality(A) \in Nat /\ Cardinality(B) \in Nat
  BY <1>2, FS_CardinalityType
<1>7. Cardinality(A) = Owing(buyer, lapsed) /\ Cardinality(B) = Lost(buyer, lapsed)
      /\ Cardinality(GivenBack) = Given(buyer, lapsed)
  BY <1>1 DEF Owing, Lost, Given, Count, v
<1> QED
  BY <1>3, <1>4, <1>5, <1>6, <1>7

(* An order's step: key and counts change together, and SETs are overtaken *)
(* unless nothing comes between the stores.                                *)
Together(o) ==
    /\ typeRow'.there = typeRow.there /\ (drifted => drifted')
    /\ \/ /\ UNCHANGED <<edit, stockKey>>
          /\ ~ drifted' => FreeOf(typeRow', buyer', lapsed') = FreeOf(typeRow, buyer, lapsed)
          /\ LeftOf(typeRow') = LeftOf(typeRow)
          /\ Owing(buyer', lapsed') <= Owing(buyer, lapsed)
          /\ Given(buyer', lapsed') <= Given(buyer, lapsed)
       \/ /\ Overtake
          /\ typeRow.there /\ stockKey # NoKey /\ ~ drifted' =>
               /\ stockKey' # NoKey
               /\ stockKey' - stockKey =
                    FreeOf(typeRow', buyer', lapsed') - FreeOf(typeRow, buyer, lapsed)

LEMMA TogetherStock ==
    ASSUME TypeInv, TypeInv', StockInv, NEW o \in Buyer, Together(o),
           \A x \in lapsed' : buyer'[x].at \notin Early
    PROVE  StockInv'
<1>1. CASE /\ UNCHANGED <<edit, stockKey>>
           /\ ~ drifted' => FreeOf(typeRow', buyer', lapsed') = FreeOf(typeRow, buyer, lapsed)
           /\ LeftOf(typeRow') = LeftOf(typeRow)
           /\ Owing(buyer', lapsed') <= Owing(buyer, lapsed)
           /\ Given(buyer', lapsed') <= Given(buyer, lapsed)
  <2>1. Owing(buyer', lapsed') \in Nat /\ Given(buyer', lapsed') \in Nat
    BY CountsNat
  <2> QED
    BY <1>1, <2>1 DEF Together, StockInv, Setting
<1>2. CASE /\ Overtake
           /\ typeRow.there /\ stockKey # NoKey /\ ~ drifted' =>
                /\ stockKey' # NoKey
                /\ stockKey' - stockKey =
                     FreeOf(typeRow', buyer', lapsed') - FreeOf(typeRow, buyer, lapsed)
  <2>1. \A a \in Admin : /\ edit'[a].step = edit[a].step
                         /\ edit'[a].step = "set" => ~ edit'[a].fresh
    BY <1>2, OvertakeType DEF TypeInv
  <2>2. Setting' = Setting
    BY <2>1 DEF Setting
  <2>3. \A a \in Setting' : ~ edit'[a].fresh
    BY <2>1 DEF Setting
  <2>4. /\ stockKey \in Int /\ stockKey' \in Int
        /\ FreeOf(typeRow, buyer, lapsed) \in Int /\ FreeOf(typeRow', buyer', lapsed') \in Int
    BY FreeInt DEF TypeInv, AdminTypeOK, NoKey
  <2>5. typeRow'.there /\ ~ drifted' /\ Setting' = {} =>
          stockKey' # NoKey /\ stockKey' = FreeOf(typeRow', buyer', lapsed')
    <3> SUFFICES ASSUME typeRow'.there, ~ drifted', Setting' = {}
                 PROVE  stockKey' # NoKey /\ stockKey' = FreeOf(typeRow', buyer', lapsed')
      OBVIOUS
    <3>1. typeRow.there /\ ~ drifted /\ Setting = {}
      BY <2>2 DEF Together
    <3>2. stockKey # NoKey /\ stockKey = FreeOf(typeRow, buyer, lapsed)
      BY <3>1 DEF StockInv
    <3> QED
      BY <1>2, <2>4, <3>1, <3>2 DEF Together
  <2>6. \A a \in Admin : edit'[a].step = "del" => ~ typeRow'.there
    BY <2>1 DEF StockInv, Together
  <2> QED
    BY <2>3, <2>5, <2>6 DEF StockInv
<1> QED
  BY <1>1, <1>2 DEF Together

(* What a step of one order does to the counts. *)
LEMMA StandsMove ==
    ASSUME AdminTypeOK, NEW o \in Buyer, NEW step \in BuyerStep, NEW n \in Nat,
           Moved(o, step, n), UNCHANGED lapsed,
           NEW old, old = Standing(buyer[o].at, o \in lapsed),
           NEW new, new = Standing(step, o \in lapsed)
    PROVE  /\ Owing(buyer', lapsed') = Owing(buyer, lapsed)
                 - One(old \in Uncounted) + One(new \in Uncounted)
           /\ Given(buyer', lapsed') = Given(buyer, lapsed)
                 - One(old = "released") + One(new = "released")
           /\ Lost(buyer', lapsed') = Lost(buyer, lapsed)
                 - One(old = "lost") + One(new = "lost")
<1> DEFINE c == buyer'
           m == lapsed'
<1>1. c[o].at = step /\ (\A x \in Buyer \ {o} : c[x].at = buyer[x].at) /\ m = lapsed
  BY DEF AdminTypeOK, Moved
<1> HIDE DEF c, m
<1>2. /\ Stands(buyer, lapsed)[o].at = old /\ Stands(c, m)[o].at = new
      /\ \A x \in Buyer \ {o} : Stands(c, m)[x].at = Stands(buyer, lapsed)[x].at
  BY <1>1 DEF Stands
<1>3. ASSUME NEW S
      PROVE  Count(Stands(c, m), S) = Count(Stands(buyer, lapsed), S)
               - (IF old \in S THEN 1 ELSE 0) + (IF new \in S THEN 1 ELSE 0)
  <2> DEFINE v == Stands(buyer, lapsed)
             w == Stands(c, m)
  <2>1. /\ v[o].at = old /\ w[o].at = new
        /\ \A x \in Buyer \ {o} : w[x].at = v[x].at
    BY <1>2
  <2> HIDE DEF v, w
  <2>2. Count(w, S) = Count(v, S) - (IF v[o].at \in S THEN 1 ELSE 0)
                                 + (IF w[o].at \in S THEN 1 ELSE 0)
    BY <2>1, CountMove
  <2> QED
    BY <2>1, <2>2 DEF v, w
<1>4. /\ Owing(c, m) = Owing(buyer, lapsed) - One(old \in Uncounted) + One(new \in Uncounted)
      /\ Given(c, m) = Given(buyer, lapsed) - One(old = "released") + One(new = "released")
      /\ Lost(c, m) = Lost(buyer, lapsed) - One(old = "lost") + One(new = "lost")
  BY <1>3 DEF Owing, Given, Lost, One
<1> QED
  BY <1>4 DEF c, m

(* A step of an order that leaves its reservation key alone. *)
LEMMA GoStands ==
    ASSUME AdminTypeOK, NEW o \in Buyer, NEW step \in BuyerStep, Go(o, step), UNCHANGED lapsed,
           NEW old, old = Standing(buyer[o].at, o \in lapsed),
           NEW new, new = Standing(step, o \in lapsed)
    PROVE  /\ Owing(buyer', lapsed') = Owing(buyer, lapsed)
                 - One(old \in Uncounted) + One(new \in Uncounted)
           /\ Given(buyer', lapsed') = Given(buyer, lapsed)
                 - One(old = "released") + One(new = "released")
           /\ Lost(buyer', lapsed') = Lost(buyer, lapsed)
                 - One(old = "lost") + One(new = "lost")
BY GoMoves, StandsMove

LEMMA EarlyKept ==
    ASSUME TypeInv, StockInv, NEW o \in Buyer, Orders(o)
    PROVE  \A x \in lapsed' : buyer'[x].at \notin Early
<1>1. buyer \in [Buyer -> [at : BuyerStep, seed : Nat]] /\ lapsed \subseteq Buyer
  BY DEF TypeInv, AdminTypeOK
<1>2. CASE Lapse(o)
  BY <1>1, <1>2 DEF Lapse, StockInv, Early, Uncounted
<1>3. CASE UNCHANGED lapsed /\ \E step, n : Moved(o, step, n)
             /\ (o \in lapsed => buyer[o].at \in Early \/ step \notin Early)
  BY <1>1, <1>3 DEF Moved, StockInv
<1>4. ASSUME NEW step, Go(o, step) PROVE Moved(o, step, buyer[o].seed)
  BY <1>4, GoMoves DEF TypeInv
<1>5. CASE CheckTicketType(o) \/ ReadStock(o) \/ SeedStockNx(o) \/ Take(o)
  <2>1. buyer[o].at \in Early /\ UNCHANGED lapsed
    BY <1>5 DEF CheckTicketType, ReadStock, SeedStockNx, Take, Early
  <2>2. \E step, n : Moved(o, step, n)
    BY <1>1, <1>4, <1>5 DEF CheckTicketType, ReadStock, SeedStockNx, Take, Moved
  <2> QED
    BY <1>3, <2>1, <2>2
<1>6. CASE InsertOrder(o) \/ CountOrder(o) \/ PayOrder(o) \/ GiveBack(o)
             \/ \E guarded \in BOOLEAN : UncountOrder(o, guarded)
  <2>1. PICK step : Go(o, step) /\ step \notin Early /\ UNCHANGED lapsed
    <3>1. CASE GiveBack(o)
      <4>1. \/ Go(o, "refused") \/ Go(o, "left") \/ Go(o, "released") \/ Go(o, "ended")
        BY <3>1 DEF GiveBack
      <4> QED
        BY <3>1, <4>1 DEF GiveBack, Early
    <3>2. CASE ~ GiveBack(o)
      BY <1>6, <3>2 DEF InsertOrder, CountOrder, PayOrder, UncountOrder, Early
    <3> QED
      BY <3>1, <3>2
  <2> QED
    BY <1>3, <1>4, <2>1
<1> QED
  BY <1>2, <1>5, <1>6 DEF Orders

LEMMA OrdersTogether ==
    ASSUME TypeInv, StockInv, NEW o \in Buyer, Orders(o)
    PROVE  Together(o)
<1> DEFINE gone == o \in lapsed
           old == Standing(buyer[o].at, gone)
           owing == Owing(buyer, lapsed)
           given == Given(buyer, lapsed)
           lost == Lost(buyer, lapsed)
           left == LeftOf(typeRow)
           owing1 == Owing(buyer', lapsed')
           given1 == Given(buyer', lapsed')
           lost1 == Lost(buyer', lapsed')
           left1 == LeftOf(typeRow')
<1>1. /\ AdminTypeOK /\ stockKey \in Nat \cup {NoKey} /\ stockKey \in Int
      /\ typeRow \in Row /\ typeRow.reserved \in Int /\ typeRow.sold \in Nat
      /\ typeRow.total \in Nat /\ buyer[o].seed \in Nat /\ drifted \in BOOLEAN
  <2>1. /\ AdminTypeOK /\ stockKey \in Nat \cup {NoKey}
        /\ typeRow \in Row /\ typeRow.reserved \in Int /\ typeRow.sold \in Nat
        /\ typeRow.total \in Nat /\ buyer[o].seed \in Nat /\ drifted \in BOOLEAN
    BY NoKeyNoQty DEF TypeInv, AdminTypeOK, Row
  <2> QED
    BY <2>1 DEF NoKey
<1>2. /\ owing \in Nat /\ given \in Nat /\ lost \in Nat /\ left \in Int
      /\ owing1 \in Nat /\ given1 \in Nat /\ lost1 \in Nat
  BY <1>1, CountsNat, FreeInt
<1>3. /\ FreeOf(typeRow, buyer, lapsed) = left - owing - lost + given
      /\ FreeOf(typeRow', buyer', lapsed') = left1 - owing1 - lost1 + given1
  BY DEF FreeOf
<1>4. {"check", "refused", "ready", "seed", "held", "rowed", "undo", "fail", "left",
       "counted", "paid", "released", "lowered", "ended"} \subseteq BuyerStep
  BY DEF BuyerStep, Uncounted, HasOrderRow, Over
<1>5. ASSUME NEW step \in BuyerStep, NEW n \in Nat, Moved(o, step, n), UNCHANGED lapsed
      PROVE  /\ owing1 = owing - One(old \in Uncounted) + One(Standing(step, gone) \in Uncounted)
             /\ given1 = given - One(old = "released") + One(Standing(step, gone) = "released")
             /\ lost1 = lost - One(old = "lost") + One(Standing(step, gone) = "lost")
  BY <1>1, <1>5, StandsMove
<1>6. ASSUME NEW step \in BuyerStep, Go(o, step), UNCHANGED lapsed
      PROVE  /\ owing1 = owing - One(old \in Uncounted) + One(Standing(step, gone) \in Uncounted)
             /\ given1 = given - One(old = "released") + One(Standing(step, gone) = "released")
             /\ lost1 = lost - One(old = "lost") + One(Standing(step, gone) = "lost")
  BY <1>1, <1>6, GoStands
<1>7. typeRow' = typeRow => left1 = left
  OBVIOUS
<1>8. gone => buyer[o].at \notin Early
  BY DEF StockInv
<1> HIDE DEF owing, given, lost, left, owing1, given1, lost1, left1, old, gone
<1>9. ASSUME typeRow'.there = typeRow.there, UNCHANGED <<drifted, edit, stockKey>>,
             left1 = left, owing1 <= owing, given1 <= given,
             left1 - owing1 - lost1 + given1 = left - owing - lost + given
      PROVE  Together(o)
  BY <1>3, <1>9 DEF Together, owing, given, left, owing1, given1, left1
<1>10. ASSUME typeRow'.there = typeRow.there, UNCHANGED drifted, Overtake,
              typeRow.there /\ stockKey # NoKey =>
                /\ stockKey' # NoKey
                /\ stockKey' - stockKey =
                     (left1 - owing1 - lost1 + given1) - (left - owing - lost + given)
       PROVE  Together(o)
  BY <1>3, <1>10 DEF Together
<1>11. CASE CheckTicketType(o)
  <2>1. buyer[o].at = "new" /\ UNCHANGED <<typeRow, drifted, edit, stockKey, lapsed>>
    BY <1>11 DEF CheckTicketType
  <2>2. ~ gone
    BY <1>8, <2>1 DEF Early
  <2>3. PICK step \in {"check", "refused"} : Go(o, step)
    BY <1>11 DEF CheckTicketType
  <2>4. old = "new" /\ Standing(step, gone) = step
    BY <2>1, <2>2 DEF old, Standing
  <2>5. owing1 = owing /\ given1 = given /\ lost1 = lost
    BY <1>2, <1>4, <1>6, <2>1, <2>3, <2>4 DEF One, Uncounted
  <2> QED
    BY <1>2, <1>7, <1>9, <2>1, <2>5
<1>12. CASE InsertOrder(o)
  <2>1. buyer[o].at = "held" /\ UNCHANGED <<typeRow, drifted, edit, stockKey, lapsed>>
    BY <1>12 DEF InsertOrder
  <2>2. PICK step \in {"rowed", "undo"} : Go(o, step)
    BY <1>12 DEF InsertOrder
  <2>3. old = "held" /\ Standing(step, gone) = step
    BY <2>1 DEF old, Standing, Over
  <2>4. owing1 = owing /\ given1 = given /\ lost1 = lost
    BY <1>2, <1>4, <1>6, <2>1, <2>2, <2>3 DEF One, Uncounted
  <2> QED
    BY <1>2, <1>7, <1>9, <2>1, <2>4
<1>14. CASE ReadStock(o) \/ SeedStockNx(o)
  <2>1. PICK step \in {"seed", "ready"}, n \in Nat : Moved(o, step, n)
    <3>1. AtLeastZero(Left) \in Nat
      BY <1>1 DEF AtLeastZero, Left
    <3>2. Go(o, "ready") => Moved(o, "ready", buyer[o].seed)
      BY <1>1, GoMoves
    <3> QED
      BY <1>1, <1>14, <3>1, <3>2 DEF ReadStock, SeedStockNx, Moved
  <2>2. buyer[o].at \in {"check", "seed"} /\ UNCHANGED <<typeRow, drifted, lapsed>>
    BY <1>14 DEF ReadStock, SeedStockNx
  <2>3. old = buyer[o].at /\ Standing(step, gone) = step
    BY <2>1, <2>2 DEF old, Standing, Over
  <2>4. owing1 = owing /\ given1 = given /\ lost1 = lost
    BY <1>2, <1>4, <1>5, <2>1, <2>2, <2>3 DEF One, Uncounted
  <2>5. \/ UNCHANGED <<edit, stockKey>>
        \/ Overtake /\ (stockKey # NoKey => stockKey' = stockKey)
    BY <1>14 DEF ReadStock, SeedStockNx
  <2> QED
    BY <1>1, <1>2, <1>7, <1>9, <1>10, <2>2, <2>4, <2>5
<1>15. CASE Take(o)
  <2>1. buyer[o].at = "ready" /\ UNCHANGED <<typeRow, drifted, lapsed>>
    BY <1>15 DEF Take
  <2>2. old = "ready" /\ ~ gone
    BY <1>8, <2>1 DEF old, Standing, Over, Early
  <2>3. CASE Go(o, "refused") /\ UNCHANGED <<stockKey, edit>>
    <3>1. Standing("refused", gone) = "refused"
      BY <2>2 DEF Standing
    <3>2. owing1 = owing /\ given1 = given /\ lost1 = lost
      BY <1>2, <1>4, <1>6, <2>1, <2>2, <2>3, <3>1 DEF One, Uncounted
    <3> QED
      BY <1>2, <1>7, <1>9, <2>1, <2>3, <3>2
  <2>4. CASE stockKey > 0 /\ stockKey' = stockKey - 1 /\ Go(o, "held") /\ Overtake
    <3>1. Standing("held", gone) = "held"
      BY DEF Standing, Over
    <3>2. owing1 = owing + 1 /\ given1 = given /\ lost1 = lost
      BY <1>2, <1>4, <1>6, <2>1, <2>2, <2>4, <3>1 DEF One, Uncounted
    <3>3. stockKey' - stockKey = 0 - 1 /\ stockKey' # NoKey
      BY <1>1, <2>4 DEF NoKey
    <3> QED
      BY <1>2, <1>7, <1>10, <2>1, <2>4, <3>2, <3>3
  <2> QED
    BY <1>15, <2>3, <2>4 DEF Take
<1>16. CASE CountOrder(o)
  <2>1. buyer[o].at = "rowed" /\ UNCHANGED <<stockKey, drifted, lapsed>>
    BY <1>16 DEF CountOrder
  <2>2. old = "rowed" /\ Standing("fail", gone) = "fail" /\ Standing("counted", gone) = "counted"
    BY <2>1 DEF old, Standing, Over
  <2>3. CASE Go(o, "fail") /\ UNCHANGED <<typeRow, edit>>
    <3>1. owing1 = owing /\ given1 = given /\ lost1 = lost
      BY <1>2, <1>4, <1>6, <2>1, <2>2, <2>3 DEF One, Uncounted
    <3> QED
      BY <1>2, <1>7, <1>9, <2>1, <2>3, <3>1
  <2>4. CASE Go(o, "counted") /\ typeRow' = [typeRow EXCEPT !.reserved = @ + 1] /\ Overtake
    <3>1. /\ typeRow'.there = typeRow.there /\ typeRow'.total = typeRow.total
          /\ typeRow'.sold = typeRow.sold /\ typeRow'.reserved = typeRow.reserved + 1
      BY <1>1, <2>4 DEF Row
    <3>2. left1 = left - 1
      BY <1>1, <3>1 DEF left, left1, LeftOf
    <3>3. owing1 = owing - 1 /\ given1 = given /\ lost1 = lost
      BY <1>2, <1>4, <1>6, <2>1, <2>2, <2>4 DEF One, Uncounted
    <3>4. stockKey' - stockKey = 0
      BY <1>1, <2>1
    <3> QED
      BY <1>2, <1>10, <2>1, <2>4, <3>1, <3>2, <3>3, <3>4
  <2> QED
    BY <1>16, <2>3, <2>4 DEF CountOrder
<1>17. CASE PayOrder(o)
  <2>1. /\ typeRow'.there = typeRow.there /\ typeRow'.total = typeRow.total
        /\ typeRow'.sold = typeRow.sold + 1 /\ typeRow'.reserved = typeRow.reserved - 1
    BY <1>1, <1>17 DEF PayOrder, Row
  <2>2. /\ buyer[o].at \in {"counted", "left"} /\ Go(o, "paid")
        /\ UNCHANGED <<edit, stockKey, lapsed>>
        /\ drifted' = (drifted \/ buyer[o].at = "left")
    BY <1>17 DEF PayOrder, Uncounts
  <2>3. left1 = left
    BY <1>1, <2>1 DEF left, left1, LeftOf
  <2>4. Standing("paid", gone) = "paid"
    BY DEF Standing, Over
  <2>5. CASE buyer[o].at = "counted"
    <3>1. old = "counted"
      BY <2>5 DEF old, Standing, Over
    <3>2. owing1 = owing /\ given1 = given /\ lost1 = lost
      BY <1>2, <1>4, <1>6, <2>2, <2>4, <3>1 DEF One, Uncounted
    <3> QED
      BY <1>1, <1>2, <1>9, <2>1, <2>2, <2>3, <2>5, <3>2
  <2>6. CASE buyer[o].at = "left"
    <3>1. old \in {"lost", "left"}
      BY <2>6 DEF old, Standing, Over
    <3>2. owing1 = owing /\ given1 = given
      BY <1>2, <1>4, <1>6, <2>2, <2>4, <3>1 DEF One, Uncounted
    <3>3. drifted'
      BY <2>2, <2>6
    <3>4. owing1 <= owing /\ given1 <= given
      BY <1>2, <3>2
    <3> QED
      BY <2>1, <2>2, <2>3, <3>3, <3>4 DEF Together, owing, given, left, owing1, given1, left1
  <2> QED
    BY <2>2, <2>5, <2>6
<1>18. CASE GiveBack(o)
  <2>1. UNCHANGED <<typeRow, drifted, lapsed>> /\ Release(o)
    BY <1>18 DEF GiveBack
  <2>2. PICK step \in {"refused", "left", "released", "ended"} :
          /\ Go(o, step) /\ (step = "released" <=> buyer[o].at = "counted")
          /\ buyer[o].at \in {"undo", "fail", "counted", "lowered"}
    BY <1>18 DEF GiveBack
  <2>3. old = buyer[o].at /\ old \in {"undo", "fail", "counted", "lowered"}
    BY <2>2 DEF old, Standing, Over
  <2>4. Standing(step, gone) =
          IF gone THEN IF step = "released" THEN "spent" ELSE "lost" ELSE step
    BY <2>2 DEF Standing, Over
  <2>5. CASE gone
    <3>1. /\ owing1 = owing - One(buyer[o].at # "counted") /\ given1 = given
          /\ lost1 = lost + One(buyer[o].at # "counted")
      <4>1. CASE step = "released"
        <5>1. Standing(step, gone) = "spent" /\ old = "counted"
          BY <2>2, <2>3, <2>4, <2>5, <4>1
        <5> QED
          BY <1>2, <1>4, <1>6, <2>1, <2>2, <2>3, <5>1 DEF One, Uncounted
      <4>2. CASE step # "released"
        <5>1. Standing(step, gone) = "lost" /\ old \in {"undo", "fail", "lowered"}
          BY <2>2, <2>3, <2>4, <2>5, <4>2
        <5> QED
          BY <1>2, <1>4, <1>6, <2>1, <2>2, <2>3, <5>1 DEF One, Uncounted
      <4> QED
        BY <4>1, <4>2
    <3>2. UNCHANGED <<stockKey, edit>>
      BY <2>1, <2>5 DEF Release, gone
    <3> QED
      BY <1>2, <1>7, <1>9, <2>1, <3>1, <3>2 DEF One
  <2>6. CASE ~ gone
    <3>1. /\ owing1 = owing - One(buyer[o].at # "counted")
          /\ given1 = given + One(buyer[o].at = "counted") /\ lost1 = lost
      BY <1>2, <1>4, <1>6, <2>1, <2>2, <2>3, <2>4, <2>6 DEF One, Uncounted
    <3>2. /\ Overtake
          /\ stockKey # NoKey => stockKey' - stockKey = 1 /\ stockKey' # NoKey
      BY <1>1, <2>1, <2>6 DEF Release, gone, AtLeastZero, NoKey
    <3> QED
      BY <1>2, <1>7, <1>10, <2>1, <3>1, <3>2 DEF One
  <2> QED
    BY <2>5, <2>6
<1>19. ASSUME NEW guarded \in BOOLEAN, UncountOrder(o, guarded) PROVE Together(o)
  <2> DEFINE p == IF guarded /\ typeRow.reserved < 1 THEN typeRow.reserved
                                                     ELSE typeRow.reserved - 1
  <2>1. /\ typeRow'.there = typeRow.there /\ typeRow'.total = typeRow.total
        /\ typeRow'.sold = typeRow.sold /\ typeRow'.reserved = p
    BY <1>1, <1>19 DEF UncountOrder, Row
  <2>2. /\ UNCHANGED <<stockKey, lapsed>> /\ Overtake
        /\ drifted' = (drifted \/ buyer[o].at = "left")
        /\ buyer[o].at \in {"counted", "released", "left"}
    BY <1>19 DEF UncountOrder, Uncounts
  <2>3. CASE drifted'
    BY <2>1, <2>2, <2>3 DEF Together
  <2>4. CASE ~ drifted'
    <3>1. ~ drifted /\ UNCHANGED drifted /\ buyer[o].at \in {"counted", "released"}
      BY <1>1, <2>2, <2>4
    <3>2. typeRow'.reserved = typeRow.reserved - 1
      <4>1. typeRow.reserved >= 1
        BY <3>1, CountedOnce DEF OnHand
      <4> QED
        BY <1>1, <2>1, <4>1
    <3>3. left1 = left + 1 /\ stockKey' - stockKey = 0
      BY <1>1, <2>1, <2>2, <3>2 DEF left, left1, LeftOf
    <3>4. CASE buyer[o].at = "counted"
      <4>1. Go(o, "lowered")
        BY <1>19, <3>4 DEF UncountOrder
      <4>2. old = "counted" /\ Standing("lowered", gone) = "lowered"
        BY <3>4 DEF old, Standing, Over
      <4>3. owing1 = owing + 1 /\ given1 = given /\ lost1 = lost
        BY <1>2, <1>4, <1>6, <2>2, <4>1, <4>2 DEF One, Uncounted
      <4> QED
        BY <1>2, <1>10, <2>1, <2>2, <3>1, <3>3, <4>3
    <3>5. CASE buyer[o].at = "released"
      <4>1. PICK step \in {"ended", "left"} : Go(o, step)
        BY <1>19, <3>5 DEF UncountOrder
      <4>2. /\ old = IF gone THEN "spent" ELSE "released"
            /\ Standing(step, gone) = IF gone THEN "lost" ELSE step
        BY <3>5, <4>1 DEF old, Standing, Over
      <4>3. owing1 = owing /\ given1 = given - One(~ gone) /\ lost1 = lost + One(gone)
        BY <1>2, <1>4, <1>6, <2>2, <4>1, <4>2 DEF One, Uncounted
      <4> QED
        BY <1>2, <1>10, <2>1, <2>2, <3>1, <3>3, <4>3 DEF One
    <3> QED
      BY <3>1, <3>4, <3>5
  <2> QED
    BY <2>3, <2>4
<1>20. CASE Lapse(o)
  <2>1. /\ buyer[o].at \in Uncounted \cup {"counted"} /\ lapsed' = lapsed \cup {o}
        /\ UNCHANGED <<typeRow, drifted, edit, stockKey, buyer>>
    BY <1>20 DEF Lapse
  <2>2. Stands(buyer', lapsed') = Stands(buyer, lapsed)
    <3>1. \A x \in Buyer : Standing(buyer[x].at, x \in lapsed') = Standing(buyer[x].at, x \in lapsed)
      BY <2>1 DEF Standing, Over, Uncounted
    <3> QED
      BY <2>1, <3>1 DEF Stands
  <2>3. owing1 = owing /\ given1 = given /\ lost1 = lost
    BY <2>2 DEF owing, given, lost, owing1, given1, lost1, Owing, Given, Lost
  <2> QED
    BY <1>2, <1>7, <1>9, <2>1, <2>3
<1> QED
  BY <1>11, <1>12, <1>14, <1>15, <1>16, <1>17, <1>18, <1>19, <1>20 DEF Orders

(* The requests and the key after an admin action that starts no SET. *)
LEMMA AdminStock ==
    ASSUME TypeInv, StockInv, NEW a \in Admin,
           edit'[a].step # "set", edit'[a].step = "del" => ~ typeRow'.there,
           \A b \in Admin \ {a} : edit'[b] = edit[b],
           edit[a].step = "set" => drifted',
           drifted => drifted',
           typeRow'.there => typeRow.there /\ stockKey' = stockKey,
           LeftOf(typeRow') = LeftOf(typeRow), UNCHANGED <<buyer, lapsed>>
    PROVE  StockInv'
<1>1. \A b \in Setting' : b # a /\ b \in Setting /\ edit'[b] = edit[b]
  BY DEF Setting
<1>2. Setting' = {} /\ ~ drifted' => Setting = {}
  BY DEF Setting
<1>3. typeRow'.there /\ ~ drifted' /\ Setting' = {} =>
        stockKey' # NoKey /\ stockKey' = FreeOf(typeRow', buyer', lapsed')
  BY <1>2 DEF StockInv, FreeOf
<1>4. \A b \in Setting' : edit'[b].fresh /\ typeRow'.there =>
        /\ Owing(buyer', lapsed') = 0 /\ Given(buyer', lapsed') = 0
        /\ edit'[b].left = LeftOf(typeRow')
  BY <1>1 DEF StockInv
<1>5. \A b \in Admin : edit'[b].step = "del" => ~ typeRow'.there
  BY DEF StockInv
<1> QED
  BY <1>3, <1>4, <1>5 DEF StockInv

LEMMA WriteRowStock ==
    ASSUME TypeInv, TypeInv', StockInv, NEW a \in Admin, WriteRow(a)
    PROVE  StockInv'
<1>1. /\ edit \in [Admin -> Request] /\ typeRow \in Row
      /\ typeRow.reserved \in Int /\ typeRow.sold \in Nat /\ typeRow.total \in Nat
  BY NoKeyNoQty DEF TypeInv, AdminTypeOK, Row
<1>2. edit[a].step = "update" /\ UNCHANGED <<stockKey, buyer, lapsed, drifted>>
  BY WriteRowCases
<1>3. CASE edit' = [edit EXCEPT ![a] = NoRequest] /\ UNCHANGED typeRow
  <2>1. edit'[a].step = "idle" /\ \A b \in Admin \ {a} : edit'[b] = edit[b]
    BY <1>1, <1>3, NoRequestType
  <2>2. LeftOf(typeRow') = LeftOf(typeRow)
    BY <1>3
  <2> QED
    BY <1>2, <1>3, <2>1, <2>2, AdminStock
<1>4. ASSUME NEW active \in BOOLEAN, NEW total \in TotalQty, Rewritten(a, active, total)
      PROVE  StockInv'
  <2> DEFINE left == total - typeRow.sold - typeRow.reserved
             step == IF edit[a].total = NoKey THEN "close" ELSE "set"
             fresh == At(Uncounted \cup {"released"}) = {}
             r == [typeRow EXCEPT !.total = total, !.active = active]
  <2>1. left \in Int /\ step \in {"close", "set"} /\ fresh \in BOOLEAN /\ total \in Nat
    BY <1>1, NoKeyNoQty
  <2>2. edit' = [b \in Admin |-> IF b = a THEN Written(edit[a], step, left, fresh)
                                          ELSE Obsolete(edit[b])]
    BY <1>4 DEF Rewritten
  <2>3. typeRow' = r /\ typeRow.there
    BY <1>4 DEF Rewritten
  <2>4. /\ r.there = typeRow.there /\ r.total = total /\ r.sold = typeRow.sold
        /\ r.reserved = typeRow.reserved
    <3>1. typeRow \in Row
      BY <1>1
    <3> QED
      BY ONLY <3>1, SMTT(30) DEF Row
  <2>5. fresh => Owing(buyer, lapsed) = 0 /\ Given(buyer, lapsed) = 0
    <3> DEFINE v == Stands(buyer, lapsed)
    <3>1. \A o \in Buyer : /\ v[o].at \in Uncounted => buyer[o].at \in Uncounted
                           /\ v[o].at = "released" => buyer[o].at = "released"
      <4>1. \A at, gone : /\ Standing(at, gone) \in Uncounted => at \in Uncounted
                          /\ Standing(at, gone) = "released" => at = "released"
        BY DEF Standing, Uncounted
      <4> QED
        BY <4>1 DEF Stands
    <3> HIDE DEF v
    <3>2. fresh => Among(v, Uncounted) = {} /\ Among(v, {"released"}) = {}
      BY <3>1 DEF At, Among
    <3> QED
      BY <3>2, CountNone DEF Owing, Given, v
  <2>6. edit[a].total = NoKey => total = typeRow.total
    BY <1>4 DEF Rewritten
  <2> HIDE DEF r
  <2>7. left = LeftOf(r)
    BY <2>4 DEF LeftOf
  <2>8. edit[a].total = NoKey => LeftOf(r) = LeftOf(typeRow)
    BY <2>4, <2>6 DEF LeftOf
  <2>9. step = "set" <=> edit[a].total # NoKey
    OBVIOUS
  <2> DEFINE e == Written(edit[a], step, left, fresh)
  <2> HIDE DEF left, step, fresh
  <2>10. e.step = step /\ e.left = left /\ e.fresh = fresh
    BY <1>1, <2>1, WrittenType
  <2> HIDE DEF e
  <2>11. edit'[a] = e /\ \A b \in Admin \ {a} : edit'[b] = Obsolete(edit[b])
    BY <2>2 DEF e
  <2>12. \A b \in Admin \ {a} : /\ edit'[b].step = edit[b].step
                                /\ edit'[b].step = "set" => ~ edit'[b].fresh
    BY <1>1, <2>11, ObsoleteType
  <2>13. typeRow'.there /\ ~ drifted' /\ Setting' = {} =>
           stockKey' # NoKey /\ stockKey' = FreeOf(typeRow', buyer', lapsed')
    <3> SUFFICES ASSUME ~ drifted', Setting' = {}
                 PROVE  stockKey' # NoKey /\ stockKey' = FreeOf(typeRow', buyer', lapsed')
      OBVIOUS
    <3>1. step = "close"
      BY <2>1, <2>10, <2>11 DEF Setting
    <3>2. Setting = {}
      BY <1>2, <2>12 DEF Setting
    <3>3. FreeOf(typeRow', buyer', lapsed') = FreeOf(typeRow, buyer, lapsed)
      BY <1>2, <2>3, <2>8, <2>9, <3>1 DEF FreeOf
    <3> QED
      BY <1>2, <2>3, <3>2, <3>3 DEF StockInv
  <2>14. \A b \in Setting' : edit'[b].fresh /\ typeRow'.there =>
           /\ Owing(buyer', lapsed') = 0 /\ Given(buyer', lapsed') = 0
           /\ edit'[b].left = LeftOf(typeRow')
    BY <1>2, <2>3, <2>5, <2>7, <2>10, <2>11, <2>12 DEF Setting
  <2>15. \A b \in Admin : edit'[b].step = "del" => ~ typeRow'.there
    BY <2>1, <2>3, <2>4, <2>10, <2>11, <2>12 DEF StockInv
  <2>16. \A x \in lapsed' : buyer'[x].at \notin Early
    BY <1>2 DEF StockInv
  <2> QED
    BY <2>13, <2>14, <2>15, <2>16 DEF StockInv
<1> QED
  BY <1>3, <1>4, WriteRowCases

LEMMA SetStockStock ==
    ASSUME TypeInv, TypeInv', StockInv, NEW a \in Admin, SetStock(a)
    PROVE  StockInv'
<1>1. edit \in [Admin -> Request] /\ edit[a].left \in Int /\ edit[a].fresh \in BOOLEAN
  BY DEF TypeInv, AdminTypeOK, Request
<1>2. /\ edit[a].step = "set" /\ UNCHANGED <<typeRow, buyer>>
      /\ stockKey' = AtLeastZero(edit[a].left)
      /\ drifted' = (drifted \/ ~ edit[a].fresh \/ edit[a].left < 0)
  BY DEF SetStock, NewStock
<1>3. [NoRequest EXCEPT !.step = "close", !.left = edit[a].left].step = "close"
  BY <1>1, ClosingType
<1>4. edit'[a].step = "close" /\ \A b \in Admin \ {a} : edit'[b] = Obsolete(edit[b])
  BY <1>3 DEF SetStock
<1>5. \A b \in Admin \ {a} : /\ edit'[b].step = edit[b].step
                             /\ edit'[b].step = "set" => ~ edit'[b].fresh
  BY <1>1, <1>4, ObsoleteType
<1>6. typeRow'.there /\ ~ drifted' =>
        stockKey' # NoKey /\ stockKey' = FreeOf(typeRow', buyer', lapsed')
  <2> SUFFICES ASSUME typeRow.there, ~ drifted'
               PROVE  stockKey' # NoKey /\ stockKey' = FreeOf(typeRow, buyer, lapsed')
    BY <1>2
  <2>1. edit[a].fresh /\ ~ (edit[a].left < 0)
    BY <1>2
  <2>2. /\ edit[a].left = LeftOf(typeRow)
        /\ Owing(buyer, lapsed) = 0 /\ Given(buyer, lapsed) = 0
    BY <1>2, <2>1 DEF StockInv, Setting
  <2>3. lapsed' = lapsed \ At(Over)
    BY DEF SetStock
  <2>4. \A o \in Buyer :
          /\ Stands(buyer, lapsed')[o].at \in Uncounted <=> Stands(buyer, lapsed)[o].at \in Uncounted
          /\ Stands(buyer, lapsed')[o].at = "released" <=> Stands(buyer, lapsed)[o].at = "released"
          /\ Stands(buyer, lapsed')[o].at # "lost"
    <3> SUFFICES ASSUME NEW o \in Buyer
                 PROVE  LET x == Standing(buyer[o].at, o \in lapsed')
                            y == Standing(buyer[o].at, o \in lapsed)
                        IN  /\ x \in Uncounted <=> y \in Uncounted
                            /\ x = "released" <=> y = "released"
                            /\ x # "lost"
      BY DEF Stands
    <3>1. o \in lapsed' <=> o \in lapsed /\ buyer[o].at \notin Over
      BY <2>3 DEF At
    <3>2. buyer[o].at # "lost"
      BY DEF TypeInv, AdminTypeOK, BuyerStep, Uncounted, HasOrderRow, Over
    <3> QED
      BY <3>1, <3>2 DEF Standing, Uncounted, Over
  <2>5. /\ Owing(buyer, lapsed') = 0 /\ Given(buyer, lapsed') = 0 /\ Lost(buyer, lapsed') = 0
    <3>1. /\ Among(Stands(buyer, lapsed'), Uncounted) = Among(Stands(buyer, lapsed), Uncounted)
          /\ Among(Stands(buyer, lapsed'), {"released"}) = Among(Stands(buyer, lapsed), {"released"})
          /\ Among(Stands(buyer, lapsed'), {"lost"}) = {}
      BY <2>4 DEF Among
    <3> QED
      BY <2>2, <3>1, CountNone DEF Owing, Given, Lost, Count
  <2>6. FreeOf(typeRow, buyer, lapsed') = LeftOf(typeRow)
    BY <1>1, <2>2, <2>5 DEF FreeOf
  <2> QED
    BY <1>1, <1>2, <2>1, <2>2, <2>6 DEF AtLeastZero, NoKey
<1>7. \A b \in Setting' : ~ edit'[b].fresh
  BY <1>4, <1>5 DEF Setting
<1>8. \A b \in Admin : edit'[b].step = "del" => ~ typeRow'.there
  BY <1>2, <1>4, <1>5 DEF StockInv
<1>9. \A x \in lapsed' : buyer'[x].at \notin Early
  BY <1>2 DEF SetStock, StockInv
<1> QED
  BY <1>6, <1>7, <1>8, <1>9 DEF StockInv

LEMMA AdminsStock ==
    ASSUME TypeInv, TypeInv', StockInv, NEW a \in Admin, Admins(a)
    PROVE  StockInv'
<1>1. /\ edit \in [Admin -> Request] /\ edit[a] \in Request /\ typeRow \in Row
      /\ drifted \in BOOLEAN
  BY DEF TypeInv, AdminTypeOK
<1>2. NoRequest.step = "idle"
  BY NoRequestType
<1>3. ASSUME edit' = [edit EXCEPT ![a] = edit'[a]], edit'[a].step # "set",
             edit'[a].step = "del" => ~ typeRow'.there,
             edit[a].step = "set" => drifted', drifted => drifted',
             typeRow'.there => typeRow.there /\ stockKey' = stockKey,
             UNCHANGED <<buyer, lapsed>>,
             typeRow'.sold = typeRow.sold, typeRow'.reserved = typeRow.reserved,
             typeRow'.total = typeRow.total
      PROVE  StockInv'
  <2>1. LeftOf(typeRow') = LeftOf(typeRow)
    BY <1>3 DEF LeftOf
  <2>2. \A b \in Admin \ {a} : edit'[b] = edit[b]
    BY <1>1, <1>3
  <2> QED
    BY <1>3, <2>1, <2>2, AdminStock
<1>4. ASSUME NEW n \in Qty, NEW reopen \in BOOLEAN, StartEdit(a, n, reopen)
      PROVE  StockInv'
  <2> DEFINE r == EditOf(n, reopen, typeRow.sold + typeRow.reserved)
  <2>1. edit' = [edit EXCEPT ![a] = r] /\ edit[a].step = "idle"
    BY <1>4 DEF StartEdit, EditOf
  <2>2. r.step = "update"
    <3>1. typeRow.sold + typeRow.reserved \in Int
      BY <1>1 DEF Row
    <3> QED
      BY <3>1, EditOfType
  <2> HIDE DEF r
  <2> QED
    BY <1>1, <1>3, <1>4, <2>1, <2>2 DEF StartEdit
<1>5. CASE CloseIfSoldOut(a)
  <2>1. /\ typeRow'.sold = typeRow.sold /\ typeRow'.reserved = typeRow.reserved
        /\ typeRow'.total = typeRow.total /\ typeRow'.there = typeRow.there
    BY <1>1, <1>5 DEF CloseIfSoldOut, Row
  <2> QED
    BY <1>1, <1>2, <1>3, <1>5, <2>1 DEF CloseIfSoldOut
<1>6. CASE StartRemove(a)
  <2>1. [NoRequest EXCEPT !.step = "delete"].step = "delete"
    <3>1. \A e \in Request : [e EXCEPT !.step = "delete"].step = "delete"
      BY DEF Request
    <3> QED
      BY <3>1, NoRequestType
  <2> QED
    BY <1>1, <1>3, <1>6, <2>1 DEF StartRemove
<1>7. CASE DeleteRow(a)
  <2>1. LET r == [typeRow EXCEPT !.there = FALSE]
        IN  /\ r.total = typeRow.total /\ r.sold = typeRow.sold
            /\ r.reserved = typeRow.reserved /\ ~ r.there
    BY <1>1 DEF Row
  <2>2. CASE /\ typeRow' = [typeRow EXCEPT !.there = FALSE]
             /\ edit' = [edit EXCEPT ![a].step = "del"]
    BY <1>1, <1>3, <1>7, <2>1, <2>2 DEF DeleteRow, Request
  <2>3. CASE UNCHANGED typeRow /\ edit' = [edit EXCEPT ![a] = NoRequest]
    BY <1>1, <1>2, <1>3, <1>7, <2>3 DEF DeleteRow
  <2> QED
    BY <1>7, <2>2, <2>3 DEF DeleteRow
<1>8. CASE DelStock(a)
  <2>1. ~ typeRow.there
    BY <1>8 DEF DelStock, StockInv
  <2> QED
    BY <1>1, <1>2, <1>3, <1>8, <2>1 DEF DelStock
<1>9. CASE AdminCrash(a)
  BY <1>1, <1>2, <1>3, <1>9 DEF AdminCrash
<1> QED
  BY <1>4, <1>5, <1>6, <1>7, <1>8, <1>9, WriteRowStock, SetStockStock DEF Admins

LEMMA StockInit == AdminInit => StockInv
<1> SUFFICES ASSUME AdminInit PROVE StockInv
  OBVIOUS
<1>1. PICK n \in TotalQty, a \in Admin :
        /\ typeRow = [there |-> TRUE, active |-> TRUE, total |-> n,
                      sold |-> 0, reserved |-> 0]
        /\ edit = [b \in Admin |-> IF b = a THEN [NoRequest EXCEPT !.step = "set", !.left = n,
                                                                   !.total = n]
                                            ELSE NoRequest]
  BY DEF AdminInit
<1>2. n \in Nat
  BY NoKeyNoQty
<1>3. \A e \in Request :
        LET r == [e EXCEPT !.step = "set", !.left = n, !.total = n]
        IN  r.step = "set" /\ r.left = n
  BY DEF Request
<1>4. edit[a].step = "set" /\ edit[a].left = n
  BY <1>1, <1>3, NoRequestType
<1>5. \A b \in Admin : b # a => edit[b].step = "idle"
  BY <1>1, NoRequestType
<1>6. Owing(buyer, lapsed) = 0 /\ Given(buyer, lapsed) = 0
  <2>1. /\ Among(Stands(buyer, lapsed), Uncounted) = {}
        /\ Among(Stands(buyer, lapsed), {"released"}) = {}
    BY DEF AdminInit, Among, Stands, Standing, Uncounted
  <2> QED
    BY <2>1, CountNone DEF Owing, Given
<1>7. LeftOf(typeRow) = n
  BY <1>1, <1>2 DEF LeftOf
<1>8. Setting = {a}
  BY <1>4, <1>5 DEF Setting
<1>9. lapsed = {}
  BY DEF AdminInit
<1> QED
  BY <1>4, <1>5, <1>6, <1>7, <1>8, <1>9 DEF StockInv

(***************************************************************************)
(* The Redis stock and the PostgreSQL row are set by different awaits of   *)
(* an edit, and orders change both in different steps: unless an edit's    *)
(* SET overtakes an order's step, or never comes, the key is what the row  *)
(* has left, corrected by the orders that are between the two.             *)
(***************************************************************************)
THEOREM StockHolds == AdminSpec => []StockUnlessDrifted
<1>1. TypeInv /\ StockInv /\ [AdminNext]_adminVars => TypeInv' /\ StockInv'
  <2>1. CASE UNCHANGED adminVars
    BY <2>1 DEF adminVars, TypeInv, AdminTypeOK, Counters, StockInv, Setting
  <2> QED
    BY <2>1, OrdersTypeInv, AdminsTypeInv, OrdersTogether, EarlyKept, TogetherStock,
       AdminsStock, NextCases
<1>2. TypeInv /\ StockInv => StockUnlessDrifted
  <2> SUFFICES ASSUME TypeInv, StockInv, typeRow.there, ~ drifted, Setting = {}
               PROVE  stockKey = Left - Cardinality(Missing) + Cardinality(GivenBack)
    BY DEF StockUnlessDrifted, Setting
  <2>1. stockKey = LeftOf(typeRow) - Owing(buyer, lapsed) - Lost(buyer, lapsed)
                     + Given(buyer, lapsed)
    BY DEF StockInv, FreeOf
  <2>2. typeRow \in Row
    BY DEF TypeInv, AdminTypeOK
  <2>3. LeftOf(typeRow) \in Int
    BY <2>2, FreeInt
  <2>4. Left = LeftOf(typeRow)
    BY DEF Left, LeftOf
  <2> QED
    BY <2>1, <2>3, <2>4, CountsNat, StandsCount DEF TypeInv
<1> QED
  BY <1>1, <1>2, TypeInvInit, StockInit, PTL DEF AdminSpec

-----------------------------------------------------------------------------
(* Gates and the tickets at them. *)

(***************************************************************************)
(* A finite set of numbers in ascending order.                             *)
(***************************************************************************)
Ordered(f, S) ==
    /\ f \in [1..Cardinality(S) -> S]
    /\ \A i, j \in 1..Cardinality(S) : i < j => f[i] < f[j]

(* There is such an order: the greatest element comes last. *)
LEMMA OrderExists ==
    ASSUME NEW S, IsFiniteSet(S), S \subseteq Int
    PROVE  \E f : Ordered(f, S)
<1> DEFINE Bad == {X \in SUBSET S : \A f : ~ Ordered(f, X)}
<1>1. SUFFICES ASSUME Bad # {} PROVE FALSE
  OBVIOUS
<1>2. PICK X \in Bad : \A Y \in Bad : Y \subseteq X => Y = X
  <2>1. Bad \subseteq SUBSET S
    OBVIOUS
  <2> HIDE DEF Bad
  <2> QED
    BY ONLY IsFiniteSet(S), <1>1, <2>1, SmallestSubset
<1>3. IsFiniteSet(X) /\ X \subseteq Int /\ Cardinality(X) \in Nat
  BY <1>2, FS_Subset, FS_CardinalityType
<1>4. X # {}
  <2>1. Ordered([i \in {} |-> 0], {})
    BY FS_EmptySet DEF Ordered
  <2> QED
    BY <1>2, <2>1
<1>5. PICK z \in X : \A y \in X : z >= y
  BY <1>3, <1>4, GreatestExists
<1> DEFINE R == X \ {z}
           n == Cardinality(R)
<1>6. n \in Nat /\ Cardinality(X) = n + 1 /\ IsFiniteSet(R)
  <2>1. IsFiniteSet(X \ {z}) /\ Cardinality(X \ {z}) = Cardinality(X) - 1
    BY <1>3, <1>5, FS_RemoveElement
  <2>2. Cardinality(X \ {z}) \in Nat
    BY <2>1, FS_CardinalityType
  <2> QED
    BY <1>3, <2>1, <2>2
<1>7. PICK f : Ordered(f, R)
  <2>1. R \in SUBSET S /\ R \subseteq X /\ R # X
    BY <1>2, <1>5
  <2> QED
    BY <1>2, <2>1
<1> DEFINE g == [i \in 1..(n + 1) |-> IF i = n + 1 THEN z ELSE f[i]]
<1>8. f \in [1..n -> R] /\ \A i, j \in 1..n : i < j => f[i] < f[j]
  BY <1>7 DEF Ordered
<1> HIDE DEF n
<1>9. ASSUME NEW i \in 1..n PROVE f[i] \in X /\ f[i] # z /\ f[i] < z
  <2>1. f[i] \in X /\ f[i] # z
    BY <1>8
  <2>2. f[i] \in Int /\ z \in Int /\ z >= f[i]
    BY <1>3, <1>5, <2>1
  <2> QED
    BY <2>1, <2>2
<1>10. g \in [1..(n + 1) -> X]
  BY <1>5, <1>6, <1>9
<1>11. \A i, j \in 1..(n + 1) : i < j => g[i] < g[j]
  BY <1>6, <1>8, <1>9
<1>12. Ordered(g, X)
  BY <1>6, <1>10, <1>11 DEF Ordered
<1> QED
  BY <1>2, <1>12

(* It lists every element once. *)
LEMMA AscendingIs ==
    ASSUME NEW S, IsFiniteSet(S), S \subseteq Int
    PROVE  /\ Ascending(S) \in Seq(S)
           /\ Len(Ascending(S)) = Cardinality(S) /\ Cardinality(S) \in Nat
           /\ \A i, j \in 1..Len(Ascending(S)) : i < j => Ascending(S)[i] < Ascending(S)[j]
           /\ ToSet(Ascending(S)) = S
<1> DEFINE f == Ascending(S)
           n == Cardinality(S)
<1>1. n \in Nat
  BY FS_CardinalityType
<1>2. f = CHOOSE h \in [1..n -> S] : \A i, j \in 1..n : i < j => h[i] < h[j]
  BY DEF Ascending
<1>3. PICK h : Ordered(h, S)
  BY OrderExists
<1>4. f \in [1..n -> S] /\ \A i, j \in 1..n : i < j => f[i] < f[j]
  BY <1>2, <1>3 DEF Ordered
<1> HIDE DEF f, n
<1>5. f \in Seq(S) /\ Len(f) = n
  BY <1>1, <1>4
<1>6. f \in Injection(1..n, S)
  <2>1. ASSUME NEW i \in 1..n, NEW j \in 1..n, f[i] = f[j] PROVE i = j
    <3>1. f[i] \in Int /\ f[j] \in Int
      BY <1>4
    <3>2. ~ (f[i] < f[j]) /\ ~ (f[j] < f[i])
      BY <2>1, <3>1
    <3>3. ~ (i < j) /\ ~ (j < i)
      BY <1>4, <3>2
    <3> QED
      BY <1>1, <3>3
  <2> QED
    BY <1>4, <2>1 DEF Injection, IsInjective
<1>7. Cardinality(1..n) = n
  BY <1>1, FS_Interval
<1>8. f \in Surjection(1..n, S)
  BY <1>6, <1>7, FS_Injection DEF n
<1>9. ToSet(f) = S
  BY <1>1, <1>4, <1>8 DEF ToSet, Surjection
<1> QED
  BY <1>1, <1>4, <1>5, <1>9 DEF f, n

(* Of N in turn, no two of L get numbers that differ by more than one. *)
LEMMA TurnsEven ==
    ASSUME NEW L \in Nat, L > 0, NEW N \in Nat, NEW a \in 0..(L - 1), NEW b \in 0..(L - 1)
    PROVE  Cardinality({j \in 1..N : (j - 1) % L = a})
             - Cardinality({j \in 1..N : (j - 1) % L = b}) <= 1
<1> DEFINE A == {j \in 1..N : (j - 1) % L = a}
           B == {j \in 1..N : (j - 1) % L = b}
           A0 == A \ {a + 1}
           f == [j \in A0 |-> j - L - a + b]
<1>1. IsFiniteSet(A) /\ IsFiniteSet(B) /\ IsFiniteSet(A0)
  <2>1. IsFiniteSet(1..N)
    BY FS_Interval
  <2>2. A \in SUBSET (1..N) /\ B \in SUBSET (1..N) /\ A0 \in SUBSET (1..N)
    OBVIOUS
  <2> HIDE DEF A, B, A0
  <2> QED
    BY <2>1, <2>2, FS_Subset
<1>2. Cardinality(A) \in Nat /\ Cardinality(B) \in Nat /\ Cardinality(A0) \in Nat
  BY <1>1, FS_CardinalityType
<1>3. ASSUME NEW j \in A0 PROVE f[j] \in B
  <2> DEFINE q == (j - 1) \div L
  <2>1. j \in 1..N /\ j - 1 \in Nat /\ (j - 1) % L = a /\ j # a + 1
    OBVIOUS
  <2>2. q \in Nat /\ j - 1 = (L * q) + a
    BY <2>1
  <2> HIDE DEF q
  <2>3. q # 0
    BY <2>1, <2>2
  <2>4. PICK p \in Nat : q = p + 1
    BY <2>2, <2>3
  <2>5. L * q = (p * L) + L
    BY <2>4
  <2>6. f[j] - 1 = (p * L) + b
    BY <2>2, <2>5
  <2>7. ((p * L) + b) % L = b
    BY <2>4
  <2>8. p * L \in Nat
    BY <2>4
  <2> QED
    BY <2>1, <2>2, <2>5, <2>6, <2>7, <2>8
<1>4. f \in Injection(A0, B)
  <2>1. f \in [A0 -> B]
    <3> HIDE DEF B
    <3> QED
      BY <1>3
  <2>2. ASSUME NEW i \in A0, NEW j \in A0, f[i] = f[j] PROVE i = j
    <3>1. i \in Int /\ j \in Int
      OBVIOUS
    <3>2. i - L - a + b = j - L - a + b
      <4> HIDE DEF A0
      <4> QED
        BY <2>2
    <3> QED
      BY <3>1, <3>2
  <2> HIDE DEF A0, B, f
  <2> QED
    BY <2>1, <2>2 DEF Injection, IsInjective
<1>5. Cardinality(A0) <= Cardinality(B)
  BY <1>1, <1>4, FS_Injection
<1>6. Cardinality(A) <= Cardinality(A0) + 1
  <2> HIDE DEF A
  <2> QED
    BY <1>1, <1>2, FS_RemoveElement
<1> HIDE DEF A, B, A0
<1>7. Cardinality(A) - Cardinality(B) <= 1
  BY <1>2, <1>5, <1>6
<1> QED
  BY <1>7 DEF A, B

-----------------------------------------------------------------------------
(* The calls that change gates or tickets' gates. *)
Changing == Running \ Scanning

(* What a call's fields are at its step, whatever runs beside it. *)
Fit(r) ==
    \/ r = NoCall
    \/ r.op = "rename" /\ r.step \in {"name", "find", "move"} /\ r.gate \in Gate /\ r.to \in Name
    \/ r.op = "remove" /\ r.step \in {"count", "target", "find", "move", "delete"} /\ r.gate \in Gate
    \/ /\ r.op = "rebalance" /\ r.step \in {"list", "compare", "apply"} /\ r.gate \in Gate
       /\ r.names # <<>> /\ (r.step = "apply" => r.plan # <<>>)
    \/ r.op = "issue" /\ r.step = "create" /\ Len(r.list) = 1
    \/ r.op = "scan" /\ r.step = "checkin" /\ Len(r.list) = 1

(* A call that changes something runs alone, or the history says so. *)
Alone ==
    /\ "change" \notin overlapped => \A c, d \in Changing : c = d
    /\ overlapped = {} => \A c \in Changing, d \in Running : c = d

(* Nothing happened that excuses a ticket without gate. *)
Quiet == "change" \notin overlapped /\ ~ clashed /\ ~ broken

AtGate(t) == ticket[t].gate \in NamesOf(ConcertOf[t]) \cup {None}
OtherNames(g) == {gateName[h] : h \in GatesOf(ConcertOf[g]) \ {g}}

(* What a call that runs alone knows at its step. *)
Stage(c) ==
    LET r == call[c]
        k == ConcertOf[r.gate]
    IN /\ r.step \in {"name", "count", "target", "create"} \/ r.op = "rebalance"
            => \A t \in Issued : AtGate(t)
       /\ r.step \in {"name", "count", "target"} => gateName[r.gate] = r.from /\ r.from # None
       /\ r.op = "rename" /\ r.step \in {"find", "move"} =>
            /\ gateName[r.gate] = r.to
            /\ \A t \in Issued : AtGate(t) \/ ticket[t].gate = r.from
       /\ r.op = "remove" /\ r.step \in {"find", "move"} =>
            /\ gateName[r.gate] = r.from /\ r.from # None /\ r.to \in OtherNames(r.gate)
            /\ \A t \in Issued : AtGate(t)
       /\ r.step = "move" => ToSet(r.list) = Named(r.from)
       /\ r.step = "delete" =>
            \A t \in Issued : \/ ticket[t].gate = None
                             \/ \E h \in GatesOf(ConcertOf[t]) \ {r.gate} : ticket[t].gate = gateName[h]
       /\ r.op = "rebalance" =>
            /\ ToSet(r.names) \subseteq NamesOf(k)
            /\ r.step = "compare" => \A t \in ToSet(r.list) : ConcertOf[t] = k
            /\ \A m \in ToSet(r.plan) : ConcertOf[m.t] = k /\ m.to \in NamesOf(k)
       /\ r.op = "issue" => r.to \in NamesOf(ConcertOf[r.list[1]]) \cup {None}

(* While nothing excuses them tickets are at gates, or the one call that   *)
(* changes something knows where they are.                                 *)
InPlace ==
    Quiet => /\ \A c \in Changing : Stage(c)
             /\ Changing = {} => \A t \in Issued : AtGate(t)

GateInv == GateTypeOK /\ (\A c \in Call : Fit(call[c])) /\ Alone /\ InPlace

(* How far the tickets of a rebalance that runs alone have got their turn. *)
Mine(k) == {t \in GateTicket : ConcertOf[t] = k /\ ticket[t].status = "ISSUED"}
Planned(r, full, j) == [t |-> full[j], to |-> Turn(r.names, j - 1)]
Served(tk, r, full, j) ==
    \/ tk[full[j]].gate = Turn(r.names, j - 1)
    \/ Planned(r, full, j) \in ToSet(r.plan)
RoundOf(tk, r, full, names) ==
    /\ r.names = names
    /\ r.step = "list" => r.list = <<>> /\ r.plan = <<>> /\ r.i = 0
    /\ r.step = "compare" =>
         /\ r.i + Len(r.list) = Len(full)
         /\ \A j \in 1..Len(r.list) : r.list[j] = full[r.i + j]
         /\ \A j \in 1..r.i : Served(tk, r, full, j)
         /\ \A m \in ToSet(r.plan) : \E j \in 1..r.i : m = Planned(r, full, j)
    /\ r.step = "apply" =>
         /\ \A j \in 1..Len(full) : Served(tk, r, full, j)
         /\ \A m \in ToSet(r.plan) : \E j \in 1..Len(full) : m = Planned(r, full, j)
Round(c) ==
    LET k == ConcertOf[call[c].gate]
    IN call[c].op = "rebalance" =>
         RoundOf(ticket, call[c], Ascending(Mine(k)), Ascending(NamesOf(k)))
Rounds == overlapped = {} => \A c \in Call : Round(c)

-----------------------------------------------------------------------------
LEMMA NoCallFits == NoCall \in GateCall /\ Fit(NoCall) /\ NoCall.step = "idle" /\ NoCall.op = "none"
BY DEF NoCall, GateCall, Fit, Label, None

(* A call gets new fields. *)
LEMMA CallNow ==
    ASSUME GateTypeOK, NEW c \in Call, NEW x \in GateCall, call' = [call EXCEPT ![c] = x]
    PROVE  call' \in [Call -> GateCall] /\ call'[c] = x /\ \A d \in Call \ {c} : call'[d] = call[d]
BY DEF GateTypeOK

LEMMA FitOps ==
    ASSUME NEW r \in GateCall, Fit(r)
    PROVE  /\ r.op = "none" <=> r.step = "idle"
           /\ r.op = "none" => r = NoCall
           /\ r.step \in {"name", "find", "move"} /\ r.op # "remove" => r.op = "rename"
BY DEF Fit, NoCall

(* A call goes on or ends: it was alone and is. *)
LEMMA GoesOn ==
    ASSUME GateInv, NEW c \in Call, NEW x \in GateCall, call' = [call EXCEPT ![c] = x],
           Fit(x), x = NoCall \/ x.op = call[c].op, call[c].step # "idle",
           UNCHANGED overlapped
    PROVE  /\ call' \in [Call -> GateCall] /\ \A d \in Call : Fit(call'[d])
           /\ Alone' /\ Changing' \subseteq Changing
           /\ Changing \ {c} \subseteq Changing' 
           /\ c \in Changing' <=> c \in Changing /\ x # NoCall
<1>1. /\ call' \in [Call -> GateCall] /\ call'[c] = x
      /\ \A d \in Call \ {c} : call'[d] = call[d]
  BY CallNow DEF GateInv
<1>2. \A d \in Call : Fit(call'[d])
  BY <1>1 DEF GateInv
<1>3. x.step = "idle" <=> x = NoCall
  BY FitOps, NoCallFits
<1>4. Running' \subseteq Running
  BY <1>1, <1>3 DEF Running
<1>5. /\ Changing' \subseteq Changing /\ Changing \ {c} \subseteq Changing'
      /\ c \in Changing' <=> c \in Changing /\ x # NoCall
  BY <1>1, <1>3, NoCallFits DEF Changing, Running, Scanning
<1>6. Alone'
  BY <1>4, <1>5 DEF GateInv, Alone
<1> QED
  BY <1>1, <1>2, <1>5, <1>6

(* If it is one that changes something it need only look after itself.     *)
LEMMA Continues ==
    ASSUME GateInv, NEW c \in Call, NEW x \in GateCall, call' = [call EXCEPT ![c] = x],
           Fit(x), x = NoCall \/ x.op = call[c].op, c \in Changing,
           UNCHANGED <<overlapped, broken>>, clashed => clashed',
           x = NoCall /\ Quiet /\ Quiet' /\ Stage(c) => \A t \in Issued' : AtGate(t)',
           x # NoCall /\ Quiet /\ Quiet' /\ Stage(c) => Stage(c)'
    PROVE  call' \in [Call -> GateCall] /\ (\A d \in Call : Fit(call'[d])) /\ Alone' /\ InPlace'
<1>1. call[c].step # "idle"
  BY DEF Changing, Running
<1>2. /\ call' \in [Call -> GateCall] /\ \A d \in Call : Fit(call'[d])
      /\ Alone' /\ Changing' \subseteq Changing
      /\ c \in Changing' <=> c \in Changing /\ x # NoCall
  BY <1>1, GoesOn
<1>3. ASSUME Quiet' PROVE (\A d \in Changing' : Stage(d)') /\ (Changing' = {} => \A t \in Issued' : AtGate(t)')
  <2>1. Quiet /\ Changing = {c} /\ Stage(c)
    BY <1>3 DEF Quiet, GateInv, Alone, InPlace
  <2> QED
    BY <1>2, <1>3, <2>1
<1> QED
  BY <1>2, <1>3 DEF InPlace

(* A call that changes something starts: beside another one it is marked,  *)
(* else every ticket is where it should be.                                *)
LEMMA Starts ==
    ASSUME GateInv, NEW c \in Call, NEW x \in GateCall, Begin(c, x),
           Fit(x), x.op \notin {"none", "scan"}, UNCHANGED <<clashed, broken>>,
           (\A t \in Issued : AtGate(t)) => Stage(c)'
    PROVE  /\ call' \in [Call -> GateCall] /\ \A d \in Call : Fit(call'[d])
           /\ Alone' /\ InPlace' /\ overlapped' \subseteq {"change", "scan"}
<1>1. call[c].step = "idle" /\ call' = [call EXCEPT ![c] = x] /\ Meet(x.op)
  BY DEF Begin
<1>2. /\ call' \in [Call -> GateCall] /\ call'[c] = x
      /\ \A d \in Call \ {c} : call'[d] = call[d]
  BY <1>1, CallNow DEF GateInv
<1>3. \A d \in Call : Fit(call'[d])
  BY <1>2 DEF GateInv
<1>4. x.step # "idle"
  BY FitOps
<1>5. Running' = Running \cup {c} /\ Changing' = Changing \cup {c} /\ c \notin Running
  <2>1. call[c].op = "none"
    BY <1>1, FitOps DEF GateInv, GateTypeOK
  <2> QED
    BY <1>1, <1>2, <1>4, <2>1 DEF Running, Changing, Scanning
<1>6. /\ overlapped \subseteq overlapped' /\ overlapped' \subseteq {"change", "scan"}
      /\ Changing # {} => "change" \in overlapped'
      /\ Scanning # {} => "scan" \in overlapped'
  BY <1>1 DEF Meet, Changing, GateInv, GateTypeOK
<1>7. Running \subseteq Changing \cup Scanning
  BY DEF Changing
<1>8. Alone'
  BY <1>5, <1>6, <1>7 DEF Alone
<1>9. ASSUME Quiet' PROVE (\A d \in Changing' : Stage(d)') /\ (Changing' = {} => \A t \in Issued' : AtGate(t)')
  <2>1. Quiet /\ Changing = {}
    BY <1>6, <1>9 DEF Quiet
  <2>2. \A t \in Issued : AtGate(t)
    BY <2>1 DEF GateInv, InPlace
  <2>3. Changing' = {c}
    BY <1>5, <2>1
  <2> QED
    BY <2>2, <2>3
<1> QED
  BY <1>2, <1>3, <1>6, <1>8, <1>9 DEF InPlace

(* What a scan leaves alone. *)
LEMMA StageStays ==
    ASSUME NEW d \in Call, Stage(d), call'[d] = call[d], UNCHANGED gateName,
           Issued' = Issued, \A t \in Issued : ticket'[t].gate = ticket[t].gate
    PROVE  Stage(d)'
<1>1. \A t \in Issued : AtGate(t)' <=> AtGate(t)
  BY DEF AtGate, NamesOf, GatesOf
<1>2. \A n : Named(n)' = Named(n)
  BY DEF Named
<1>3. \A k : NamesOf(k)' = NamesOf(k) /\ GatesOf(k)' = GatesOf(k)
  BY DEF NamesOf, GatesOf
<1>4. \A g : OtherNames(g)' = OtherNames(g)
  BY <1>3 DEF OtherNames
<1> QED
  BY <1>1, <1>2, <1>3, <1>4 DEF Stage

LEMMA PlacesStay ==
    ASSUME GateInv, UNCHANGED <<gateName, clashed, broken>>,
           "change" \in overlapped => "change" \in overlapped',
           Issued' = Issued, \A t \in Issued : ticket'[t].gate = ticket[t].gate,
           Changing' = Changing, \A d \in Changing : call'[d] = call[d]
    PROVE  InPlace'
<1> SUFFICES ASSUME Quiet' PROVE (\A d \in Changing' : Stage(d)') /\ (Changing' = {} => \A t \in Issued' : AtGate(t)')
  BY DEF InPlace
<1>1. Quiet /\ (\A d \in Changing : Stage(d)) /\ (Changing = {} => \A t \in Issued : AtGate(t))
  BY DEF Quiet, GateInv, InPlace
<1>2. \A d \in Changing : d \in Call
  BY DEF Changing, Running
<1>3. \A t \in Issued : AtGate(t)' <=> AtGate(t)
  BY DEF AtGate, NamesOf, GatesOf
<1> QED
  BY <1>1, <1>2, <1>3, StageStays

-----------------------------------------------------------------------------
(* Issue of a gate, ... *)
LEMMA CreateGateKeeps ==
    ASSUME GateInv, NEW g \in Gate, NEW n \in Name, CreateGate(g, n)
    PROVE  GateInv'
<1> USE GateAssumption
<1>1. GateTypeOK' /\ overlapped \subseteq overlapped'
  BY DEF CreateGate, GateInv, GateTypeOK, Meet, Label
<1>2. UNCHANGED call /\ Running' = Running /\ Changing' = Changing
  BY DEF CreateGate, Running, Changing, Scanning
<1>3. Alone'
  BY <1>1, <1>2 DEF GateInv, Alone
<1>4. ASSUME Quiet' PROVE Changing' = {} /\ \A t \in Issued' : AtGate(t)'
  <2>1. Quiet /\ Changing = {}
    BY <1>1, <1>4 DEF Quiet, CreateGate, Meet, Changing
  <2>2. \A t \in Issued : AtGate(t)
    BY <2>1 DEF GateInv, InPlace
  <2>3. \A k : GatesOf(k) \subseteq GatesOf(k)' /\ \A h \in GatesOf(k) : gateName'[h] = gateName[h]
    BY DEF GatesOf, CreateGate, GateInv, GateTypeOK
  <2>4. \A k : NamesOf(k) \subseteq NamesOf(k)'
    BY <2>3 DEF NamesOf
  <2>5. Issued' = Issued /\ UNCHANGED ticket
    BY DEF Issued, CreateGate
  <2> QED
    BY <1>2, <2>1, <2>2, <2>4, <2>5 DEF AtGate
<1> QED
  BY <1>1, <1>2, <1>3, <1>4 DEF GateInv, InPlace

(* ... and the calls that start with a read. *)
LEMMA StartRenameKeeps ==
    ASSUME GateInv, NEW c \in Call, NEW g \in Gate, NEW n \in Name, StartRename(c, g, n)
    PROVE  GateInv'
<1> DEFINE x == [NoCall EXCEPT !.op = "rename", !.step = "name", !.gate = g,
                               !.from = gateName[g], !.to = n]
<1> USE GateAssumption
<1>1. x \in GateCall /\ Fit(x) /\ x.op = "rename"
  BY NoCallFits DEF GateCall, Fit, GateInv, GateTypeOK, Label
<1>2. /\ x.step = "name" /\ x.gate = g /\ x.from = gateName[g]
  BY NoCallFits DEF GateCall
<1> HIDE DEF x
<1>3. /\ Begin(c, x) /\ UNCHANGED <<gateName, ticket, clashed, broken>>
      /\ gateName[g] # None /\ calls < MaxCalls /\ calls' = calls + 1
  BY DEF StartRename, BeginChange, x
<1>4. call'[c] = x
  BY <1>1, <1>3, CallNow DEF Begin, GateInv
<1>5. ASSUME \A t \in Issued : AtGate(t) PROVE Stage(c)'
  <2>1. \A t \in Issued' : AtGate(t)'
    BY <1>3, <1>5 DEF Issued, AtGate, NamesOf, GatesOf
  <2> QED
    BY <1>1, <1>2, <1>3, <1>4, <2>1 DEF Stage
<1>6. /\ call' \in [Call -> GateCall] /\ \A d \in Call : Fit(call'[d])
      /\ Alone' /\ InPlace' /\ overlapped' \subseteq {"change", "scan"}
  BY <1>1, <1>3, <1>5, Starts
<1>7. GateTypeOK'
  BY <1>3, <1>6 DEF GateInv, GateTypeOK
<1> QED
  BY <1>6, <1>7 DEF GateInv

LEMMA StartRemoveKeeps ==
    ASSUME GateInv, NEW c \in Call, NEW g \in Gate, StartRemoveGate(c, g)
    PROVE  GateInv'
<1> DEFINE x == [NoCall EXCEPT !.op = "remove", !.step = "count", !.gate = g, !.from = gateName[g]]
<1> USE GateAssumption
<1>1. x \in GateCall /\ Fit(x) /\ x.op = "remove"
  BY NoCallFits DEF GateCall, Fit, GateInv, GateTypeOK, Label
<1>2. /\ x.step = "count" /\ x.gate = g /\ x.from = gateName[g]
  BY NoCallFits DEF GateCall
<1> HIDE DEF x
<1>3. /\ Begin(c, x) /\ UNCHANGED <<gateName, ticket, clashed, broken>>
      /\ gateName[g] # None /\ calls < MaxCalls /\ calls' = calls + 1
  BY DEF StartRemoveGate, BeginChange, x
<1>4. call'[c] = x
  BY <1>1, <1>3, CallNow DEF Begin, GateInv
<1>5. ASSUME \A t \in Issued : AtGate(t) PROVE Stage(c)'
  <2>1. \A t \in Issued' : AtGate(t)'
    BY <1>3, <1>5 DEF Issued, AtGate, NamesOf, GatesOf
  <2> QED
    BY <1>1, <1>2, <1>3, <1>4, <2>1 DEF Stage
<1>6. /\ call' \in [Call -> GateCall] /\ \A d \in Call : Fit(call'[d])
      /\ Alone' /\ InPlace' /\ overlapped' \subseteq {"change", "scan"}
  BY <1>1, <1>3, <1>5, Starts
<1>7. GateTypeOK'
  BY <1>3, <1>6 DEF GateInv, GateTypeOK
<1> QED
  BY <1>6, <1>7 DEF GateInv

(* The names of a concert's gates, and its tickets, are finite sets of     *)
(* numbers. *)
LEMMA NamesFinite ==
    ASSUME GateTypeOK, NEW k
    PROVE  IsFiniteSet(NamesOf(k)) /\ NamesOf(k) \subseteq Name /\ NamesOf(k) \subseteq Int
<1> USE GateAssumption
<1>1. IsFiniteSet(GatesOf(k))
  BY FS_Subset DEF GatesOf
<1> DEFINE f == [g \in GatesOf(k) |-> gateName[g]]
<1>2. f \in Surjection(GatesOf(k), NamesOf(k))
  BY DEF Surjection, NamesOf
<1>3. NamesOf(k) \subseteq Name
  BY DEF NamesOf, GatesOf, GateTypeOK, Label
<1> HIDE DEF f
<1>4. IsFiniteSet(NamesOf(k))
  BY <1>1, <1>2, FS_Surjection
<1>5. NamesOf(k) \subseteq Int
  <2>1. Name \subseteq Int
    OBVIOUS
  <2> QED
    BY ONLY <1>3, <2>1
<1> QED
  BY <1>3, <1>4, <1>5

LEMMA TicketsFinite ==
    ASSUME NEW S \in SUBSET GateTicket
    PROVE  IsFiniteSet(S) /\ S \subseteq Int
<1>1. IsFiniteSet(S)
  BY GateAssumption, FS_Subset
<1>2. S \subseteq Int
  BY GateAssumption
<1> QED
  BY <1>1, <1>2

LEMMA StartRebalanceKeeps ==
    ASSUME GateInv, NEW c \in Call, NEW g \in Gate, StartRebalance(c, g)
    PROVE  GateInv'
<1> DEFINE names == Ascending(NamesOf(ConcertOf[g]))
           x == [NoCall EXCEPT !.op = "rebalance", !.step = "list", !.gate = g, !.names = names]
<1> USE GateAssumption
<1>1. /\ names \in Seq(NamesOf(ConcertOf[g])) /\ ToSet(names) = NamesOf(ConcertOf[g])
      /\ NamesOf(ConcertOf[g]) \subseteq Name
  BY NamesFinite, AscendingIs DEF GateInv
<1>2. names \in Seq(Name)
  BY <1>1
<1>3. names # <<>>
  <2>1. NamesOf(ConcertOf[g]) # {}
    BY DEF StartRebalance, NamesOf
  <2> QED
    BY <1>1, <2>1 DEF ToSet
<1> HIDE DEF names
<1>4. x \in GateCall /\ Fit(x) /\ x.op = "rebalance"
  BY <1>2, <1>3, NoCallFits DEF GateCall, Fit
<1>5. /\ x.step = "list" /\ x.gate = g /\ x.names = names /\ x.plan = <<>>
  BY NoCallFits DEF GateCall, NoCall
<1> HIDE DEF x
<1>6. /\ Begin(c, x) /\ UNCHANGED <<gateName, ticket, clashed, broken>>
      /\ calls < MaxCalls /\ calls' = calls + 1
  BY DEF StartRebalance, BeginChange, x, names
<1>7. call'[c] = x
  BY <1>4, <1>6, CallNow DEF Begin, GateInv
<1>8. ASSUME \A t \in Issued : AtGate(t) PROVE Stage(c)'
  <2>1. \A t \in Issued' : AtGate(t)'
    BY <1>6, <1>8 DEF Issued, AtGate, NamesOf, GatesOf
  <2>2. \A k : NamesOf(k)' = NamesOf(k)
    BY <1>6 DEF NamesOf, GatesOf
  <2>3. ToSet(<<>>) = {}
    BY DEF ToSet
  <2> QED
    BY <1>1, <1>4, <1>5, <1>7, <2>1, <2>2, <2>3 DEF Stage
<1>9. /\ call' \in [Call -> GateCall] /\ \A d \in Call : Fit(call'[d])
      /\ Alone' /\ InPlace' /\ overlapped' \subseteq {"change", "scan"}
  BY <1>4, <1>6, <1>8, Starts
<1>10. GateTypeOK'
  BY <1>6, <1>9 DEF GateInv, GateTypeOK
<1> QED
  BY <1>9, <1>10 DEF GateInv

-----------------------------------------------------------------------------
(* A call goes on by one step, or ends. *)
LEMMA AtStep ==
    ASSUME GateInv, NEW c \in Call, call[c].step # "idle"
    PROVE  /\ call[c] \in GateCall /\ Fit(call[c]) /\ call[c] # NoCall
           /\ call[c].step \in {"name", "count", "target", "find", "move", "delete", "list",
                                "compare", "apply", "create"} => c \in Changing
           /\ call[c].step = "name" => call[c].op = "rename"
           /\ call[c].step \in {"count", "target", "delete"} => call[c].op = "remove"
           /\ call[c].step \in {"find", "move"} => call[c].op \in {"rename", "remove"}
           /\ call[c].step \in {"list", "compare", "apply"} => call[c].op = "rebalance"
           /\ call[c].step = "create" => call[c].op = "issue"
           /\ call[c].step = "checkin" => call[c].op = "scan"
BY NoCallFits DEF GateInv, GateTypeOK, Fit, Changing, Running, Scanning

(* The same call at another step. *)
LEMMA NextStep ==
    ASSUME NEW r \in GateCall,
           NEW s \in {"name", "count", "target", "find", "move", "delete", "list", "compare", "apply"}
    PROVE  LET x == [r EXCEPT !.step = s]
           IN  /\ x \in GateCall /\ x.op = r.op /\ x.step = s /\ x.gate = r.gate /\ x.from = r.from
               /\ x.to = r.to /\ x.names = r.names /\ x.list = r.list /\ x.plan = r.plan /\ x.i = r.i
               /\ x # NoCall
BY DEF GateCall, NoCall

LEMMA WriteNameKeeps ==
    ASSUME GateInv, NEW c \in Call, WriteName(c)
    PROVE  GateInv'
<1> DEFINE r == call[c]
           x == [r EXCEPT !.step = "find"]
<1>1. /\ r \in GateCall /\ Fit(r) /\ r # NoCall /\ c \in Changing /\ r.step = "name" /\ r.op = "rename"
      /\ r.gate \in Gate /\ r.to \in Name
  BY AtStep DEF WriteName, Fit
<1>2. UNCHANGED <<ticket, calls, overlapped, clashed, broken>>
  BY DEF WriteName
<1>3. Issued' = Issued
  BY <1>2 DEF Issued
<1>4. CASE gateName' = [gateName EXCEPT ![r.gate] = r.to] /\ call' = [call EXCEPT ![c] = x]
  <2>1. /\ x \in GateCall /\ x.op = r.op /\ x.step = "find" /\ x.gate = r.gate /\ x.from = r.from
        /\ x.to = r.to /\ x # NoCall /\ Fit(x)
    <3>1. /\ x \in GateCall /\ x.op = r.op /\ x.step = "find" /\ x.gate = r.gate /\ x.from = r.from
          /\ x.to = r.to /\ x # NoCall
      BY <1>1, NextStep
    <3> HIDE DEF x
    <3> QED
      BY <1>1, <3>1 DEF Fit
  <2>2. call'[c] = x
    BY <1>1, <1>4, <2>1, CallNow DEF GateInv
  <2> HIDE DEF x
  <2>3. gateName' \in [Gate -> Label] /\ gateName'[r.gate] = r.to
    BY <1>1, <1>4 DEF GateInv, GateTypeOK, Label
  <2>4. ASSUME Stage(c) PROVE Stage(c)'
    <3>1. gateName[r.gate] = r.from /\ \A t \in Issued : AtGate(t)
      BY <1>1, <2>4 DEF Stage
    <3>2. ASSUME NEW t \in Issued PROVE AtGate(t)' \/ ticket'[t].gate = r.from
      <4>1. CASE ticket[t].gate = None
        BY <1>2, <4>1 DEF AtGate
      <4>2. CASE ticket[t].gate # None
        <5>1. PICK h \in GatesOf(ConcertOf[t]) : ticket[t].gate = gateName[h]
          BY <3>1, <4>2 DEF AtGate, NamesOf
        <5>2. CASE h = r.gate
          BY <1>2, <3>1, <5>1, <5>2
        <5>3. CASE h # r.gate
          <6>1. gateName'[h] = gateName[h] /\ h \in GatesOf(ConcertOf[t])'
            BY <1>4, <5>1, <5>3 DEF GatesOf, GateInv, GateTypeOK
          <6> QED
            BY <1>2, <5>1, <6>1 DEF AtGate, NamesOf
        <5> QED
          BY <5>2, <5>3
      <4> QED
        BY <4>1, <4>2
    <3> QED
      BY <1>1, <1>3, <2>1, <2>2, <2>3, <3>2 DEF Stage
  <2>5. call' \in [Call -> GateCall] /\ (\A d \in Call : Fit(call'[d])) /\ Alone' /\ InPlace'
    BY <1>1, <1>2, <1>4, <2>1, <2>4, Continues
  <2>6. GateTypeOK'
    BY <1>2, <2>3, <2>5 DEF GateInv, GateTypeOK
  <2> QED
    BY <2>5, <2>6 DEF GateInv
<1>5. CASE UNCHANGED gateName /\ call' = [call EXCEPT ![c] = NoCall]
  <2>1. ASSUME Stage(c) PROVE \A t \in Issued' : AtGate(t)'
    <3>1. \A t \in Issued : AtGate(t)
      BY <1>1, <2>1 DEF Stage
    <3> QED
      BY <1>2, <1>3, <1>5, <3>1 DEF AtGate, NamesOf, GatesOf
  <2>2. call' \in [Call -> GateCall] /\ (\A d \in Call : Fit(call'[d])) /\ Alone' /\ InPlace'
    BY <1>1, <1>2, <1>5, <2>1, NoCallFits, Continues
  <2>3. GateTypeOK'
    BY <1>2, <1>5, <2>2 DEF GateInv, GateTypeOK
  <2> QED
    BY <2>2, <2>3 DEF GateInv
<1> QED
  BY <1>4, <1>5 DEF WriteName, ToStep, End

(* A call that ends and changed no ticket and no gate. *)
LEMMA EndsKeeps ==
    ASSUME GateInv, NEW c \in Changing, call' = [call EXCEPT ![c] = NoCall],
           UNCHANGED <<gateName, ticket, calls, overlapped, clashed, broken>>,
           Stage(c) => \A t \in Issued : AtGate(t)
    PROVE  GateInv'
<1>1. c \in Call
  BY DEF Changing, Running
<1>2. ASSUME Stage(c) PROVE \A t \in Issued' : AtGate(t)'
  BY <1>2 DEF Issued, AtGate, NamesOf, GatesOf
<1>3. call' \in [Call -> GateCall] /\ (\A d \in Call : Fit(call'[d])) /\ Alone' /\ InPlace'
  BY <1>1, <1>2, NoCallFits, Continues
<1>4. GateTypeOK'
  BY <1>3 DEF GateInv, GateTypeOK
<1> QED
  BY <1>3, <1>4 DEF GateInv

(* A call that goes on and changed no ticket and no gate. *)
LEMMA GoesKeeps ==
    ASSUME GateInv, NEW c \in Changing, NEW x \in GateCall, call' = [call EXCEPT ![c] = x],
           UNCHANGED <<gateName, ticket, calls, overlapped, clashed, broken>>,
           Fit(x), x # NoCall, x.op = call[c].op,
           Stage(c) => Stage(c)'
    PROVE  GateInv'
<1>1. c \in Call
  BY DEF Changing, Running
<1>2. call' \in [Call -> GateCall] /\ (\A d \in Call : Fit(call'[d])) /\ Alone' /\ InPlace'
  BY <1>1, Continues
<1>3. GateTypeOK'
  BY <1>2 DEF GateInv, GateTypeOK
<1> QED
  BY <1>2, <1>3 DEF GateInv

LEMMA SameNames ==
    ASSUME UNCHANGED <<gateName, ticket>>
    PROVE  /\ Issued' = Issued /\ \A t : AtGate(t)' <=> AtGate(t)
           /\ \A n : Named(n)' = Named(n)
           /\ \A k : NamesOf(k)' = NamesOf(k) /\ GatesOf(k)' = GatesOf(k)
           /\ \A g : OtherNames(g)' = OtherNames(g)
<1>1. Issued' = Issued /\ \A k : GatesOf(k)' = GatesOf(k)
  BY DEF Issued, GatesOf
<1>2. \A k : NamesOf(k)' = NamesOf(k)
  BY <1>1 DEF NamesOf
<1> QED
  BY <1>1, <1>2 DEF AtGate, Named, OtherNames

LEMMA CountTicketsKeeps ==
    ASSUME GateInv, NEW c \in Call, CountTickets(c)
    PROVE  GateInv'
<1> DEFINE r == call[c]
           s == IF Named(r.from) = {} THEN "delete" ELSE "target"
           x == [r EXCEPT !.step = s]
<1>1. /\ r \in GateCall /\ Fit(r) /\ c \in Changing /\ r.step = "count" /\ r.op = "remove"
      /\ r.gate \in Gate
  BY AtStep DEF CountTickets, Fit
<1>2. s \in {"delete", "target"} /\ (s = "delete" => Named(r.from) = {})
  OBVIOUS
<1>5. /\ UNCHANGED <<gateName, ticket, calls, overlapped, clashed, broken>>
      /\ call' = [call EXCEPT ![c] = x]
  BY DEF CountTickets, ToStep
<1> HIDE DEF s
<1>3. /\ x \in GateCall /\ x.op = r.op /\ x.step = s /\ x.gate = r.gate /\ x.from = r.from
      /\ x.to = r.to /\ x # NoCall
  <2>1. s \in {"name", "count", "target", "find", "move", "delete", "list", "compare", "apply"}
    BY <1>2
  <2> QED
    BY <1>1, <2>1 DEF GateCall, NoCall
<1>4. Fit(x)
  BY <1>1, <1>2, <1>3 DEF Fit
<1>6. call'[c] = x
  BY <1>3, <1>5, CallNow DEF GateInv
<1> HIDE DEF x
<1>8. ASSUME Stage(c) PROVE Stage(c)'
  <2>1. gateName[r.gate] = r.from /\ r.from # None /\ \A t \in Issued : AtGate(t)
    BY <1>1, <1>8 DEF Stage
  <2>2. CASE s = "target"
    BY <1>1, <1>3, <1>5, <1>6, <2>1, <2>2, SameNames DEF Stage
  <2>3. CASE s = "delete"
    <3>1. ASSUME NEW t \in Issued
          PROVE  \/ ticket[t].gate = None
                 \/ \E h \in GatesOf(ConcertOf[t]) \ {r.gate} : ticket[t].gate = gateName[h]
      BY <1>2, <2>1, <2>3 DEF Named, AtGate, NamesOf
    <3> QED
      BY <1>1, <1>3, <1>5, <1>6, <2>3, <3>1, SameNames DEF Stage
  <2> QED
    BY <1>2, <2>2, <2>3
<1> QED
  BY <1>1, <1>3, <1>4, <1>5, <1>8, GoesKeeps

LEMMA PickTargetKeeps ==
    ASSUME GateInv, NEW c \in Call, PickTarget(c)
    PROVE  GateInv'
<1> DEFINE r == call[c]
           others == OtherNames(r.gate)
           x == [r EXCEPT !.step = "find", !.to = Min(others)]
<1>1. /\ r \in GateCall /\ Fit(r) /\ c \in Changing /\ r.step = "target" /\ r.op = "remove"
      /\ r.gate \in Gate
  BY AtStep DEF PickTarget, Fit
<1>2. UNCHANGED <<gateName, ticket, calls, overlapped, clashed, broken>>
  BY DEF PickTarget
<1>3. ASSUME Stage(c)
      PROVE  gateName[r.gate] = r.from /\ r.from # None /\ \A t \in Issued : AtGate(t)
  BY <1>1, <1>3 DEF Stage
<1>4. CASE others = {} /\ call' = [call EXCEPT ![c] = NoCall]
  BY <1>1, <1>2, <1>3, <1>4, EndsKeeps
<1>5. CASE others # {} /\ call' = [call EXCEPT ![c] = x]
  <2>1. Min(others) \in others /\ Min(others) \in Name
    <3>1. others \subseteq NamesOf(ConcertOf[r.gate])
      BY DEF OtherNames, NamesOf
    <3>2. /\ IsFiniteSet(NamesOf(ConcertOf[r.gate])) /\ NamesOf(ConcertOf[r.gate]) \subseteq Name
          /\ NamesOf(ConcertOf[r.gate]) \subseteq Int
      BY NamesFinite DEF GateInv
    <3> HIDE DEF others
    <3>3. \E y \in others : \A z \in others : y <= z
      BY <1>5, <3>1, <3>2, FS_Subset, GreatestExists
    <3> QED
      BY <3>1, <3>2, <3>3 DEF Min
  <2> DEFINE m == Min(others)
  <2>2. /\ x \in GateCall /\ x.op = r.op /\ x.step = "find" /\ x.gate = r.gate /\ x.from = r.from
        /\ x.to = m /\ x # NoCall
    BY <1>1, <2>1 DEF GateCall, Label, NoCall
  <2>3. Fit(x)
    BY <1>1, <2>2 DEF Fit
  <2>4. call'[c] = x
    BY <1>5, <2>2, CallNow DEF GateInv
  <2> HIDE DEF x, m
  <2>5. ASSUME Stage(c) PROVE Stage(c)'
    <3>1. m \in OtherNames(r.gate)
      BY <2>1 DEF m
    <3> QED
      BY <1>1, <1>2, <1>3, <2>2, <2>4, <2>5, <3>1, SameNames DEF Stage
  <2> QED
    BY <1>1, <1>2, <1>5, <2>2, <2>3, <2>5, GoesKeeps
<1> QED
  BY <1>4, <1>5 DEF PickTarget, End, OtherNames

LEMMA FindTicketsKeeps ==
    ASSUME GateInv, NEW c \in Call, FindTickets(c)
    PROVE  GateInv'
<1> DEFINE r == call[c]
           found == Ascending(Named(r.from))
           x == [r EXCEPT !.step = "move", !.list = found]
<1>1. /\ r \in GateCall /\ Fit(r) /\ c \in Changing /\ r.step = "find" /\ r.op \in {"rename", "remove"}
      /\ r.gate \in Gate /\ (r.op = "rename" => r.to \in Name)
  BY AtStep DEF FindTickets, Fit
<1>2. /\ UNCHANGED <<gateName, ticket, calls, overlapped, clashed, broken>>
      /\ call' = [call EXCEPT ![c] = x]
  BY DEF FindTickets
<1>3. found \in Seq(GateTicket) /\ ToSet(found) = Named(r.from)
  <2>1. Named(r.from) \in SUBSET GateTicket
    BY DEF Named, Issued
  <2>2. found \in Seq(Named(r.from)) /\ ToSet(found) = Named(r.from)
    BY <2>1, TicketsFinite, AscendingIs
  <2> HIDE DEF found
  <2> QED
    BY <2>1, <2>2
<1> HIDE DEF found
<1>4. /\ x \in GateCall /\ x.op = r.op /\ x.step = "move" /\ x.gate = r.gate /\ x.from = r.from
      /\ x.to = r.to /\ x.list = found /\ x # NoCall
  BY <1>1, <1>3 DEF GateCall, NoCall
<1>5. Fit(x)
  BY <1>1, <1>4 DEF Fit, NoCall
<1>6. call'[c] = x
  BY <1>2, <1>4, CallNow DEF GateInv, Changing, Running
<1> HIDE DEF x
<1>7. ASSUME Stage(c) PROVE Stage(c)'
  <2>1. CASE r.op = "rename"
    <3>1. gateName[r.gate] = r.to /\ \A t \in Issued : AtGate(t) \/ ticket[t].gate = r.from
      BY <1>1, <1>7, <2>1 DEF Stage
    <3> QED
      BY <1>1, <1>2, <1>3, <1>4, <1>6, <2>1, <3>1, SameNames DEF Stage
  <2>2. CASE r.op = "remove"
    <3>1. /\ gateName[r.gate] = r.from /\ r.from # None /\ r.to \in OtherNames(r.gate)
          /\ \A t \in Issued : AtGate(t)
      BY <1>1, <1>7, <2>2 DEF Stage
    <3> QED
      BY <1>1, <1>2, <1>3, <1>4, <1>6, <2>2, <3>1, SameNames DEF Stage
  <2> QED
    BY <1>1, <2>1, <2>2
<1> QED
  BY <1>1, <1>2, <1>4, <1>5, <1>7, GoesKeeps

LEMMA MoveTicketsKeeps ==
    ASSUME GateInv, NEW c \in Call, MoveTickets(c)
    PROVE  GateInv'
<1> DEFINE r == call[c]
           L == ToSet(r.list)
           x == IF r.op = "rename" THEN NoCall ELSE [r EXCEPT !.step = "delete", !.list = <<>>]
<1>1. /\ r \in GateCall /\ Fit(r) /\ c \in Changing /\ r.step = "move" /\ r.op \in {"rename", "remove"}
      /\ r.gate \in Gate /\ (r.op = "rename" => r.to \in Name) /\ r.to \in Label
  BY AtStep DEF MoveTickets, Fit, GateCall
<1>2. /\ UNCHANGED <<gateName, calls, overlapped, broken>> /\ call' = [call EXCEPT ![c] = x]
      /\ ticket' = [t \in GateTicket |-> IF t \in L THEN Assign(t, r.to) ELSE ticket[t]]
      /\ clashed' = (clashed \/ \E t \in L : ConcertOf[t] # ConcertOf[r.gate])
  BY DEF MoveTickets, End
<1>3. /\ x \in GateCall /\ Fit(x)
      /\ r.op = "rename" => x = NoCall
      /\ r.op = "remove" => /\ x.op = "remove" /\ x.step = "delete" /\ x.gate = r.gate /\ x # NoCall
  BY <1>1, NoCallFits DEF GateCall, Fit, NoCall
<1>4. call'[c] = x
  BY <1>2, <1>3, CallNow DEF GateInv
<1>5. ASSUME NEW t \in GateTicket
      PROVE  /\ ticket'[t].status = ticket[t].status
             /\ t \in L => ticket'[t].gate = r.to
             /\ t \notin L => ticket'[t].gate = ticket[t].gate
             /\ ticket'[t] \in [status : {"NEW", "ISSUED", "CHECKED_IN"}, gate : Label, sig : Label]
  BY <1>1, <1>2 DEF Assign, GateInv, GateTypeOK
<1>6. Issued' = Issued
  BY <1>5 DEF Issued
<1> HIDE DEF x
<1>7. \A k : NamesOf(k)' = NamesOf(k) /\ GatesOf(k)' = GatesOf(k)
  BY <1>2 DEF NamesOf, GatesOf
<1>8. ASSUME Stage(c), ~ clashed', r.op = "rename" PROVE \A t \in Issued' : AtGate(t)'
  <2>1. /\ gateName[r.gate] = r.to /\ L = Named(r.from)
        /\ \A t \in Issued : AtGate(t) \/ ticket[t].gate = r.from
    BY <1>1, <1>8 DEF Stage
  <2>2. r.to # None
    BY <1>1, <1>8, GateAssumption
  <2>3. r.to \in NamesOf(ConcertOf[r.gate])
    BY <1>1, <2>1, <2>2 DEF NamesOf, GatesOf
  <2>4. ASSUME NEW t \in Issued PROVE AtGate(t)'
    <3>1. t \in GateTicket
      BY DEF Issued
    <3>2. CASE t \in L
      <4>1. ConcertOf[t] = ConcertOf[r.gate]
        BY <1>2, <1>8, <3>2
      <4> QED
        BY <1>5, <1>7, <2>3, <3>1, <3>2, <4>1 DEF AtGate
    <3>3. CASE t \notin L
      <4>1. AtGate(t)
        BY <2>1, <3>3 DEF Named
      <4> QED
        BY <1>5, <1>7, <3>1, <3>3, <4>1 DEF AtGate
    <3> QED
      BY <3>2, <3>3
  <2> QED
    BY <1>6, <2>4
<1>9. ASSUME Stage(c), ~ clashed', r.op = "remove" PROVE Stage(c)'
  <2>1. /\ gateName[r.gate] = r.from /\ r.from # None /\ r.to \in OtherNames(r.gate) /\ L = Named(r.from)
        /\ \A t \in Issued : AtGate(t)
    BY <1>1, <1>9 DEF Stage
  <2>2. ASSUME NEW t \in Issued
        PROVE  \/ ticket'[t].gate = None
               \/ \E h \in GatesOf(ConcertOf[t])' \ {r.gate} : ticket'[t].gate = gateName'[h]
    <3>1. t \in GateTicket
      BY DEF Issued
    <3>2. CASE t \in L
      <4>1. ConcertOf[t] = ConcertOf[r.gate]
        BY <1>2, <1>9, <3>2
      <4>2. PICK h \in GatesOf(ConcertOf[r.gate]) \ {r.gate} : r.to = gateName[h]
        BY <2>1 DEF OtherNames
      <4> QED
        BY <1>2, <1>5, <1>7, <3>1, <3>2, <4>1, <4>2
    <3>3. CASE t \notin L
      <4>1. ticket[t].gate # r.from /\ AtGate(t)
        BY <2>1, <3>3 DEF Named
      <4> QED
        BY <1>2, <1>5, <1>7, <2>1, <3>1, <3>3, <4>1 DEF AtGate, NamesOf
    <3> QED
      BY <3>2, <3>3
  <2> QED
    BY <1>3, <1>4, <1>6, <1>9, <2>2 DEF Stage
<1>10. /\ x = NoCall /\ Quiet /\ Quiet' /\ Stage(c) => \A t \in Issued' : AtGate(t)'
       /\ x # NoCall /\ Quiet /\ Quiet' /\ Stage(c) => Stage(c)'
  BY <1>1, <1>3, <1>8, <1>9 DEF Quiet
<1>11. call' \in [Call -> GateCall] /\ (\A d \in Call : Fit(call'[d])) /\ Alone' /\ InPlace'
  <2>1. x = NoCall \/ x.op = call[c].op
    BY <1>1, <1>3
  <2> QED
    BY <1>1, <1>2, <1>3, <1>10, <2>1, Continues
<1>12. GateTypeOK'
  <2>1. ticket' \in [GateTicket -> [status : {"NEW", "ISSUED", "CHECKED_IN"}, gate : Label, sig : Label]]
    BY <1>2, <1>5
  <2>2. clashed' \in BOOLEAN
    BY <1>2
  <2> QED
    BY <1>2, <1>11, <2>1, <2>2 DEF GateInv, GateTypeOK
<1> QED
  BY <1>11, <1>12 DEF GateInv

LEMMA DeleteGateKeeps ==
    ASSUME GateInv, NEW c \in Call, DeleteGate(c)
    PROVE  GateInv'
<1> DEFINE r == call[c]
<1>1. r \in GateCall /\ Fit(r) /\ c \in Changing /\ r.step = "delete" /\ r.op = "remove" /\ r.gate \in Gate
  BY AtStep DEF DeleteGate, Fit
<1>2. /\ UNCHANGED <<ticket, calls, overlapped, clashed, broken>>
      /\ call' = [call EXCEPT ![c] = NoCall] /\ gateName' = [gateName EXCEPT ![r.gate] = None]
  BY DEF DeleteGate, End
<1>3. ASSUME Stage(c) PROVE \A t \in Issued' : AtGate(t)'
  <2>1. Issued' = Issued
    BY <1>2 DEF Issued
  <2>2. ASSUME NEW t \in Issued PROVE AtGate(t)'
    <3>1. CASE ticket[t].gate = None
      BY <1>2, <3>1 DEF AtGate
    <3>2. CASE ticket[t].gate # None
      <4>1. PICK h \in GatesOf(ConcertOf[t]) \ {r.gate} : ticket[t].gate = gateName[h]
        BY <1>1, <1>3, <3>2 DEF Stage
      <4>2. gateName'[h] = gateName[h] /\ h \in GatesOf(ConcertOf[t])'
        BY <1>2, <4>1 DEF GatesOf, GateInv, GateTypeOK
      <4> QED
        BY <1>2, <4>1, <4>2 DEF AtGate, NamesOf
    <3> QED
      BY <3>1, <3>2
  <2> QED
    BY <2>1, <2>2
<1>4. call' \in [Call -> GateCall] /\ (\A d \in Call : Fit(call'[d])) /\ Alone' /\ InPlace'
  BY <1>1, <1>2, <1>3, NoCallFits, Continues
<1>5. GateTypeOK'
  BY <1>1, <1>2, <1>4 DEF GateInv, GateTypeOK, Label
<1> QED
  BY <1>4, <1>5 DEF GateInv

-----------------------------------------------------------------------------
(* Rebalancing. *)
LEMMA ListTicketsKeeps ==
    ASSUME GateInv, NEW c \in Call, ListTickets(c)
    PROVE  GateInv'
<1> DEFINE r == call[c]
           mine == Mine(ConcertOf[r.gate])
           all == Ascending(mine)
           x == [r EXCEPT !.step = "compare", !.list = all]
<1>1. /\ r \in GateCall /\ Fit(r) /\ c \in Changing /\ r.step = "list" /\ r.op = "rebalance"
      /\ r.gate \in Gate /\ r.names # <<>>
  BY AtStep DEF ListTickets, Fit
<1>2. /\ UNCHANGED <<gateName, ticket, calls, overlapped, clashed, broken>>
      /\ \/ call' = [call EXCEPT ![c] = NoCall]
         \/ call' = [call EXCEPT ![c] = x]
  BY DEF ListTickets, End, Mine
<1>3. Stage(c) => \A t \in Issued : AtGate(t)
  BY <1>1 DEF Stage
<1>4. CASE call' = [call EXCEPT ![c] = NoCall]
  BY <1>1, <1>2, <1>3, <1>4, EndsKeeps
<1>5. CASE call' = [call EXCEPT ![c] = x]
  <2>1. all \in Seq(GateTicket) /\ ToSet(all) = mine
    <3>1. mine \in SUBSET GateTicket
      BY DEF Mine
    <3>2. all \in Seq(mine) /\ ToSet(all) = mine
      BY <3>1, TicketsFinite, AscendingIs
    <3> HIDE DEF all
    <3> QED
      BY <3>1, <3>2
  <2> HIDE DEF all
  <2>2. /\ x \in GateCall /\ x.op = "rebalance" /\ x.step = "compare" /\ x.gate = r.gate
        /\ x.names = r.names /\ x.list = all /\ x.plan = r.plan /\ x # NoCall
    BY <1>1, <2>1 DEF GateCall, NoCall
  <2>3. Fit(x)
    BY <1>1, <2>2 DEF Fit
  <2>4. call'[c] = x
    BY <1>1, <1>5, <2>2, CallNow DEF GateInv
  <2> HIDE DEF x
  <2>5. ASSUME Stage(c) PROVE Stage(c)'
    <3>1. /\ ToSet(r.names) \subseteq NamesOf(ConcertOf[r.gate])
          /\ \A m \in ToSet(r.plan) : ConcertOf[m.t] = ConcertOf[r.gate] /\ m.to \in NamesOf(ConcertOf[r.gate])
      BY <1>1, <2>5 DEF Stage
    <3>2. \A t \in ToSet(all) : ConcertOf[t] = ConcertOf[r.gate]
      BY <2>1 DEF Mine
    <3> QED
      BY <1>2, <1>3, <2>2, <2>4, <2>5, <3>1, <3>2, SameNames DEF Stage
  <2> QED
    BY <1>1, <1>2, <1>5, <2>2, <2>3, <2>5, GoesKeeps
<1> QED
  BY <1>2, <1>4, <1>5

(* Turns name one of the gates. *)
LEMMA TurnIn ==
    ASSUME NEW S, NEW names \in Seq(S), names # <<>>, NEW i \in Nat
    PROVE  Turn(names, i) \in S /\ Turn(names, i) \in ToSet(names)
<1>1. Len(names) \in Nat /\ Len(names) > 0
  OBVIOUS
<1>2. i % Len(names) \in 0..(Len(names) - 1)
  BY <1>1
<1>3. (i % Len(names)) + 1 \in 1..Len(names)
  BY <1>1, <1>2
<1> QED
  BY <1>3 DEF Turn, ToSet

LEMMA AppendIs ==
    ASSUME NEW S, NEW p \in Seq(S), NEW m \in S
    PROVE  /\ Append(p, m) \in Seq(S) /\ ToSet(p) \subseteq ToSet(Append(p, m))
           /\ ToSet(Append(p, m)) \subseteq ToSet(p) \cup {m}
           /\ m \in ToSet(Append(p, m))
<1> DEFINE q == Append(p, m)
<1>1. /\ q \in Seq(S) /\ Len(q) = Len(p) + 1 /\ q[Len(p) + 1] = m
      /\ \A i \in 1..Len(p) : q[i] = p[i]
  OBVIOUS
<1>2. DOMAIN p = 1..Len(p) /\ DOMAIN q = 1..Len(q) /\ Len(p) \in Nat
  OBVIOUS
<1> HIDE DEF q
<1>3. ToSet(p) \subseteq ToSet(q) /\ m \in ToSet(q)
  BY <1>1, <1>2 DEF ToSet
<1>4. ToSet(q) \subseteq ToSet(p) \cup {m}
  <2>1. \A i \in 1..Len(q) : i \in 1..Len(p) \/ i = Len(p) + 1
    BY <1>1, <1>2
  <2> QED
    BY <1>1, <1>2, <2>1 DEF ToSet
<1> QED
  BY <1>1, <1>3, <1>4 DEF q

LEMMA HeadAndTail ==
    ASSUME NEW S, NEW p \in Seq(S), p # <<>>
    PROVE  /\ Len(p) \in Nat /\ Len(p) > 0 /\ Head(p) \in S /\ Head(p) = p[1] /\ Head(p) \in ToSet(p)
           /\ Tail(p) \in Seq(S) /\ Len(Tail(p)) = Len(p) - 1
           /\ \A j \in 1..(Len(p) - 1) : Tail(p)[j] = p[j + 1]
           /\ ToSet(Tail(p)) \subseteq ToSet(p)
           /\ Len(p) = 1 => ToSet(p) = {Head(p)}
           /\ ToSet(p) = {Head(p)} \cup ToSet(Tail(p))
<1> DEFINE q == Tail(p)
<1>1. /\ Len(p) \in Nat /\ Len(p) > 0 /\ Head(p) \in S /\ Head(p) = p[1]
      /\ q \in Seq(S) /\ Len(q) = Len(p) - 1
      /\ \A j \in 1..(Len(p) - 1) : q[j] = p[j + 1]
  OBVIOUS
<1>2. DOMAIN p = 1..Len(p) /\ DOMAIN q = 1..Len(q)
  BY <1>1
<1> HIDE DEF q
<1>3. Head(p) \in ToSet(p) /\ ToSet(q) \subseteq ToSet(p)
  <2>1. Head(p) \in ToSet(p)
    BY <1>1, <1>2 DEF ToSet
  <2>2. ASSUME NEW i \in 1..Len(q) PROVE q[i] \in ToSet(p)
    <3>1. q[i] = p[i + 1] /\ i + 1 \in 1..Len(p)
      BY <1>1
    <3> QED
      BY <1>2, <3>1 DEF ToSet
  <2> QED
    BY <1>2, <2>1, <2>2 DEF ToSet
<1>4. ToSet(p) \subseteq {Head(p)} \cup ToSet(q)
  <2>1. ASSUME NEW i \in 1..Len(p) PROVE p[i] = Head(p) \/ p[i] \in ToSet(q)
    <3>1. CASE i = 1
      BY <1>1, <3>1
    <3>2. CASE i # 1
      <4>1. i - 1 \in 1..(Len(p) - 1) /\ (i - 1) + 1 = i
        BY <1>1, <3>2
      <4>2. q[i - 1] = p[i]
        BY <1>1, <4>1
      <4> QED
        BY <1>1, <1>2, <4>1, <4>2 DEF ToSet
    <3> QED
      BY <3>1, <3>2
  <2> QED
    BY <1>2, <2>1 DEF ToSet
<1>5. Len(p) = 1 => ToSet(q) = {}
  BY <1>1, <1>2 DEF ToSet
<1> QED
  BY <1>1, <1>3, <1>4, <1>5 DEF q

(* What a comparison makes of the plan. *)
NextPlan(r) ==
    IF ticket[Head(r.list)].gate = Turn(r.names, r.i) THEN r.plan
    ELSE Append(r.plan, [t |-> Head(r.list), to |-> Turn(r.names, r.i)])

LEMMA NextPlanIs ==
    ASSUME NEW r \in GateCall, r.list # <<>>, r.names # <<>>
    PROVE  /\ Head(r.list) \in GateTicket /\ Head(r.list) = r.list[1]
           /\ Tail(r.list) \in Seq(GateTicket) /\ Len(Tail(r.list)) = Len(r.list) - 1
           /\ \A j \in 1..(Len(r.list) - 1) : Tail(r.list)[j] = r.list[j + 1]
           /\ Turn(r.names, r.i) \in Name /\ Turn(r.names, r.i) \in ToSet(r.names)
           /\ NextPlan(r) \in Seq([t : GateTicket, to : Name])
           /\ ToSet(r.plan) \subseteq ToSet(NextPlan(r))
           /\ ToSet(NextPlan(r)) \subseteq ToSet(r.plan) \cup {[t |-> Head(r.list), to |-> Turn(r.names, r.i)]}
           /\ \/ ticket[Head(r.list)].gate = Turn(r.names, r.i)
              \/ [t |-> Head(r.list), to |-> Turn(r.names, r.i)] \in ToSet(NextPlan(r))
<1> DEFINE m == [t |-> Head(r.list), to |-> Turn(r.names, r.i)]
<1>1. r.list \in Seq(GateTicket) /\ r.names \in Seq(Name) /\ r.plan \in Seq([t : GateTicket, to : Name]) /\ r.i \in Nat
  BY DEF GateCall
<1>2. /\ Head(r.list) \in GateTicket /\ Head(r.list) = r.list[1]
      /\ Tail(r.list) \in Seq(GateTicket) /\ Len(Tail(r.list)) = Len(r.list) - 1
      /\ \A j \in 1..(Len(r.list) - 1) : Tail(r.list)[j] = r.list[j + 1]
  BY <1>1
<1>3. Turn(r.names, r.i) \in Name /\ Turn(r.names, r.i) \in ToSet(r.names)
  BY <1>1, TurnIn
<1>4. m \in [t : GateTicket, to : Name]
  BY <1>2, <1>3
<1> HIDE DEF m
<1>5. /\ Append(r.plan, m) \in Seq([t : GateTicket, to : Name])
      /\ ToSet(r.plan) \subseteq ToSet(Append(r.plan, m))
      /\ ToSet(Append(r.plan, m)) \subseteq ToSet(r.plan) \cup {m}
      /\ m \in ToSet(Append(r.plan, m))
  <2> DEFINE T == [t : GateTicket, to : Name]
  <2>1. r.plan \in Seq(T) /\ m \in T
    BY <1>1, <1>4
  <2> HIDE DEF T
  <2>2. /\ Append(r.plan, m) \in Seq(T) /\ ToSet(r.plan) \subseteq ToSet(Append(r.plan, m))
        /\ ToSet(Append(r.plan, m)) \subseteq ToSet(r.plan) \cup {m}
        /\ m \in ToSet(Append(r.plan, m))
    BY <2>1, AppendIs
  <2> QED
    BY <2>2 DEF T
<1> QED
  BY <1>1, <1>2, <1>3, <1>5 DEF NextPlan, m

LEMMA CompareTicketCases ==
    ASSUME GateInv, NEW c \in Call, CompareTicket(c)
    PROVE  LET r == call[c]
           IN  /\ r \in GateCall /\ Fit(r) /\ c \in Changing /\ r.step = "compare" /\ r.op = "rebalance"
               /\ r.gate \in Gate /\ r.names # <<>>
               /\ UNCHANGED <<gateName, ticket, calls, overlapped, clashed, broken>>
               /\ \/ r.list = <<>> /\ r.plan = <<>> /\ call' = [call EXCEPT ![c] = NoCall]
                  \/ r.list = <<>> /\ r.plan # <<>> /\ call' = [call EXCEPT ![c] = [r EXCEPT !.step = "apply"]]
                  \/ /\ r.list # <<>>
                     /\ call' = [call EXCEPT ![c] = [r EXCEPT !.list = Tail(r.list), !.i = r.i + 1,
                                                              !.plan = NextPlan(r)]]
<1>1. /\ call[c] \in GateCall /\ Fit(call[c]) /\ c \in Changing /\ call[c].step = "compare" /\ call[c].op = "rebalance"
      /\ call[c].gate \in Gate /\ call[c].names # <<>>
  BY AtStep DEF CompareTicket, Fit
<1> QED
  BY <1>1 DEF CompareTicket, End, ToStep, NextPlan

LEMMA CompareTicketKeeps ==
    ASSUME GateInv, NEW c \in Call, CompareTicket(c)
    PROVE  GateInv'
<1> DEFINE r == call[c]
           k == ConcertOf[r.gate]
           y == [r EXCEPT !.step = "apply"]
           plan == NextPlan(r)
           rest == Tail(r.list)
           n == r.i + 1
           z == [r EXCEPT !.list = rest, !.i = n, !.plan = plan]
<1>1. /\ r \in GateCall /\ Fit(r) /\ c \in Changing /\ r.step = "compare" /\ r.op = "rebalance"
      /\ r.gate \in Gate /\ r.names # <<>>
      /\ UNCHANGED <<gateName, ticket, calls, overlapped, clashed, broken>>
      /\ \/ r.list = <<>> /\ r.plan = <<>> /\ call' = [call EXCEPT ![c] = NoCall]
         \/ r.list = <<>> /\ r.plan # <<>> /\ call' = [call EXCEPT ![c] = y]
         \/ r.list # <<>> /\ call' = [call EXCEPT ![c] = z]
  BY CompareTicketCases
<1> HIDE DEF plan, rest, n
<1>2. ASSUME Stage(c)
      PROVE  /\ \A t \in Issued : AtGate(t)
             /\ ToSet(r.names) \subseteq NamesOf(k)
             /\ \A t \in ToSet(r.list) : ConcertOf[t] = k
             /\ \A m \in ToSet(r.plan) : ConcertOf[m.t] = k /\ m.to \in NamesOf(k)
  BY <1>1, <1>2 DEF Stage
<1>3. CASE r.plan = <<>> /\ call' = [call EXCEPT ![c] = NoCall]
  BY <1>1, <1>2, <1>3, EndsKeeps
<1>4. CASE r.plan # <<>> /\ call' = [call EXCEPT ![c] = y]
  <2>1. /\ y \in GateCall /\ y.op = r.op /\ y.step = "apply" /\ y.gate = r.gate /\ y.names = r.names
        /\ y.plan = r.plan /\ y # NoCall
    BY <1>1, NextStep
  <2>2. Fit(y)
    BY <1>1, <1>4, <2>1 DEF Fit
  <2>3. call'[c] = y
    BY <1>1, <1>4, <2>1, CallNow DEF GateInv
  <2> HIDE DEF y
  <2>4. ASSUME Stage(c) PROVE Stage(c)'
    BY <1>1, <1>2, <2>1, <2>3, <2>4, SameNames DEF Stage
  <2> QED
    BY <1>1, <1>4, <2>1, <2>2, <2>4, GoesKeeps
<1>5. CASE r.list # <<>> /\ call' = [call EXCEPT ![c] = z]
  <2>1. /\ Head(r.list) = r.list[1] /\ Tail(r.list) \in Seq(GateTicket)
        /\ Len(Tail(r.list)) = Len(r.list) - 1
        /\ \A j \in 1..(Len(r.list) - 1) : Tail(r.list)[j] = r.list[j + 1]
        /\ Turn(r.names, r.i) \in ToSet(r.names)
        /\ NextPlan(r) \in Seq([t : GateTicket, to : Name])
        /\ ToSet(NextPlan(r)) \subseteq ToSet(r.plan) \cup {[t |-> Head(r.list), to |-> Turn(r.names, r.i)]}
    BY <1>1, <1>5, NextPlanIs
  <2>6. plan \in Seq([t : GateTicket, to : Name]) /\ rest \in Seq(GateTicket) /\ n \in Nat
    BY <1>1, <2>1 DEF GateCall, plan, rest, n
  <2>2. /\ z \in GateCall /\ z.op = r.op /\ z.step = "compare" /\ z.gate = r.gate /\ z.names = r.names
        /\ z.list = rest /\ z.plan = plan /\ z # NoCall
    BY <1>1, <2>6 DEF GateCall, NoCall
  <2>3. Fit(z)
    BY <1>1, <2>2 DEF Fit
  <2>4. call'[c] = z
    BY <1>1, <1>5, <2>2, CallNow DEF GateInv
  <2> HIDE DEF z
  <2>5. ASSUME Stage(c) PROVE Stage(c)'
    <3>1. r.list \in Seq(GateTicket)
      BY <1>1 DEF GateCall
    <3>2. Head(r.list) \in ToSet(r.list)
      BY <1>5, <2>1, <3>1 DEF ToSet
    <3>3. \A t \in ToSet(rest) : ConcertOf[t] = k
      <4>1. ToSet(rest) \subseteq ToSet(r.list)
        BY <1>5, <2>1, <3>1 DEF ToSet, rest
      <4> QED
        BY <1>2, <2>5, <4>1
    <3>4. \A m \in ToSet(plan) : ConcertOf[m.t] = k /\ m.to \in NamesOf(k)
      BY <1>2, <2>1, <2>5, <3>2 DEF plan
    <3> QED
      BY <1>1, <1>2, <2>2, <2>4, <2>5, <3>3, <3>4, SameNames DEF Stage
  <2> QED
    BY <1>1, <1>5, <2>2, <2>3, <2>5, GoesKeeps
<1> QED
  BY <1>1, <1>3, <1>4, <1>5

LEMMA ApplyMoveKeeps ==
    ASSUME GateInv, NEW c \in Call, ApplyMove(c)
    PROVE  GateInv'
<1> DEFINE r == call[c]
           m == Head(r.plan)
           k == ConcertOf[r.gate]
           rest == Tail(r.plan)
           x == IF Len(r.plan) = 1 THEN NoCall ELSE [r EXCEPT !.plan = rest]
<1>1. /\ r \in GateCall /\ Fit(r) /\ c \in Changing /\ r.step = "apply" /\ r.op = "rebalance"
      /\ r.gate \in Gate /\ r.names # <<>> /\ r.plan # <<>>
  BY AtStep DEF ApplyMove, Fit
<1>2. /\ UNCHANGED <<gateName, calls, overlapped, clashed, broken>>
      /\ ticket' = [ticket EXCEPT ![m.t] = Assign(m.t, m.to)]
      /\ call' = [call EXCEPT ![c] = x]
  BY DEF ApplyMove, End
<1>3. /\ r.plan \in Seq([t : GateTicket, to : Name]) /\ m \in [t : GateTicket, to : Name]
      /\ m \in ToSet(r.plan)
      /\ rest \in Seq([t : GateTicket, to : Name]) /\ Len(rest) = Len(r.plan) - 1
      /\ ToSet(rest) \subseteq ToSet(r.plan) /\ Len(r.plan) \in Nat /\ Len(r.plan) > 0
  <2> DEFINE T == [t : GateTicket, to : Name]
  <2>1. r.plan \in Seq(T)
    BY <1>1 DEF GateCall
  <2> HIDE DEF T
  <2>2. /\ m \in T /\ m \in ToSet(r.plan) /\ rest \in Seq(T) /\ Len(rest) = Len(r.plan) - 1
        /\ ToSet(rest) \subseteq ToSet(r.plan) /\ Len(r.plan) \in Nat /\ Len(r.plan) > 0
    BY <1>1, <2>1, HeadAndTail
  <2> QED
    BY <2>1, <2>2 DEF T
<1> HIDE DEF rest, m
<1>4. /\ x \in GateCall /\ Fit(x) /\ (x = NoCall \/ x.op = r.op)
      /\ x # NoCall => /\ x.op = "rebalance" /\ x.step = "apply" /\ x.gate = r.gate
                       /\ x.names = r.names /\ x.plan = rest
  <2>1. CASE Len(r.plan) = 1
    BY <2>1, NoCallFits
  <2>2. CASE Len(r.plan) # 1
    <3> DEFINE y == [r EXCEPT !.plan = rest]
    <3>1. /\ y \in GateCall /\ y.op = "rebalance" /\ y.step = "apply" /\ y.gate = r.gate
          /\ y.names = r.names /\ y.plan = rest
      BY <1>1, <1>3 DEF GateCall
    <3>2. rest # <<>>
      <4>1. Len(rest) # 0
        BY <1>3, <2>2
      <4> QED
        BY <4>1
    <3> HIDE DEF y
    <3>3. Fit(y)
      BY <1>1, <3>1, <3>2 DEF Fit
    <3> QED
      BY <1>1, <2>2, <3>1, <3>3 DEF y
  <2> QED
    BY <2>1, <2>2
<1>5. call'[c] = x
  BY <1>2, <1>4, CallNow DEF GateInv
<1> HIDE DEF x
<1>6. /\ m.t \in GateTicket /\ m.to \in Name
      /\ ticket' \in [GateTicket -> [status : {"NEW", "ISSUED", "CHECKED_IN"}, gate : Label, sig : Label]]
      /\ ticket'[m.t].gate = m.to
      /\ \A t \in GateTicket : ticket'[t].status = ticket[t].status
      /\ \A t \in GateTicket \ {m.t} : ticket'[t] = ticket[t]
  <2>1. m.t \in GateTicket /\ m.to \in Name
    BY <1>3
  <2>2. ticket \in [GateTicket -> [status : {"NEW", "ISSUED", "CHECKED_IN"}, gate : Label, sig : Label]]
    BY DEF GateInv, GateTypeOK
  <2>3. /\ Assign(m.t, m.to) \in [status : {"NEW", "ISSUED", "CHECKED_IN"}, gate : Label, sig : Label]
        /\ Assign(m.t, m.to).status = ticket[m.t].status /\ Assign(m.t, m.to).gate = m.to
    BY <2>1, <2>2 DEF Assign, Label
  <2> QED
    BY <1>2, <2>1, <2>2, <2>3
<1>7. Issued' = Issued
  BY <1>6 DEF Issued
<1>8. \A q : NamesOf(q)' = NamesOf(q)
  BY <1>2 DEF NamesOf, GatesOf
<1>9. ASSUME Stage(c)
      PROVE  /\ \A t \in Issued' : AtGate(t)'
             /\ ToSet(r.names) \subseteq NamesOf(k)
             /\ \A p \in ToSet(r.plan) : ConcertOf[p.t] = k /\ p.to \in NamesOf(k)
  <2>1. /\ \A t \in Issued : AtGate(t)
        /\ ToSet(r.names) \subseteq NamesOf(k)
        /\ \A p \in ToSet(r.plan) : ConcertOf[p.t] = k /\ p.to \in NamesOf(k)
    BY <1>1, <1>9 DEF Stage
  <2>2. ConcertOf[m.t] = k /\ m.to \in NamesOf(k)
    BY <1>3, <2>1
  <2>3. ASSUME NEW t \in Issued PROVE AtGate(t)'
    <3>1. t \in GateTicket
      BY DEF Issued
    <3>2. CASE t = m.t
      BY <1>6, <1>8, <2>2, <3>2 DEF AtGate
    <3>3. CASE t # m.t
      BY <1>6, <1>8, <2>1, <3>1, <3>3 DEF AtGate
    <3> QED
      BY <3>2, <3>3
  <2> QED
    BY <1>7, <2>1, <2>3
<1>10. ASSUME Stage(c), x # NoCall PROVE Stage(c)'
  BY <1>3, <1>4, <1>5, <1>8, <1>9, <1>10 DEF Stage
<1>11. call' \in [Call -> GateCall] /\ (\A d \in Call : Fit(call'[d])) /\ Alone' /\ InPlace'
  BY <1>1, <1>2, <1>4, <1>9, <1>10, Continues
<1>12. GateTypeOK'
  BY <1>2, <1>6, <1>11 DEF GateInv, GateTypeOK
<1> QED
  BY <1>11, <1>12 DEF GateInv

-----------------------------------------------------------------------------
(* Issue and check-in of a ticket. *)
LEMMA StartIssueKeeps ==
    ASSUME GateInv, NEW c \in Call, NEW t \in GateTicket, NEW n \in Label, StartIssueAtGate(c, t, n)
    PROVE  GateInv'
<1> DEFINE x == [NoCall EXCEPT !.op = "issue", !.step = "create", !.list = <<t>>, !.to = n]
<1>1. x \in GateCall /\ x.op = "issue" /\ x.step = "create" /\ x.list = <<t>> /\ x.to = n
  <2>1. <<t>> \in Seq(GateTicket)
    OBVIOUS
  <2> DEFINE l == <<t>>
  <2> HIDE DEF l
  <2>2. [NoCall EXCEPT !.op = "issue", !.step = "create", !.list = l, !.to = n] \in GateCall
    BY <2>1, NoCallFits DEF GateCall, l
  <2> QED
    BY <2>2 DEF GateCall, l, NoCall
<1>2. Fit(x)
  BY <1>1 DEF Fit
<1> HIDE DEF x
<1>3. Begin(c, x) /\ UNCHANGED <<gateName, ticket, calls, clashed, broken>> /\ n \in LeastLoaded(ConcertOf[t])
  BY DEF StartIssueAtGate, x
<1>4. n \in NamesOf(ConcertOf[t]) \cup {None}
  BY <1>3 DEF LeastLoaded
<1>5. call'[c] = x
  BY <1>1, <1>3, CallNow DEF Begin, GateInv
<1>6. ASSUME \A u \in Issued : AtGate(u) PROVE Stage(c)'
  BY <1>1, <1>3, <1>4, <1>5, <1>6, SameNames DEF Stage
<1>7. /\ call' \in [Call -> GateCall] /\ \A d \in Call : Fit(call'[d])
      /\ Alone' /\ InPlace' /\ overlapped' \subseteq {"change", "scan"}
  BY <1>1, <1>2, <1>3, <1>6, Starts
<1>8. GateTypeOK'
  BY <1>3, <1>7 DEF GateInv, GateTypeOK
<1> QED
  BY <1>7, <1>8 DEF GateInv

LEMMA CreateTicketKeeps ==
    ASSUME GateInv, NEW c \in Call, CreateTicket(c)
    PROVE  GateInv'
<1> DEFINE r == call[c]
           v == [status |-> "ISSUED", gate |-> r.to, sig |-> r.to]
<1>1. /\ r \in GateCall /\ Fit(r) /\ c \in Changing /\ r.step = "create" /\ r.op = "issue" /\ Len(r.list) = 1
  BY AtStep DEF CreateTicket, Fit
<1>2. /\ UNCHANGED <<gateName, calls, overlapped, clashed, broken>>
      /\ ticket' = [ticket EXCEPT ![Head(r.list)] = v] /\ call' = [call EXCEPT ![c] = NoCall]
  BY DEF CreateTicket, End
<1>3. Head(r.list) \in GateTicket /\ Head(r.list) = r.list[1] /\ r.to \in Label
  BY <1>1 DEF GateCall
<1>7. PICK t \in GateTicket : t = Head(r.list) /\ t = r.list[1]
  BY <1>3
<1>4. /\ ticket' \in [GateTicket -> [status : {"NEW", "ISSUED", "CHECKED_IN"}, gate : Label, sig : Label]]
      /\ ticket'[t].gate = r.to /\ \A u \in GateTicket \ {t} : ticket'[u] = ticket[u]
  BY <1>2, <1>3, <1>7 DEF GateInv, GateTypeOK
<1>5. ASSUME Stage(c) PROVE \A u \in Issued' : AtGate(u)'
  <2>1. /\ \A u \in Issued : AtGate(u)
        /\ r.to \in NamesOf(ConcertOf[t]) \cup {None}
    BY <1>1, <1>7, <1>5 DEF Stage
  <2>2. \A q : NamesOf(q)' = NamesOf(q)
    BY <1>2 DEF NamesOf, GatesOf
  <2>3. ASSUME NEW u \in GateTicket, u # t, u \in Issued' PROVE AtGate(u)'
    <3>1. u \in Issued
      BY <1>4, <2>3 DEF Issued
    <3> QED
      BY <1>4, <2>1, <2>2, <2>3, <3>1 DEF AtGate
  <2>4. AtGate(t)'
    BY <1>4, <2>1, <2>2 DEF AtGate
  <2> QED
    BY <2>3, <2>4 DEF Issued
<1>6. call' \in [Call -> GateCall] /\ (\A d \in Call : Fit(call'[d])) /\ Alone' /\ InPlace'
  BY <1>1, <1>2, <1>5, NoCallFits, Continues
<1>8. GateTypeOK'
  BY <1>2, <1>4, <1>6 DEF GateInv, GateTypeOK
<1> QED
  BY <1>6, <1>8 DEF GateInv

LEMMA StartScanKeeps ==
    ASSUME GateInv, NEW c \in Call, NEW t \in GateTicket, NEW n \in Name, StartScanAtGate(c, t, n)
    PROVE  GateInv'
<1> DEFINE x == [NoCall EXCEPT !.op = "scan", !.step = "checkin", !.list = <<t>>, !.from = n]
<1>1. x \in GateCall /\ x.op = "scan" /\ x.step = "checkin" /\ x.list = <<t>>
  <2>1. <<t>> \in Seq(GateTicket) /\ n \in Label
    BY DEF Label
  <2> DEFINE l == <<t>>
  <2> HIDE DEF l
  <2>2. [NoCall EXCEPT !.op = "scan", !.step = "checkin", !.list = l, !.from = n] \in GateCall
    BY <2>1, NoCallFits DEF GateCall, l
  <2> QED
    BY <2>2 DEF GateCall, l, NoCall
<1>2. Fit(x)
  BY <1>1 DEF Fit
<1> HIDE DEF x
<1>3. /\ call[c].step = "idle" /\ call' = [call EXCEPT ![c] = x] /\ Meet("scan")
      /\ UNCHANGED <<gateName, ticket, calls, clashed, broken>>
  BY <1>1 DEF StartScanAtGate, Begin, x
<1>4. /\ call' \in [Call -> GateCall] /\ call'[c] = x
      /\ \A d \in Call \ {c} : call'[d] = call[d]
  BY <1>1, <1>3, CallNow DEF GateInv
<1>5. \A d \in Call : Fit(call'[d])
  BY <1>2, <1>4 DEF GateInv
<1>6. Changing' = Changing /\ Running' = Running \cup {c} /\ c \notin Changing
  BY <1>1, <1>3, <1>4 DEF Changing, Running, Scanning
<1>7. /\ overlapped \subseteq overlapped' /\ overlapped' \subseteq {"change", "scan"}
      /\ "change" \in overlapped' => "change" \in overlapped
      /\ Changing # {} => "scan" \in overlapped'
  BY <1>3 DEF Meet, Changing, GateInv, GateTypeOK
<1>8. Alone'
  BY <1>6, <1>7 DEF GateInv, Alone
<1>9. InPlace'
  <2>1. Issued' = Issued
    BY <1>3 DEF Issued
  <2>2. \A d \in Changing : call'[d] = call[d]
    BY <1>4, <1>6 DEF Changing, Running
  <2> QED
    BY <1>3, <1>6, <1>7, <2>1, <2>2, PlacesStay
<1>10. GateTypeOK'
  BY <1>3, <1>4, <1>7 DEF GateInv, GateTypeOK
<1> QED
  BY <1>5, <1>8, <1>9, <1>10, <1>4 DEF GateInv

LEMMA CheckInKeeps ==
    ASSUME GateInv, NEW c \in Call, CheckInAtGate(c)
    PROVE  GateInv'
<1> DEFINE t == Head(call[c].list)
<1>1. /\ call[c] \in GateCall /\ call[c].step = "checkin" /\ call[c].op = "scan" /\ Len(call[c].list) = 1
  BY AtStep DEF CheckInAtGate, Fit
<1>2. /\ UNCHANGED <<gateName, calls, overlapped, clashed, broken>>
      /\ ticket' = IF ticket[t].status = "ISSUED" THEN [ticket EXCEPT ![t].status = "CHECKED_IN"] ELSE ticket
      /\ call' = [call EXCEPT ![c] = NoCall]
  BY DEF CheckInAtGate, End
<1>3. t \in GateTicket
  BY <1>1 DEF GateCall
<1> HIDE DEF t
<1>4. /\ ticket' \in [GateTicket -> [status : {"NEW", "ISSUED", "CHECKED_IN"}, gate : Label, sig : Label]]
      /\ \A u \in GateTicket : /\ ticket'[u].gate = ticket[u].gate
                               /\ ticket'[u].status = "NEW" <=> ticket[u].status = "NEW"
  BY <1>2, <1>3 DEF GateInv, GateTypeOK
<1>5. Issued' = Issued
  BY <1>4 DEF Issued
<1>6. /\ call' \in [Call -> GateCall] /\ \A d \in Call : Fit(call'[d])
      /\ Alone' /\ Changing' \subseteq Changing /\ Changing \ {c} \subseteq Changing'
  BY <1>1, <1>2, NoCallFits, GoesOn
<1>7. c \notin Changing
  BY <1>1 DEF Changing, Scanning
<1>8. \A d \in Changing : call'[d] = call[d]
  BY <1>2, <1>7, NoCallFits, CallNow DEF GateInv, Changing, Running
<1>9. InPlace'
  <2>1. \A u \in Issued : ticket'[u].gate = ticket[u].gate
    BY <1>4 DEF Issued
  <2> QED
    BY <1>2, <1>5, <1>6, <1>7, <1>8, <2>1, PlacesStay
<1>10. GateTypeOK'
  BY <1>2, <1>4, <1>6 DEF GateInv, GateTypeOK
<1> QED
  BY <1>6, <1>9, <1>10 DEF GateInv

LEMMA GateCrashKeeps ==
    ASSUME GateInv, NEW c \in Call, GateCrash(c)
    PROVE  GateInv'
<1>1. /\ UNCHANGED <<gateName, ticket, calls, overlapped, clashed>> /\ broken'
      /\ call' = [call EXCEPT ![c] = NoCall] /\ call[c].step # "idle" /\ broken' \in BOOLEAN
  BY DEF GateCrash, End
<1>2. /\ call' \in [Call -> GateCall] /\ \A d \in Call : Fit(call'[d])
      /\ Alone'
  BY <1>1, NoCallFits, GoesOn
<1>3. InPlace'
  BY <1>1 DEF InPlace, Quiet
<1>4. GateTypeOK'
  BY <1>1, <1>2 DEF GateInv, GateTypeOK
<1> QED
  BY <1>2, <1>3, <1>4 DEF GateInv

LEMMA GateInvInit == GateInit => GateInv
<1> SUFFICES ASSUME GateInit PROVE GateInv
  OBVIOUS
<1>1. GateTypeOK
  <2>1. gateName \in [Gate -> Label] /\ calls \in 0..MaxCalls
    BY GateAssumption DEF GateInit
  <2>2. \A t \in GateTicket : ticket[t] \in [status : {"NEW", "ISSUED", "CHECKED_IN"}, gate : Label, sig : Label]
    BY DEF GateInit, Label
  <2>3. call \in [Call -> GateCall]
    BY NoCallFits DEF GateInit
  <2> QED
    BY <2>1, <2>2, <2>3 DEF GateInit, GateTypeOK
<1>2. Running = {} /\ Changing = {} /\ Issued = {} /\ \A c \in Call : Fit(call[c])
  BY NoCallFits DEF GateInit, Running, Changing, Issued
<1> QED
  BY <1>1, <1>2 DEF GateInv, Alone, InPlace

LEMMA GateInvNext == GateInv /\ [GateNext]_gateVars => GateInv'
<1> SUFFICES ASSUME GateInv, [GateNext]_gateVars PROVE GateInv'
  OBVIOUS
<1>1. CASE UNCHANGED gateVars
  <2>1. GateTypeOK' /\ Running' = Running /\ Changing' = Changing /\ \A c \in Call : Fit(call'[c])
    BY <1>1 DEF gateVars, GateInv, GateTypeOK, Running, Changing, Scanning
  <2>2. Alone'
    BY <1>1, <2>1 DEF gateVars, GateInv, Alone
  <2>3. InPlace'
    <3>1. Issued' = Issued /\ UNCHANGED <<gateName, ticket, call, overlapped, clashed, broken>>
      BY <1>1 DEF gateVars, Issued
    <3> QED
      BY <2>1, <3>1, PlacesStay
  <2> QED
    BY <2>1, <2>2, <2>3 DEF GateInv
<1>2. CASE GateNext
  BY <1>2, CreateGateKeeps, StartRenameKeeps, StartRemoveKeeps, StartRebalanceKeeps, WriteNameKeeps,
     CountTicketsKeeps, PickTargetKeeps, FindTicketsKeeps, MoveTicketsKeeps, DeleteGateKeeps,
     ListTicketsKeeps, CompareTicketKeeps, ApplyMoveKeeps, CreateTicketKeeps, CheckInKeeps,
     GateCrashKeeps, StartIssueKeeps, StartScanKeeps DEF GateNext
<1> QED
  BY <1>1, <1>2

(***************************************************************************)
(* A ticket's gate is a gate of its concert (or none), whatever was        *)
(* renamed, removed and rebalanced and whoever was scanned meanwhile, as   *)
(* long as what changes gates came one after the other, nothing stopped    *)
(* half-way and no namesake gate of another concert lost a ticket: for any *)
(* number of gates, names, concerts, tickets and calls.                    *)
(***************************************************************************)
THEOREM TicketsHaveGates == GateSpec => [](GateTypeOK /\ TicketsAtGates)
<1>1. GateInv => GateTypeOK /\ TicketsAtGates
  BY DEF GateInv, InPlace, Quiet, TicketsAtGates, Changing, AtGate
<1> QED
  BY <1>1, GateInvInit, GateInvNext, PTL DEF GateSpec

-----------------------------------------------------------------------------
(* When every ticket of S has its turn, the loads differ by at most one. *)
HaveTurns(S, N, g) ==
    /\ IsFiniteSet(S) /\ S \subseteq Int /\ IsFiniteSet(N) /\ N \subseteq Int
    /\ \A j \in 1..Len(Ascending(S)) : g[Ascending(S)[j]] = Turn(Ascending(N), j - 1)
LoadAt(S, g, n) == Cardinality({t \in S : g[t] = n})
TurnsOf(N, L, a) == Cardinality({j \in 1..N : (j - 1) % L = a})

LEMMA LoadIs ==
    ASSUME NEW S, NEW N, NEW g, HaveTurns(S, N, g), NEW m \in N
    PROVE  \E a \in 0..(Len(Ascending(N)) - 1) :
             LoadAt(S, g, m) = TurnsOf(Len(Ascending(S)), Len(Ascending(N)), a)
<1>0. /\ IsFiniteSet(S) /\ S \subseteq Int /\ IsFiniteSet(N) /\ N \subseteq Int
      /\ \A j \in 1..Len(Ascending(S)) : g[Ascending(S)[j]] = Turn(Ascending(N), j - 1)
  BY DEF HaveTurns
<1>1. PICK full, L, names :
         /\ full = Ascending(S) /\ names = Ascending(N) /\ L = Len(names)
  OBVIOUS
<1>2. /\ full \in Seq(S) /\ Len(full) \in Nat /\ ToSet(full) = S
      /\ \A i, j \in 1..Len(full) : i < j => full[i] < full[j]
  BY <1>0, <1>1, AscendingIs
<1>3. /\ names \in Seq(N) /\ L \in Nat /\ ToSet(names) = N
      /\ \A i, j \in 1..L : i < j => names[i] < names[j]
  BY <1>0, <1>1, AscendingIs
<1>4. PICK b \in 1..L : names[b] = m
  BY <1>1, <1>3 DEF ToSet
<1>5. PICK a \in 0..(L - 1) : a + 1 = b /\ L > 0
  BY <1>3, <1>4
<1> DEFINE J == {j \in 1..Len(full) : (j - 1) % L = a}
           T == {t \in S : g[t] = m}
           f == [j \in J |-> full[j]]
<1>6. ASSUME NEW j \in 1..Len(full)
      PROVE  full[j] \in S /\ full[j] \in Int /\ (g[full[j]] = m <=> (j - 1) % L = a)
  <2>0. full[j] \in S
    BY <1>2
  <2>1. full[j] \in S /\ full[j] \in Int
    BY <1>0, <2>0
  <2>2. g[full[j]] = names[((j - 1) % L) + 1]
    BY <1>0, <1>1 DEF Turn
  <2>3. PICK q \in 0..(L - 1) : q = (j - 1) % L
    BY <1>3, <1>5
  <2>4. names[q + 1] \in Int /\ names[a + 1] \in Int
    <3>1. q + 1 \in 1..Len(names) /\ a + 1 \in 1..Len(names)
      BY <1>1, <1>3
    <3>2. names[q + 1] \in N /\ names[a + 1] \in N
      BY <1>3, <3>1
    <3> QED
      BY <1>0, <3>2
  <2>5. names[q + 1] = names[a + 1] => q = a
    <3>1. q + 1 \in 1..L /\ a + 1 \in 1..L
      BY <1>3
    <3>2. q < a => names[q + 1] < names[a + 1]
      BY <1>3, <3>1
    <3>3. a < q => names[a + 1] < names[q + 1]
      BY <1>3, <3>1
    <3> QED
      BY <1>3, <2>4, <3>2, <3>3
  <2> QED
    BY <1>4, <1>5, <2>1, <2>2, <2>3, <2>5
<1>7. f \in [J -> T]
  BY <1>6
<1>8. \A i, j \in J : f[i] = f[j] => i = j
  <2>1. SUFFICES ASSUME NEW i \in J, NEW j \in J, full[i] = full[j] PROVE i = j
    OBVIOUS
  <2>2. i \in 1..Len(full) /\ j \in 1..Len(full)
    OBVIOUS
  <2>3. full[i] \in Int /\ full[j] \in Int
    BY <1>6, <2>2
  <2>4. ~ (i < j) /\ ~ (j < i)
    BY <1>2, <2>1, <2>2, <2>3
  <2> QED
    BY <1>2, <2>2, <2>4
<1>9. ASSUME NEW t \in T PROVE \E j \in J : f[j] = t
  <2>1. PICK j \in 1..Len(full) : full[j] = t
    BY <1>2 DEF ToSet
  <2> QED
    BY <1>6, <2>1
<1>10. IsFiniteSet(J)
  <2>1. J \in SUBSET (1..Len(full))
    OBVIOUS
  <2>2. IsFiniteSet(1..Len(full))
    BY <1>2, FS_Interval
  <2> HIDE DEF J
  <2> QED
    BY <2>1, <2>2, FS_Subset
<1>11. Cardinality(T) = Cardinality(J)
  <2> HIDE DEF J, T, f
  <2>1. f \in Bijection(J, T)
    BY <1>7, <1>8, <1>9 DEF Bijection, Injection, Surjection, IsInjective
  <2> QED
    BY <1>10, <2>1, FS_Bijection DEF ExistsBijection
<1> QED
  BY <1>1, <1>5, <1>11 DEF LoadAt, TurnsOf

LEMMA AllHaveTurns ==
    ASSUME NEW S, NEW N, NEW g, HaveTurns(S, N, g), NEW m \in N, NEW n \in N
    PROVE  LoadAt(S, g, m) - LoadAt(S, g, n) <= 1
<1>1. PICK L, K : L = Len(Ascending(N)) /\ K = Len(Ascending(S))
  OBVIOUS
<1>2. L \in Nat /\ K \in Nat
  BY <1>1, AscendingIs DEF HaveTurns
<1>3. PICK a \in 0..(L - 1) : LoadAt(S, g, m) = TurnsOf(K, L, a)
  BY <1>1, LoadIs
<1>4. PICK b \in 0..(L - 1) : LoadAt(S, g, n) = TurnsOf(K, L, b)
  BY <1>1, LoadIs
<1>5. L > 0
  BY <1>2, <1>3
<1>6. TurnsOf(K, L, a) - TurnsOf(K, L, b) <= 1
  BY <1>2, <1>5, TurnsEven DEF TurnsOf
<1> QED
  BY <1>3, <1>4, <1>6

LEMMA Spreads ==
    ASSUME GateTypeOK, GateTypeOK', NEW k, NamesOf(k)' = NamesOf(k), Mine(k)' = Mine(k),
           \A j \in 1..Len(Ascending(Mine(k))) :
             ticket'[Ascending(Mine(k))[j]].gate = Turn(Ascending(NamesOf(k)), j - 1)
    PROVE  Spread(k)'
<1>1. PICK S, N, tk : S = Mine(k) /\ N = NamesOf(k) /\ tk = ticket'
  OBVIOUS
<1>2. S \in SUBSET GateTicket
  BY <1>1 DEF Mine
<1>3. IsFiniteSet(S) /\ S \subseteq Int /\ IsFiniteSet(N) /\ N \subseteq Int
  BY <1>1, <1>2, TicketsFinite, NamesFinite
<1>4. PICK g : g = [t \in GateTicket |-> tk[t].gate]
  OBVIOUS
<1>5. \A j \in 1..Len(Ascending(S)) : g[Ascending(S)[j]] = Turn(Ascending(N), j - 1)
  <2>1. SUFFICES ASSUME NEW j \in 1..Len(Ascending(S)) PROVE Ascending(S)[j] \in GateTicket
    BY <1>1, <1>4
  <2>2. Ascending(S) \in Seq(S)
    BY <1>3, AscendingIs
  <2> QED
    BY <1>2, <2>2
<1>6. ASSUME NEW n
      PROVE  {t \in GateTicket : ConcertOf[t] = k /\ ticket'[t].gate = n /\ ticket'[t].status = "ISSUED"}
               = {t \in S : g[t] = n}
  <2>1. S = {t \in GateTicket : ConcertOf[t] = k /\ ticket'[t].status = "ISSUED"}
    BY <1>1 DEF Mine
  <2> QED
    BY <1>1, <1>4, <2>1
<1>7. HaveTurns(S, N, g)
  BY <1>3, <1>5 DEF HaveTurns
<1>8. \A m, n \in N : Cardinality({t \in S : g[t] = m}) - Cardinality({t \in S : g[t] = n}) <= 1
  BY <1>7, AllHaveTurns DEF LoadAt
<1> DEFINE Loaded(n) == {t \in GateTicket : ConcertOf[t] = k /\ ticket'[t].gate = n /\ ticket'[t].status = "ISSUED"}
<1>9. ASSUME NEW m \in NamesOf(k)', NEW n \in NamesOf(k)'
      PROVE  Cardinality(Loaded(m)) - Cardinality(Loaded(n)) <= 1
  <2>1. Loaded(m) = {t \in S : g[t] = m} /\ Loaded(n) = {t \in S : g[t] = n}
    BY <1>6
  <2>2. Cardinality({t \in S : g[t] = m}) - Cardinality({t \in S : g[t] = n}) <= 1
    BY <1>1, <1>8
  <2> HIDE DEF Loaded
  <2> QED
    BY ONLY <2>1, <2>2
<1> QED
  BY <1>9 DEF Spread

(* The rebalance of a concert has nothing beside it. *)
LEMMA NothingBeside ==
    ASSUME GateInv, overlapped = {}, NEW c \in Running, NEW d \in Call, d # c
    PROVE  call[d].op # "rebalance"
<1> SUFFICES ASSUME call[d].op = "rebalance" PROVE FALSE
  OBVIOUS
<1>1. d \in Changing
  BY FitOps DEF GateInv, GateTypeOK, Changing, Running, Scanning
<1> QED
  BY <1>1 DEF GateInv, Alone

LEMMA RoundsKept ==
    ASSUME GateInv, NEW c \in Call, NEW x \in GateCall, call' = [call EXCEPT ![c] = x],
           call[c].step # "idle", UNCHANGED overlapped,
           overlapped = {} /\ x.op = "rebalance" => Round(c)'
    PROVE  Rounds'
<1>1. call'[c] = x /\ \A d \in Call \ {c} : call'[d] = call[d]
  BY CallNow DEF GateInv
<1>2. SUFFICES ASSUME overlapped = {}, NEW d \in Call PROVE Round(d)'
  BY DEF Rounds
<1>3. c \in Running
  BY DEF Running
<1>4. CASE d = c
  BY <1>1, <1>2, <1>4 DEF Round
<1>5. CASE d # c
  <2>1. call'[d].op # "rebalance"
    BY <1>1, <1>2, <1>3, <1>5, NothingBeside
  <2> QED
    BY <2>1 DEF Round
<1> QED
  BY <1>4, <1>5

LEMMA RoundsBegun ==
    ASSUME GateInv, NEW c \in Call, NEW x \in GateCall, Begin(c, x),
           x.op = "rebalance" => Round(c)'
    PROVE  Rounds'
<1>1. call'[c] = x /\ \A d \in Call \ {c} : call'[d] = call[d]
  BY CallNow DEF GateInv, Begin
<1>2. SUFFICES ASSUME overlapped' = {}, NEW d \in Call PROVE Round(d)'
  BY DEF Rounds
<1>3. Changing = {}
  BY <1>2 DEF Begin, Meet, Changing
<1>4. CASE d = c
  BY <1>1, <1>4 DEF Round
<1>5. CASE d # c
  <2>1. call[d].op # "rebalance"
    BY <1>3, FitOps DEF GateInv, GateTypeOK, Changing, Running, Scanning
  <2> QED
    BY <1>1, <1>5, <2>1 DEF Round
<1> QED
  BY <1>4, <1>5

(* It begins with the gates by name, ... *)
LEMMA RoundStarts ==
    ASSUME GateInv, NEW c \in Call, NEW g \in Gate, StartRebalance(c, g)
    PROVE  Rounds'
<1>1. PICK names : names = Ascending(NamesOf(ConcertOf[g]))
  OBVIOUS
<1>2. names \in Seq(Name)
  <2>1. names \in Seq(NamesOf(ConcertOf[g])) /\ NamesOf(ConcertOf[g]) \subseteq Name
    BY <1>1, NamesFinite, AscendingIs DEF GateInv
  <2> QED
    BY <2>1
<1> DEFINE x == [NoCall EXCEPT !.op = "rebalance", !.step = "list", !.gate = g, !.names = names]
<1>3. /\ x \in GateCall /\ x.op = "rebalance" /\ x.step = "list" /\ x.gate = g /\ x.names = names
      /\ x.list = <<>> /\ x.plan = <<>> /\ x.i = 0
  BY <1>2, NoCallFits DEF GateCall, NoCall
<1>4. Begin(c, x) /\ UNCHANGED <<gateName, ticket>>
  BY <1>1 DEF StartRebalance, BeginChange
<1> HIDE DEF x
<1>5. call'[c] = x
  BY <1>3, <1>4, CallNow DEF Begin, GateInv
<1>6. NamesOf(ConcertOf[g])' = NamesOf(ConcertOf[g])
  BY <1>4, SameNames
<1>7. Round(c)'
  BY <1>1, <1>3, <1>5, <1>6 DEF Round, RoundOf
<1> QED
  BY <1>3, <1>4, <1>7, RoundsBegun

(* ... lists the tickets, ... *)
LEMMA RoundListed ==
    ASSUME GateInv, NEW c \in Call, Rounds, ListTickets(c), NEW k, k = ConcertOf[call[c].gate]
    PROVE  /\ Rounds'
           /\ overlapped = {} /\ call'[c].op = "none" => Spread(k)'
<1> DEFINE r == call[c]
<1>1. /\ r \in GateCall /\ c \in Changing /\ r.step = "list" /\ r.op = "rebalance"
  BY AtStep DEF ListTickets
<1>2. PICK full : full = Ascending(Mine(k))
  OBVIOUS
<1>3. full \in Seq(GateTicket) /\ (Mine(k) = {} => Len(full) = 0)
  <2>1. Mine(k) \in SUBSET GateTicket
    BY DEF Mine
  <2>2. full \in Seq(Mine(k)) /\ Len(full) = Cardinality(Mine(k))
    BY <1>2, <2>1, TicketsFinite, AscendingIs
  <2> QED
    BY <2>1, <2>2, FS_EmptySet
<1> DEFINE x == [r EXCEPT !.step = "compare", !.list = full]
<1>4. /\ x \in GateCall /\ x.op = "rebalance" /\ x.step = "compare" /\ x.gate = r.gate
      /\ x.names = r.names /\ x.list = full /\ x.plan = r.plan /\ x.i = r.i
  BY <1>1, <1>3 DEF GateCall
<1>5. /\ UNCHANGED <<gateName, ticket, overlapped>>
      /\ \/ Mine(k) = {} /\ call' = [call EXCEPT ![c] = NoCall]
         \/ call' = [call EXCEPT ![c] = x]
  BY <1>2 DEF ListTickets, End, Mine
<1> HIDE DEF x
<1>6. NamesOf(k)' = NamesOf(k) /\ Mine(k)' = Mine(k)
  BY <1>5, SameNames DEF Mine
<1>7. CASE Mine(k) = {} /\ call' = [call EXCEPT ![c] = NoCall]
  <2>1. Rounds'
    BY <1>1, <1>5, <1>7, NoCallFits, RoundsKept
  <2>2. GateTypeOK /\ GateTypeOK'
    BY ListTicketsKeeps DEF GateInv
  <2>3. Spread(k)'
    <3>1. 1..Len(full) = {}
      BY <1>3, <1>7
    <3>2. \A j \in 1..Len(Ascending(Mine(k))) :
            ticket'[Ascending(Mine(k))[j]].gate = Turn(Ascending(NamesOf(k)), j - 1)
      BY <1>2, <3>1
    <3> QED
      BY <1>6, <2>2, <3>2, Spreads
  <2> QED
    BY <2>1, <2>3
<1>8. CASE call' = [call EXCEPT ![c] = x]
  <2>1. call'[c] = x
    BY <1>4, <1>8, CallNow DEF GateInv
  <2>2. ASSUME overlapped = {} PROVE Round(c)'
    <3>1. r.names = Ascending(NamesOf(k)) /\ r.plan = <<>> /\ r.i = 0
      BY <1>1, <2>2 DEF Rounds, Round, RoundOf
    <3>2. RoundOf(ticket', x, full, r.names)
      <4>1. \A j \in 1..Len(full) : full[j] = full[0 + j]
        BY <1>3
      <4> QED
        BY <1>3, <1>4, <3>1, <4>1 DEF RoundOf, ToSet
    <3> QED
      BY <1>2, <1>4, <1>6, <2>1, <3>1, <3>2 DEF Round
  <2>3. Rounds'
    BY <1>1, <1>4, <1>5, <1>8, <2>2, RoundsKept
  <2> QED
    BY <1>4, <2>1, <2>3
<1> QED
  BY <1>5, <1>7, <1>8

(* ... serves or plans the next one, ... *)
LEMMA NextServed ==
    ASSUME NEW r \in GateCall, r.step = "compare", r.list # <<>>, r.names # <<>>,
           NEW full, NEW names, Len(full) \in Nat, RoundOf(ticket, r, full, names),
           NEW z \in GateCall, z.step = "compare", z.names = r.names,
           z.list = Tail(r.list), z.i = r.i + 1, z.plan = NextPlan(r)
    PROVE  RoundOf(ticket, z, full, names)
<1>1. /\ r.names = names /\ r.i + Len(r.list) = Len(full)
      /\ \A j \in 1..Len(r.list) : r.list[j] = full[r.i + j]
      /\ \A j \in 1..r.i : Served(ticket, r, full, j)
      /\ \A m \in ToSet(r.plan) : \E j \in 1..r.i : m = Planned(r, full, j)
  BY DEF RoundOf
<1>2. PICK h, n, i, l, p :
        h = Head(r.list) /\ n = Turn(r.names, r.i) /\ i = r.i /\ l = Len(r.list) /\ p = NextPlan(r)
  OBVIOUS
<1>3. i \in Nat /\ l \in Nat /\ l > 0 /\ z.i = i + 1
  BY <1>2 DEF GateCall
<1>4. /\ h = r.list[1] /\ Len(z.list) = l - 1
      /\ \A j \in 1..(l - 1) : z.list[j] = r.list[j + 1]
      /\ ToSet(r.plan) \subseteq ToSet(p)
      /\ ToSet(p) \subseteq ToSet(r.plan) \cup {[t |-> h, to |-> n]}
      /\ ticket[h].gate = n \/ [t |-> h, to |-> n] \in ToSet(p)
  BY <1>2, NextPlanIs
<1>5. h = full[i + 1]
  BY <1>1, <1>2, <1>3, <1>4
<1>6. /\ Planned(z, full, i + 1) = [t |-> h, to |-> n] /\ Turn(z.names, (i + 1) - 1) = n
      /\ \A j : Planned(z, full, j) = Planned(r, full, j)
  <2>1. (i + 1) - 1 = i
    BY <1>3
  <2> QED
    BY <1>2, <1>5, <2>1 DEF Planned
<1>7. ASSUME NEW j \in 1..(i + 1) PROVE Served(ticket, z, full, j)
  <2>1. CASE j = i + 1
    BY <1>2, <1>4, <1>5, <1>6, <2>1 DEF Served
  <2>2. CASE j # i + 1
    <3>1. j \in 1..i
      BY <1>3, <2>2
    <3>2. Served(ticket, r, full, j)
      BY <1>1, <1>2, <3>1
    <3> QED
      BY <1>2, <1>4, <1>6, <3>2 DEF Served
  <2> QED
    BY <2>1, <2>2
<1>8. ASSUME NEW m \in ToSet(p) PROVE \E j \in 1..(i + 1) : m = Planned(z, full, j)
  <2>1. CASE m \in ToSet(r.plan)
    <3>1. PICK j \in 1..i : m = Planned(r, full, j)
      BY <1>1, <1>2, <2>1
    <3>2. j \in 1..(i + 1)
      BY <1>3
    <3> QED
      BY <1>6, <3>1, <3>2
  <2>2. CASE m = [t |-> h, to |-> n]
    <3>1. i + 1 \in 1..(i + 1)
      BY <1>3
    <3> QED
      BY <1>6, <2>2, <3>1
  <2> QED
    BY <1>4, <2>1, <2>2
<1>9. ASSUME NEW j \in 1..(l - 1) PROVE z.list[j] = full[(i + 1) + j]
  <2>1. j + 1 \in 1..l /\ i + (j + 1) = (i + 1) + j
    BY <1>3
  <2> QED
    BY <1>1, <1>2, <1>4, <2>1
<1>10. (i + 1) + (l - 1) = Len(full)
  <2>1. i + l = Len(full)
    BY <1>1, <1>2
  <2>2. (i + 1) + (l - 1) = i + l
    BY <1>3
  <2> QED
    BY <2>1, <2>2
<1> QED
  BY <1>1, <1>2, <1>3, <1>4, <1>7, <1>8, <1>9, <1>10 DEF RoundOf

LEMMA RoundCompared ==
    ASSUME GateInv, NEW c \in Call, Rounds, CompareTicket(c), NEW k, k = ConcertOf[call[c].gate]
    PROVE  /\ Rounds'
           /\ overlapped = {} /\ call'[c].op = "none" => Spread(k)'
<1> DEFINE r == call[c]
           y == [r EXCEPT !.step = "apply"]
           plan == NextPlan(r)
           rest == Tail(r.list)
           n == r.i + 1
           z == [r EXCEPT !.list = rest, !.i = n, !.plan = plan]
<1>1. /\ r \in GateCall /\ c \in Changing /\ r.step = "compare" /\ r.op = "rebalance"
      /\ r.gate \in Gate /\ r.names # <<>>
      /\ UNCHANGED <<gateName, ticket, overlapped>>
      /\ \/ r.list = <<>> /\ r.plan = <<>> /\ call' = [call EXCEPT ![c] = NoCall]
         \/ r.list = <<>> /\ r.plan # <<>> /\ call' = [call EXCEPT ![c] = y]
         \/ r.list # <<>> /\ call' = [call EXCEPT ![c] = z]
  BY CompareTicketCases
<1> HIDE DEF plan, rest, n
<1>2. PICK full : full = Ascending(Mine(k))
  OBVIOUS
<1>3. Len(full) \in Nat
  <2>1. Mine(k) \in SUBSET GateTicket
    BY DEF Mine
  <2> QED
    BY <1>2, <2>1, TicketsFinite, AscendingIs
<1>4. NamesOf(k)' = NamesOf(k) /\ Mine(k)' = Mine(k)
  BY <1>1, SameNames DEF Mine
<1>5. overlapped = {} => RoundOf(ticket, r, full, Ascending(NamesOf(k)))
  BY <1>1, <1>2 DEF Rounds, Round
<1>6. r.i \in Nat /\ (r.list = <<>> => Len(r.list) = 0)
  BY <1>1 DEF GateCall
<1>7. CASE r.list = <<>> /\ r.plan = <<>> /\ call' = [call EXCEPT ![c] = NoCall]
  <2>1. Rounds'
    BY <1>1, <1>7, NoCallFits, RoundsKept
  <2>2. GateTypeOK /\ GateTypeOK'
    BY CompareTicketKeeps DEF GateInv
  <2>3. ASSUME overlapped = {} PROVE Spread(k)'
    <3>1. /\ r.i = Len(full) /\ r.names = Ascending(NamesOf(k))
          /\ \A j \in 1..r.i : Served(ticket, r, full, j)
      BY <1>1, <1>3, <1>5, <1>6, <1>7, <2>3 DEF RoundOf
    <3>2. ToSet(r.plan) = {}
      BY <1>7 DEF ToSet
    <3>3. \A j \in 1..Len(full) : ticket'[full[j]].gate = Turn(Ascending(NamesOf(k)), j - 1)
      BY <1>1, <3>1, <3>2 DEF Served
    <3> QED
      BY <1>2, <1>4, <2>2, <3>3, Spreads
  <2> QED
    BY <2>1, <2>3
<1>8. CASE r.list = <<>> /\ r.plan # <<>> /\ call' = [call EXCEPT ![c] = y]
  <2>1. /\ y \in GateCall /\ y.op = r.op /\ y.step = "apply" /\ y.gate = r.gate /\ y.names = r.names
        /\ y.plan = r.plan
    BY <1>1, NextStep
  <2>2. call'[c] = y
    BY <1>8, <2>1, CallNow DEF GateInv
  <2> HIDE DEF y
  <2>3. ASSUME overlapped = {} PROVE Round(c)'
    <3>1. RoundOf(ticket, r, full, Ascending(NamesOf(k))) /\ r.i = Len(full)
      BY <1>1, <1>3, <1>5, <1>6, <1>8, <2>3 DEF RoundOf
    <3>2. RoundOf(ticket', y, full, Ascending(NamesOf(k)))
      BY <1>1, <2>1, <3>1 DEF RoundOf, Served, Planned
    <3> QED
      BY <1>2, <1>4, <2>1, <2>2, <3>2 DEF Round
  <2>4. Rounds'
    BY <1>1, <1>8, <2>1, <2>3, RoundsKept
  <2> QED
    BY <1>1, <2>1, <2>2, <2>4
<1>9. CASE r.list # <<>> /\ call' = [call EXCEPT ![c] = z]
  <2>0. NextPlan(r) \in Seq([t : GateTicket, to : Name]) /\ Tail(r.list) \in Seq(GateTicket)
    BY <1>1, <1>9, NextPlanIs
  <2>1. plan \in Seq([t : GateTicket, to : Name]) /\ rest \in Seq(GateTicket) /\ n \in Nat
    BY <1>1, <2>0 DEF GateCall, plan, rest, n
  <2>2. /\ z \in GateCall /\ z.op = r.op /\ z.step = "compare" /\ z.gate = r.gate /\ z.names = r.names
        /\ z.list = rest /\ z.plan = plan /\ z.i = n
    BY <1>1, <2>1 DEF GateCall
  <2>3. call'[c] = z
    BY <1>9, <2>2, CallNow DEF GateInv
  <2> HIDE DEF z
  <2>4. ASSUME overlapped = {} PROVE Round(c)'
    <3>1. RoundOf(ticket, z, full, Ascending(NamesOf(k)))
      BY <1>1, <1>3, <1>5, <1>9, <2>2, <2>4, NextServed DEF plan, rest, n
    <3> QED
      BY <1>1, <1>2, <1>4, <2>2, <2>3, <3>1 DEF Round
  <2>5. Rounds'
    BY <1>1, <1>9, <2>2, <2>4, RoundsKept
  <2> QED
    BY <1>1, <2>2, <2>3, <2>5
<1> QED
  BY <1>1, <1>7, <1>8, <1>9

(* ... and writes what is planned. *)
Moving(r, tk, uk, full, l, m, P) ==
    /\ l \in Nat
    /\ \A i, j \in 1..l : full[i] = full[j] => i = j
    /\ \A j \in 1..l : Served(tk, r, full, j)
    /\ \E i \in 1..l : m = Planned(r, full, i)
    /\ uk[m.t].gate = m.to
    /\ \A j \in 1..l : full[j] # m.t => uk[full[j]] = tk[full[j]]
    /\ ToSet(r.plan) = {m} \cup P

LEMMA MoveServed ==
    ASSUME NEW r, NEW tk, NEW uk, NEW full, NEW l, NEW m, NEW P,
           Moving(r, tk, uk, full, l, m, P), NEW j \in 1..l
    PROVE  uk[full[j]].gate = Turn(r.names, j - 1) \/ Planned(r, full, j) \in P
<1>0. PICK i \in 1..l : m = Planned(r, full, i)
  BY DEF Moving
<1>1. m.t = full[i] /\ m.to = Turn(r.names, i - 1)
  BY <1>0 DEF Planned
<1>2. CASE j = i
  BY <1>1, <1>2 DEF Moving
<1>3. CASE j # i
  <2>1. full[j] # m.t
    BY <1>0, <1>1, <1>3 DEF Moving
  <2>2. uk[full[j]] = tk[full[j]] /\ Served(tk, r, full, j) /\ ToSet(r.plan) = {m} \cup P
    BY <2>1 DEF Moving
  <2>3. Planned(r, full, j) # m
    BY <2>1 DEF Planned
  <2> QED
    BY <2>2, <2>3 DEF Served
<1> QED
  BY <1>2, <1>3

LEMMA RoundApplied ==
    ASSUME GateInv, NEW c \in Call, Rounds, ApplyMove(c), NEW k, k = ConcertOf[call[c].gate]
    PROVE  /\ Rounds'
           /\ overlapped = {} /\ call'[c].op = "none" => Spread(k)'
<1> DEFINE r == call[c]
           m == Head(r.plan)
           rest == Tail(r.plan)
           y == [r EXCEPT !.plan = rest]
<1>1. /\ r \in GateCall /\ c \in Changing /\ r.step = "apply" /\ r.op = "rebalance"
      /\ r.plan # <<>>
  BY AtStep DEF ApplyMove, Fit
<1>2. /\ UNCHANGED <<gateName, overlapped>>
      /\ ticket' = [ticket EXCEPT ![m.t] = Assign(m.t, m.to)]
      /\ call' = [call EXCEPT ![c] = IF Len(r.plan) = 1 THEN NoCall ELSE y]
  BY DEF ApplyMove, End
<1>3. /\ r.plan \in Seq([t : GateTicket, to : Name]) /\ m \in [t : GateTicket, to : Name]
      /\ m \in ToSet(r.plan) /\ ToSet(r.plan) = {m} \cup ToSet(rest)
      /\ rest \in Seq([t : GateTicket, to : Name])
      /\ Len(r.plan) = 1 => ToSet(r.plan) = {m}
  <2> DEFINE T == [t : GateTicket, to : Name]
  <2>1. r.plan \in Seq(T)
    BY <1>1 DEF GateCall
  <2> HIDE DEF T
  <2>2. /\ m \in T /\ m \in ToSet(r.plan) /\ rest \in Seq(T)
        /\ ToSet(r.plan) = {m} \cup ToSet(rest) /\ (Len(r.plan) = 1 => ToSet(r.plan) = {m})
    BY <1>1, <2>1, HeadAndTail
  <2> QED
    BY <2>1, <2>2 DEF T
<1> HIDE DEF rest, m
<1>4. /\ m.t \in GateTicket /\ m.to \in Name
      /\ ticket'[m.t].gate = m.to
      /\ \A t \in GateTicket : ticket'[t].status = ticket[t].status
      /\ \A t \in GateTicket \ {m.t} : ticket'[t] = ticket[t]
  <2>1. m.t \in GateTicket /\ m.to \in Name
    BY <1>3
  <2>2. ticket \in [GateTicket -> [status : {"NEW", "ISSUED", "CHECKED_IN"}, gate : Label, sig : Label]]
    BY DEF GateInv, GateTypeOK
  <2>3. Assign(m.t, m.to).status = ticket[m.t].status /\ Assign(m.t, m.to).gate = m.to
    BY <2>1, <2>2 DEF Assign, Label
  <2> QED
    BY <1>2, <2>1, <2>2, <2>3
<1>5. Mine(k)' = Mine(k) /\ NamesOf(k)' = NamesOf(k)
  BY <1>2, <1>4 DEF Mine, NamesOf, GatesOf
<1>6. PICK full, l : full = Ascending(Mine(k)) /\ l = Len(full)
  OBVIOUS
<1>7. /\ l \in Nat /\ \A j \in 1..l : full[j] \in GateTicket
      /\ \A i, j \in 1..l : full[i] = full[j] => i = j
  <2>1. Mine(k) \in SUBSET GateTicket
    BY DEF Mine
  <2>2. /\ full \in Seq(Mine(k)) /\ l \in Nat
        /\ \A i, j \in 1..l : i < j => full[i] < full[j]
    BY <1>6, <2>1, TicketsFinite, AscendingIs
  <2>3. \A j \in 1..l : full[j] \in GateTicket
    BY <1>6, <2>1, <2>2
  <2>4. ASSUME NEW i \in 1..l, NEW j \in 1..l, full[i] = full[j] PROVE i = j
    <3>1. full[i] \in Int /\ full[j] \in Int
      <4>1. full[i] \in GateTicket /\ full[j] \in GateTicket
        BY <2>3
      <4>2. GateTicket \subseteq Int
        BY TicketsFinite
      <4> QED
        BY <4>1, <4>2
    <3>2. ~ (i < j) /\ ~ (j < i)
      BY <2>2, <2>4, <3>1
    <3> QED
      BY <2>2, <3>2
  <2> QED
    BY <2>2, <2>3, <2>4
<1>8. ASSUME overlapped = {}
      PROVE  /\ r.names = Ascending(NamesOf(k))
             /\ \A j \in 1..l : Served(ticket, r, full, j)
             /\ \A p \in ToSet(r.plan) : \E j \in 1..l : p = Planned(r, full, j)
  BY <1>1, <1>6, <1>8 DEF Rounds, Round, RoundOf
<1>9. ASSUME overlapped = {}, NEW P, ToSet(r.plan) = {m} \cup P, NEW j \in 1..l
      PROVE  ticket'[full[j]].gate = Turn(r.names, j - 1) \/ Planned(r, full, j) \in P
  <2>1. PICK i \in 1..l : m = Planned(r, full, i)
    BY <1>3, <1>8, <1>9
  <2>2. \A h \in 1..l : full[h] # m.t => ticket'[full[h]] = ticket[full[h]]
    BY <1>4, <1>7
  <2>3. \A h \in 1..l : Served(ticket, r, full, h)
    BY <1>8, <1>9
  <2>4. PICK tk, uk : tk = ticket /\ uk = ticket'
    OBVIOUS
  <2>5. Moving(r, tk, uk, full, l, m, P)
    BY <1>4, <1>7, <1>9, <2>1, <2>2, <2>3, <2>4 DEF Moving
  <2>6. uk[full[j]].gate = Turn(r.names, j - 1) \/ Planned(r, full, j) \in P
    BY <2>5, MoveServed
  <2> QED
    BY <2>4, <2>6
<1>10. CASE Len(r.plan) = 1
  <2>1. call' = [call EXCEPT ![c] = NoCall]
    BY <1>2, <1>10
  <2>2. Rounds'
    BY <1>1, <1>2, <2>1, NoCallFits, RoundsKept DEF Changing, Running
  <2>3. ASSUME overlapped = {} PROVE Spread(k)'
    <3>0. PICK P : P = {}
      OBVIOUS
    <3>1. ToSet(r.plan) = {m} \cup P
      BY <1>3, <1>10, <3>0
    <3>2. \A j \in 1..l : ticket'[full[j]].gate = Turn(Ascending(NamesOf(k)), j - 1)
      <4>1. \A j \in 1..l : ticket'[full[j]].gate = Turn(r.names, j - 1) \/ Planned(r, full, j) \in P
        BY <1>9, <2>3, <3>1
      <4> QED
        BY <1>8, <2>3, <3>0, <4>1
    <3>3. GateTypeOK /\ GateTypeOK'
      BY ApplyMoveKeeps DEF GateInv
    <3> QED
      BY <1>5, <1>6, <3>2, <3>3, Spreads
  <2> QED
    BY <2>2, <2>3
<1>11. CASE Len(r.plan) # 1
  <2>1. call' = [call EXCEPT ![c] = y]
    BY <1>2, <1>11
  <2>2. /\ y \in GateCall /\ y.op = "rebalance" /\ y.step = "apply" /\ y.gate = r.gate
        /\ y.names = r.names /\ y.plan = rest
    BY <1>1, <1>3 DEF GateCall
  <2>3. call'[c] = y
    BY <2>1, <2>2, CallNow DEF GateInv
  <2> HIDE DEF y
  <2>4. ASSUME overlapped = {} PROVE Round(c)'
    <3>1. \A j : Planned(y, full, j) = Planned(r, full, j)
      BY <2>2 DEF Planned
    <3>2. \A j \in 1..l : Served(ticket', y, full, j)
      BY <1>3, <1>9, <2>2, <2>4, <3>1 DEF Served
    <3>3. \A p \in ToSet(y.plan) : \E j \in 1..l : p = Planned(y, full, j)
      BY <1>3, <1>8, <2>2, <2>4, <3>1
    <3>4. RoundOf(ticket', y, full, Ascending(NamesOf(k)))
      BY <1>6, <1>8, <2>2, <2>4, <3>2, <3>3 DEF RoundOf
    <3> QED
      BY <1>5, <1>6, <2>2, <2>3, <3>4 DEF Round
  <2>5. Rounds'
    BY <1>1, <1>2, <2>1, <2>2, <2>4, RoundsKept DEF Changing, Running
  <2> QED
    BY <2>2, <2>3, <2>5
<1> QED
  BY <1>10, <1>11

(* No other step has a rebalance running afterwards, or it is the same. *)
LEMMA RoundsSame ==
    ASSUME GateInv, Rounds, UNCHANGED gateVars
    PROVE  Rounds'
<1>1. UNCHANGED <<gateName, ticket, call, overlapped>>
  BY DEF gateVars
<1>2. SUFFICES ASSUME overlapped = {}, NEW d \in Call, call[d].op = "rebalance" PROVE Round(d)'
  BY <1>1 DEF Rounds, Round
<1>3. PICK k : k = ConcertOf[call[d].gate]
  OBVIOUS
<1>4. NamesOf(k)' = NamesOf(k) /\ Mine(k)' = Mine(k)
  BY <1>1, SameNames DEF Mine
<1>5. RoundOf(ticket, call[d], Ascending(Mine(k)), Ascending(NamesOf(k)))
  BY <1>2, <1>3 DEF Rounds, Round
<1> QED
  BY <1>1, <1>3, <1>4, <1>5 DEF Round

LEMMA OtherCallsKeepRounds ==
    ASSUME GateInv, NEW c \in Call, Rounds,
           \/ WriteName(c) \/ CountTickets(c) \/ PickTarget(c) \/ FindTickets(c) \/ MoveTickets(c)
           \/ DeleteGate(c) \/ CreateTicket(c) \/ CheckInAtGate(c) \/ GateCrash(c)
    PROVE  Rounds' /\ ((call[c].op = "rebalance" => broken') \/ call'[c].op # "none")
<1>1. call[c].step # "idle" /\ call[c] \in GateCall /\ UNCHANGED overlapped
  BY DEF WriteName, CountTickets, PickTarget, FindTickets, MoveTickets, DeleteGate, CreateTicket,
     CheckInAtGate, GateCrash, GateInv, GateTypeOK
<1>2. \/ GateCrash(c) 
      \/ call[c].op \in {"rename", "remove", "issue", "scan"}
  BY <1>1, AtStep DEF WriteName, CountTickets, PickTarget, FindTickets, MoveTickets, DeleteGate,
     CreateTicket, CheckInAtGate
<1>3. (\A d \in Call \ {c} : call'[d] = call[d]) /\ call'[c].op \in {"none", call[c].op}
  <2> DEFINE r == call[c]
             CallTo(y) == call' = [call EXCEPT ![c] = y] /\ y.op \in {"none", r.op}
             target(v) == [r EXCEPT !.step = "find", !.to = v]
             move(v) == [r EXCEPT !.step = "move", !.list = v]
             back == [r EXCEPT !.step = "delete", !.list = <<>>]
             at(s) == [r EXCEPT !.step = s]
  <2>1. ASSUME NEW y, CallTo(y)
        PROVE  (\A d \in Call \ {c} : call'[d] = call[d]) /\ call'[c].op \in {"none", r.op}
    BY <2>1 DEF GateInv, GateTypeOK
  <2>2. /\ NoCall.op = "none" /\ back.op = r.op
        /\ \A v : target(v).op = r.op /\ move(v).op = r.op /\ at(v).op = r.op
    BY <1>1, NoCallFits DEF GateCall
  <2>3. CASE WriteName(c)
    <3>1. call' = [call EXCEPT ![c] = at("find")] \/ call' = [call EXCEPT ![c] = NoCall]
      BY <2>3 DEF WriteName, End, ToStep
    <3>2. CallTo(at("find")) \/ CallTo(NoCall)
      BY <2>2, <3>1
    <3> QED
      BY <2>1, <3>2
  <2>4. CASE CountTickets(c)
    <3>1. call' = [call EXCEPT ![c] = at("delete")] \/ call' = [call EXCEPT ![c] = at("target")]
      BY <2>4 DEF CountTickets, ToStep
    <3>2. CallTo(at("delete")) \/ CallTo(at("target"))
      BY <2>2, <3>1
    <3> QED
      BY <2>1, <3>2
  <2>5. CASE PickTarget(c)
    <3>1. PICK v : call' = [call EXCEPT ![c] = target(v)] \/ call' = [call EXCEPT ![c] = NoCall]
      BY <2>5 DEF PickTarget, End
    <3>2. CallTo(target(v)) \/ CallTo(NoCall)
      BY <2>2, <3>1
    <3> QED
      BY <2>1, <3>2
  <2>6. CASE FindTickets(c)
    <3>1. PICK v : call' = [call EXCEPT ![c] = move(v)]
      BY <2>6 DEF FindTickets
    <3>2. CallTo(move(v))
      BY <2>2, <3>1
    <3> QED
      BY <2>1, <3>2
  <2>7. CASE MoveTickets(c)
    <3>1. call' = [call EXCEPT ![c] = back] \/ call' = [call EXCEPT ![c] = NoCall]
      BY <2>7 DEF MoveTickets, End
    <3>2. CallTo(back) \/ CallTo(NoCall)
      BY <2>2, <3>1
    <3> QED
      BY <2>1, <3>2
  <2>8. CASE DeleteGate(c) \/ CreateTicket(c) \/ CheckInAtGate(c) \/ GateCrash(c)
    <3>1. CallTo(NoCall)
      BY <2>2, <2>8 DEF DeleteGate, CreateTicket, CheckInAtGate, GateCrash, End
    <3> QED
      BY <2>1, <3>1
  <2> QED
    BY <2>3, <2>4, <2>5, <2>6, <2>7, <2>8
<1>4. GateCrash(c) => call'[c].op = "none" /\ broken'
  BY NoCallFits DEF GateCrash, End, GateInv, GateTypeOK
<1>5. Rounds'
  <2>1. SUFFICES ASSUME overlapped = {}, NEW d \in Call PROVE call'[d].op # "rebalance"
    BY <1>1 DEF Rounds, Round
  <2>2. CASE d = c
    BY <1>2, <1>3, <1>4, <2>2
  <2>3. CASE d # c
    BY <1>1, <1>3, <2>1, <2>3, NothingBeside DEF Running
  <2> QED
    BY <2>2, <2>3
<1> QED
  BY <1>2, <1>3, <1>4, <1>5

(* A call that begins had nothing to do before. *)
LEMMA OtherBeginningsKeepRounds ==
    ASSUME GateInv, NEW c \in Call, Rounds,
           \/ \E g \in Gate, n \in Name : StartRename(c, g, n)
           \/ \E g \in Gate : StartRemoveGate(c, g)
           \/ \E t \in GateTicket, n \in Label : StartIssueAtGate(c, t, n)
           \/ \E t \in GateTicket, n \in Name : StartScanAtGate(c, t, n)
    PROVE  Rounds'
<1>0. \E x : Begin(c, x) /\ x.op \in {"rename", "remove", "issue", "scan"}
  <2>1. CASE \E g \in Gate, n \in Name : StartRename(c, g, n)
    <3>1. PICK g \in Gate, n \in Name : StartRename(c, g, n)
      BY <2>1
    <3> DEFINE x == [NoCall EXCEPT !.op = "rename", !.step = "name", !.gate = g, !.from = gateName[g], !.to = n]
    <3>2. Begin(c, x)
      BY <3>1 DEF StartRename, BeginChange
    <3>3. x.op \in {"rename", "remove", "issue", "scan"}
      BY DEF NoCall
    <3> QED
      BY ONLY <3>2, <3>3
  <2>2. CASE \E g \in Gate : StartRemoveGate(c, g)
    <3>1. PICK g \in Gate : StartRemoveGate(c, g)
      BY <2>2
    <3> DEFINE x == [NoCall EXCEPT !.op = "remove", !.step = "count", !.gate = g, !.from = gateName[g]]
    <3>2. Begin(c, x)
      BY <3>1 DEF StartRemoveGate, BeginChange
    <3>3. x.op \in {"rename", "remove", "issue", "scan"}
      BY DEF NoCall
    <3> QED
      BY ONLY <3>2, <3>3
  <2>3. CASE \E t \in GateTicket, n \in Label : StartIssueAtGate(c, t, n)
    <3>1. PICK t \in GateTicket, n \in Label : StartIssueAtGate(c, t, n)
      BY <2>3
    <3> DEFINE x == [NoCall EXCEPT !.op = "issue", !.step = "create", !.list = <<t>>, !.to = n]
    <3>2. Begin(c, x)
      BY <3>1 DEF StartIssueAtGate
    <3>3. x.op \in {"rename", "remove", "issue", "scan"}
      BY DEF NoCall
    <3> QED
      BY ONLY <3>2, <3>3
  <2>4. CASE \E t \in GateTicket, n \in Name : StartScanAtGate(c, t, n)
    <3>1. PICK t \in GateTicket, n \in Name : StartScanAtGate(c, t, n)
      BY <2>4
    <3> DEFINE x == [NoCall EXCEPT !.op = "scan", !.step = "checkin", !.list = <<t>>, !.from = n]
    <3>2. Begin(c, x)
      BY <3>1 DEF StartScanAtGate
    <3>3. x.op \in {"rename", "remove", "issue", "scan"}
      BY DEF NoCall
    <3> QED
      BY ONLY <3>2, <3>3
  <2> QED
    BY <2>1, <2>2, <2>3, <2>4
<1>1. PICK x : Begin(c, x) /\ x.op \in {"rename", "remove", "issue", "scan"}
  BY <1>0
<1>2. call'[c] = x /\ \A d \in Call \ {c} : call'[d] = call[d]
  BY <1>1 DEF Begin, GateInv, GateTypeOK
<1>3. overlapped' = {} => Changing = {}
  BY <1>1 DEF Begin, Meet, Changing
<1>4. SUFFICES ASSUME overlapped' = {}, NEW d \in Call PROVE call'[d].op # "rebalance"
  BY DEF Rounds, Round
<1>5. call[d].op # "rebalance"
  BY <1>3, <1>4, FitOps DEF GateInv, GateTypeOK, Changing, Running, Scanning
<1> QED
  BY <1>1, <1>2, <1>5

LEMMA CreateGateKeepsRounds ==
    ASSUME GateInv, NEW g \in Gate, NEW n \in Name, CreateGate(g, n)
    PROVE  Rounds'
<1>1. UNCHANGED call /\ (overlapped' = {} => Changing = {})
  BY DEF CreateGate, Meet, Changing
<1>2. SUFFICES ASSUME overlapped' = {}, NEW d \in Call PROVE call[d].op # "rebalance"
  BY <1>1 DEF Rounds, Round
<1> QED
  BY <1>1, <1>2, FitOps DEF GateInv, GateTypeOK, Changing, Running, Scanning

LEMMA RoundsInit == GateInit => Rounds
BY NoCallFits DEF GateInit, Rounds, Round

LEMMA RoundsNext == GateInv /\ Rounds /\ [GateNext]_gateVars => Rounds'
<1> SUFFICES ASSUME GateInv, Rounds, [GateNext]_gateVars PROVE Rounds'
  OBVIOUS
<1>1. CASE UNCHANGED gateVars
  BY <1>1, RoundsSame
<1>2. CASE \E g \in Gate, n \in Name : CreateGate(g, n)
  BY <1>2, CreateGateKeepsRounds
<1>3. ASSUME NEW c \in Call,
             \/ \E g \in Gate : \/ \E n \in Name : StartRename(c, g, n)
                                \/ StartRemoveGate(c, g) \/ StartRebalance(c, g)
             \/ WriteName(c) \/ CountTickets(c) \/ PickTarget(c) \/ FindTickets(c)
             \/ MoveTickets(c) \/ DeleteGate(c) \/ ListTickets(c) \/ CompareTicket(c)
             \/ ApplyMove(c) \/ CreateTicket(c) \/ CheckInAtGate(c) \/ GateCrash(c)
             \/ \E t \in GateTicket, n \in Label : StartIssueAtGate(c, t, n)
             \/ \E t \in GateTicket, n \in Name : StartScanAtGate(c, t, n)
      PROVE  Rounds'
  BY <1>3, OtherCallsKeepRounds, OtherBeginningsKeepRounds, RoundStarts, RoundListed, RoundCompared,
     RoundApplied
<1> QED
  BY <1>1, <1>2, <1>3 DEF GateNext

(* The end of a rebalance. *)
LEMMA EndSpreads ==
    ASSUME GateInv, Rounds, GateNext, NEW c \in Call, NEW k \in Concert, Rebalanced(c, k)
    PROVE  Spread(k)'
<1>1. /\ call[c].op = "rebalance" /\ ConcertOf[call[c].gate] = k /\ call'[c].op = "none"
      /\ overlapped = {} /\ ~ broken'
  BY DEF Rebalanced
<1>2. call[c].step # "idle" /\ c \in Running
  BY <1>1, FitOps DEF GateInv, GateTypeOK, Running
<1>3. ASSUME NEW d \in Call,
             \/ WriteName(d) \/ CountTickets(d) \/ PickTarget(d) \/ FindTickets(d)
             \/ MoveTickets(d) \/ DeleteGate(d) \/ ListTickets(d) \/ CompareTicket(d)
             \/ ApplyMove(d) \/ CreateTicket(d) \/ CheckInAtGate(d) \/ GateCrash(d)
      PROVE  d = c
  <2>1. call[d].step # "idle"
    BY <1>3 DEF WriteName, CountTickets, PickTarget, FindTickets, MoveTickets, DeleteGate,
       ListTickets, CompareTicket, ApplyMove, CreateTicket, CheckInAtGate, GateCrash
  <2> QED
    BY <1>1, <2>1, NothingBeside DEF Running
<1>4. CASE ListTickets(c) \/ CompareTicket(c) \/ ApplyMove(c)
  BY <1>1, <1>4, RoundListed, RoundCompared, RoundApplied
<1>5. CASE \/ WriteName(c) \/ CountTickets(c) \/ PickTarget(c) \/ FindTickets(c) \/ MoveTickets(c)
           \/ DeleteGate(c) \/ CreateTicket(c) \/ CheckInAtGate(c) \/ GateCrash(c)
  BY <1>1, <1>5, OtherCallsKeepRounds
<1>6. CASE \E g \in Gate, n \in Name : CreateGate(g, n)
  BY <1>1, <1>6 DEF CreateGate
<1>7. ASSUME NEW d \in Call,
             \/ \E g \in Gate : \/ \E n \in Name : StartRename(d, g, n)
                                \/ StartRemoveGate(d, g) \/ StartRebalance(d, g)
             \/ \E t \in GateTicket, n \in Label : StartIssueAtGate(d, t, n)
             \/ \E t \in GateTicket, n \in Name : StartScanAtGate(d, t, n)
      PROVE  FALSE
  <2>1. call[d].step = "idle" /\ \A e \in Call \ {d} : call'[e] = call[e]
    BY <1>7 DEF StartRename, StartRemoveGate, StartRebalance, StartIssueAtGate, StartScanAtGate,
       BeginChange, Begin, GateInv, GateTypeOK
  <2> QED
    BY <1>1, <1>2, <2>1
<1> QED
  BY <1>3, <1>4, <1>5, <1>6, <1>7 DEF GateNext

(***************************************************************************)
(* A rebalance that nothing ran beside and that ended by itself leaves the *)
(* ISSUED tickets of its concert spread over the gates with a difference   *)
(* of at most one, for any number of gates and tickets: every ticket read  *)
(* so far stands at the gate of its turn or is planned to.                 *)
(***************************************************************************)
THEOREM RebalanceIsEven == GateSpec => RebalanceSpreads
<1> DEFINE Even == \A c \in Call, k \in Concert : Rebalanced(c, k) => Spread(k)'
<1>1. GateInv /\ Rounds /\ [GateNext]_gateVars => [Even]_gateVars
  <2>1. SUFFICES ASSUME GateInv, Rounds, GateNext PROVE Even
    OBVIOUS
  <2> QED
    BY <2>1, EndSpreads
<1>2. GateInit => GateInv /\ Rounds
  BY GateInvInit, RoundsInit
<1>3. GateInv /\ Rounds /\ [GateNext]_gateVars => GateInv' /\ Rounds'
  BY GateInvNext, RoundsNext
<1> HIDE DEF Even
<1>4. GateSpec => [][Even]_gateVars
  BY <1>1, <1>2, <1>3, PTL DEF GateSpec
<1> QED
  BY <1>4 DEF Even, RebalanceSpreads

-----------------------------------------------------------------------------
(* The rows of tables in d are r's and in tables it fills; the first n     *)
(* tables of its order have them.                                          *)
RowsUpTo(d, r, n) ==
    /\ \A t \in Cleared : d[t] \subseteq {r}
    /\ \A t \in Cleared : t \notin ToSet(Filled(r)) => d[t] = {}
    /\ \A j \in 1..n : r \in d[Filled(r)[j]]

StepFits(r) ==
    /\ reset[r].step = "wiping" => reset[r].at \in 1..Len(Wiped)
    /\ reset[r].step = "filling" => reset[r].at \in 1..Len(Filled(r))
    /\ reset[r].step \in {"filled", "storing"} => r \notin ByHand

(* Before it fills nothing there is of r; if nobody met it, what it has    *)
(* emptied is empty, and later its data is all there is.                   *)
NotYet(r) == reset[r].step \in {"idle", "wiping"} => \A t \in Table : r \notin data[t]
EmptySoFar(r) ==
    r \notin met /\ reset[r].step = "wiping" => \A j \in 1..(reset[r].at - 1) : data[Wiped[j]] = {}
FullSoFar(r) ==
    r \notin met /\ reset[r].step = "filling" =>
      /\ RowsUpTo(data, r, reset[r].at - 1)
      /\ reset[r].at = 1 => \A t \in Cleared : data[t] = {}
FullNow(r) ==
    r \notin met /\ reset[r].step \in {"filled", "storing"} => RowsUpTo(data, r, Len(Filled(r)))

(* What is cached of it, and what it is about to store. *)
ListedSince(r) ==
    r \notin ByHand \cup heard =>
      /\ reset[r].step \in {"wiping", "filling"} => listing = {} /\ reading = {}
      /\ r \notin met /\ reset[r].step \in {"filled", "storing"} => listing \cup reading \subseteq {{r}}
ReadAsIs(r) ==
    r \notin beaten /\ reset[r].step = "storing" => reset[r].got = avail[r] /\ holds[r].kept = 0

RowsFit(r) == NotYet(r) /\ EmptySoFar(r) /\ FullSoFar(r) /\ FullNow(r)
ResetInv ==
    /\ ResetTypeOK
    /\ data["gate"] \subseteq data["concert"]
    /\ \A r \in Run : StepFits(r) /\ RowsFit(r) /\ ListedSince(r) /\ ReadAsIs(r)

-----------------------------------------------------------------------------
(* The tables and their orders *)
LEMMA TableIs ==
    /\ Table = {"user", "concert", "ticketType", "order", "orderItem", "paymentTransaction", "ticket",
                "idempotencyKey", "userTicketCounter", "checkinLog", "guestListEntry", "gate",
                "uploadedFile"}
    /\ \A t \in Table : Parents[t] \subseteq Table
BY DEF Table, Parents

LEMMA WipedIs ==
    /\ Wiped \in Seq(Table) /\ Len(Wiped) = 12 /\ Cleared = Table \ {"uploadedFile"}
    /\ \A i \in 1..12 : Wiped[i] \in Table /\ (Wiped[i] = Last(Wiped) <=> i = 12)
    /\ \A t \in Cleared : \E i \in 1..12 : Wiped[i] = t
<1>1. Wiped \in Seq(Table) /\ Len(Wiped) = 12
  BY TableIs DEF Wiped
<1>2. \A i \in 1..12 : Wiped[i] \in Table /\ (Wiped[i] = Last(Wiped) <=> i = 12)
  BY <1>1, TableIs DEF Wiped, Last
<1>3. /\ Wiped[1] = "checkinLog" /\ Wiped[2] = "ticket" /\ Wiped[3] = "orderItem"
      /\ Wiped[4] = "paymentTransaction" /\ Wiped[5] = "order" /\ Wiped[6] = "idempotencyKey"
      /\ Wiped[7] = "userTicketCounter" /\ Wiped[8] = "guestListEntry" /\ Wiped[9] = "gate"
      /\ Wiped[10] = "ticketType" /\ Wiped[11] = "concert" /\ Wiped[12] = "user"
  BY DEF Wiped
<1>4. \A t \in Table \ {"uploadedFile"} : \E i \in 1..12 : Wiped[i] = t
  <2>1. \A i \in 1..12 : i \in 1..12
    OBVIOUS
  <2>2. /\ 1 \in 1..12 /\ 2 \in 1..12 /\ 3 \in 1..12 /\ 4 \in 1..12 /\ 5 \in 1..12 /\ 6 \in 1..12
        /\ 7 \in 1..12 /\ 8 \in 1..12 /\ 9 \in 1..12 /\ 10 \in 1..12 /\ 11 \in 1..12 /\ 12 \in 1..12
    OBVIOUS
  <2> QED
    BY <1>3, <2>2, TableIs
<1>5. Cleared = Table \ {"uploadedFile"}
  <2>1. \A i \in 1..12 : Wiped[i] \in Table \ {"uploadedFile"}
    BY <1>3, TableIs
  <2> QED
    BY <1>1, <1>4, <2>1 DEF Cleared, ToSet
<1> QED
  BY <1>1, <1>2, <1>4, <1>5

(* A table is emptied after those whose rows refer to it, ... *)
LEMMA WipedInOrder ==
    ASSUME NEW i \in 1..12, NEW c \in Table, Wiped[i] \in Restricts(c)
    PROVE  \E j \in 1..(i - 1) : Wiped[j] = c
BY TableIs DEF Wiped, Restricts, Parents

(* ... and filled after those its rows refer to. *)
LEMMA FilledIs ==
    ASSUME NEW r
    PROVE  /\ Len(Filled(r)) \in 1..12 /\ Filled(r) \in Seq(Table)
           /\ \A i \in 1..Len(Filled(r)) :
                /\ Filled(r)[i] \in Table /\ Filled(r)[i] \in ToSet(Filled(r))
                /\ Filled(r)[i] = Last(Filled(r)) <=> i = Len(Filled(r))
                /\ Filled(r)[i] = "user" <=> i = 1
           /\ \A i \in 1..Len(Filled(r)) : \A p \in Parents[Filled(r)[i]] :
                \E j \in 1..(i - 1) : Filled(r)[j] = p
           /\ "concert" \in ToSet(Filled(r)) /\ ToSet(Filled(r)) \subseteq Cleared
           /\ \A t \in ToSet(Filled(r)) : \E i \in 1..Len(Filled(r)) : Filled(r)[i] = t
<1>1. CASE r \in ByHand
  <2> DEFINE F == Filled(r)
  <2>1. F = <<"user", "concert", "ticketType", "gate", "order", "orderItem",
           "paymentTransaction", "ticket", "checkinLog", "guestListEntry">>
    BY <1>1 DEF Filled
  <2> HIDE DEF F
  <2>2. F \in Seq(Table) /\ Len(F) = 10 /\ DOMAIN F = 1..10
    BY <2>1, TableIs
  <2>3. \A i \in 1..10 : F[i] \in Table /\ F[i] \in ToSet(F)
    BY <2>1, <2>2 DEF ToSet
  <2>4. \A i \in 1..10 : (F[i] = Last(F) <=> i = 10) /\ (F[i] = "user" <=> i = 1)
    BY <2>1, <2>2 DEF Last
  <2>5. \A i \in 1..10 : \A p \in Parents[F[i]] : \E j \in 1..(i - 1) : F[j] = p
    BY <2>1 DEF Parents
  <2>6. "concert" \in ToSet(F)
    BY <2>1, <2>2 DEF ToSet
  <2>7. \A t \in ToSet(F) : \E i \in 1..10 : F[i] = t
    BY <2>2 DEF ToSet
  <2>8. ToSet(F) \subseteq Cleared
    BY <2>1, <2>7, TableIs, WipedIs
  <2> QED
    BY <2>2, <2>3, <2>4, <2>5, <2>6, <2>7, <2>8 DEF F
<1>2. CASE r \notin ByHand
  <2> DEFINE F == Filled(r)
  <2>1. F = <<"user", "concert", "ticketType", "gate", "order", "orderItem", "ticket", "checkinLog">>
    BY <1>2 DEF Filled
  <2> HIDE DEF F
  <2>2. F \in Seq(Table) /\ Len(F) = 8 /\ DOMAIN F = 1..8
    BY <2>1, TableIs
  <2>3. \A i \in 1..8 : F[i] \in Table /\ F[i] \in ToSet(F)
    BY <2>1, <2>2 DEF ToSet
  <2>4. \A i \in 1..8 : (F[i] = Last(F) <=> i = 8) /\ (F[i] = "user" <=> i = 1)
    BY <2>1, <2>2 DEF Last
  <2>5. \A i \in 1..8 : \A p \in Parents[F[i]] : \E j \in 1..(i - 1) : F[j] = p
    BY <2>1 DEF Parents
  <2>6. "concert" \in ToSet(F)
    BY <2>1, <2>2 DEF ToSet
  <2>7. \A t \in ToSet(F) : \E i \in 1..8 : F[i] = t
    BY <2>2 DEF ToSet
  <2>8. ToSet(F) \subseteq Cleared
    BY <2>1, <2>7, TableIs, WipedIs
  <2> QED
    BY <2>2, <2>3, <2>4, <2>5, <2>6, <2>7, <2>8 DEF F
<1> QED
  BY <1>1, <1>2

LEMMA FilledAt ==
    ASSUME NEW r, NEW i \in 1..Len(Filled(r))
    PROVE  /\ i \in 1..12 /\ Filled(r)[i] \in Table /\ Filled(r)[i] \in ToSet(Filled(r))
           /\ Filled(r)[i] = Last(Filled(r)) <=> i = Len(Filled(r))
           /\ Filled(r)[i] = "user" <=> i = 1
           /\ \A p \in Parents[Filled(r)[i]] : \E j \in 1..(i - 1) : Filled(r)[j] = p
           /\ \A j \in 1..i : j \in 1..Len(Filled(r)) /\ Filled(r)[j] \in Table
<1> DEFINE F == Filled(r)
<1>1. /\ Len(F) \in 1..12
      /\ \A j \in 1..Len(F) : /\ F[j] \in Table /\ F[j] \in ToSet(F)
                              /\ F[j] = Last(F) <=> j = Len(F)
                              /\ F[j] = "user" <=> j = 1
      /\ \A j \in 1..Len(F) : \A p \in Parents[F[j]] : \E h \in 1..(j - 1) : F[h] = p
  BY FilledIs
<1> HIDE DEF F
<1>2. i \in 1..12 /\ \A j \in 1..i : j \in 1..Len(F)
  BY <1>1 DEF F
<1>3. i \in 1..Len(F)
  BY DEF F
<1> QED
  BY <1>1, <1>2, <1>3 DEF F

-----------------------------------------------------------------------------
(* What a step leaves alone. *)
LEMMA SameRows ==
    ASSUME NEW r \in Run, RowsFit(r), StepFits(r), UNCHANGED data, met \subseteq met', reset'[r] = reset[r]
    PROVE  RowsFit(r)' /\ StepFits(r)'
BY DEF RowsFit, NotYet, EmptySoFar, FullSoFar, FullNow, StepFits

LEMMA SameListing ==
    ASSUME NEW r \in Run, ListedSince(r), listing' \subseteq listing, reading' \subseteq reading,
           heard \subseteq heard', met \subseteq met', reset'[r] = reset[r]
    PROVE  ListedSince(r)'
BY DEF ListedSince

LEMMA SameRead ==
    ASSUME NEW r \in Run, ReadAsIs(r), avail'[r] = avail[r], holds'[r].kept = holds[r].kept,
           beaten \subseteq beaten', reset'[r] = reset[r]
    PROVE  ReadAsIs(r)'
BY DEF ReadAsIs

LEMMA GoesIs ==
    ASSUME ResetTypeOK, NEW r \in Run, NEW s \in RunStep, NEW a \in 1..13, Goes(r, s, a)
    PROVE  /\ reset' \in [Run -> [step : RunStep, at : 1..Len(Wiped) + 1, got : 0..SeatsPerType]]
           /\ reset'[r].step = s /\ reset'[r].at = a /\ reset'[r].got = reset[r].got
           /\ \A q \in Run \ {r} : reset'[q] = reset[q]
<1>1. reset \in [Run -> [step : RunStep, at : 1..Len(Wiped) + 1, got : 0..SeatsPerType]]
  BY DEF ResetTypeOK
<1>2. Len(Wiped) + 1 = 13
  BY WipedIs
<1> QED
  BY <1>1, <1>2 DEF Goes

LEMMA AddedIs ==
    ASSUME ResetTypeOK, NEW T, NEW g \in Generation
    PROVE  /\ Added(T, g) \in [Table -> SUBSET Generation]
           /\ \A t \in Table : Added(T, g)[t] = IF t \in T THEN data[t] \cup {g} ELSE data[t]
BY DEF Added, ResetTypeOK

(* Somebody inserts rows; those of a run hang on rows of it that others    *)
(* have put there.                                                         *)
LEMMA Inserted ==
    ASSUME ResetInv, NEW T \in SUBSET Table, NEW g \in Generation, NEW r \in Run,
           data' = Added(T, g), met' = met \cup Meets(T, g), reset'[r] = reset[r],
           g = r => \E p \in Cleared : r \in data[p]
    PROVE  RowsFit(r)' /\ StepFits(r)'
<1>1. RowsFit(r) /\ StepFits(r)
  BY DEF ResetInv
<1>2. \A t \in Table : data'[t] = IF t \in T THEN data[t] \cup {g} ELSE data[t]
  BY AddedIs DEF ResetInv
<1>3. StepFits(r)'
  BY <1>1 DEF StepFits
<1>4. ASSUME r \notin met'
      PROVE  r \notin met /\ (EmptiedBy(r) \cap T = {} \/ (r = g /\ T \subseteq ToSet(Filled(r))))
  BY <1>4 DEF Meets
<1>5. reset[r].step \in {"filling", "filled", "storing"} => EmptiedBy(r) = Cleared
  BY DEF EmptiedBy
<1>0. Cleared \subseteq Table /\ ToSet(Filled(r)) \subseteq Cleared
  BY WipedIs, FilledIs
<1>6. reset[r].step = "wiping" => EmptiedBy(r) = {Wiped[i] : i \in 1..reset[r].at - 1}
  BY DEF EmptiedBy
<1>7. CASE g = r
  <2>1. PICK p \in Cleared : r \in data[p]
    BY <1>7
  <2>2. reset[r].step \notin {"idle", "wiping"}
    BY <1>0, <1>1, <2>1 DEF RowsFit, NotYet
  <2>3. ASSUME NEW n, RowsUpTo(data, r, n), T \cap Cleared \subseteq ToSet(Filled(r)), n \in 0..Len(Filled(r))
        PROVE  RowsUpTo(data', r, n)
    <3>1. \A j \in 1..n : Filled(r)[j] \in Table
      BY <2>3, FilledIs
    <3>2. \A t \in Cleared : data'[t] \subseteq {r}
      BY <1>0, <1>2, <1>7, <2>3 DEF RowsUpTo
    <3>3. ASSUME NEW t \in Cleared, t \notin ToSet(Filled(r)) PROVE data'[t] = {}
      <4>1. data[t] = {} /\ t \notin T
        BY <2>3, <3>3 DEF RowsUpTo
      <4> QED
        BY <1>0, <1>2, <4>1
    <3>4. ASSUME NEW j \in 1..n PROVE r \in data'[Filled(r)[j]]
      <4>1. r \in data[Filled(r)[j]] /\ Filled(r)[j] \in Table
        BY <2>3, <3>1 DEF RowsUpTo
      <4> QED
        BY <1>2, <4>1
    <3> QED
      BY <3>2, <3>3, <3>4 DEF RowsUpTo
  <2>4. FullSoFar(r)'
    <3>1. SUFFICES ASSUME r \notin met', reset[r].step = "filling"
                   PROVE  RowsUpTo(data', r, reset[r].at - 1) /\ reset[r].at # 1
      BY DEF FullSoFar
    <3>2. RowsUpTo(data, r, reset[r].at - 1) /\ reset[r].at # 1
      BY <1>1, <1>4, <2>1, <3>1 DEF RowsFit, FullSoFar
    <3>3. T \cap Cleared \subseteq ToSet(Filled(r))
      BY <1>4, <1>5, <1>7, <3>1
    <3>4. reset[r].at - 1 \in 0..Len(Filled(r))
      BY <1>1, <3>1, FilledIs DEF StepFits
    <3> QED
      BY <2>3, <3>2, <3>3, <3>4
  <2>5. FullNow(r)'
    <3>1. SUFFICES ASSUME r \notin met', reset[r].step \in {"filled", "storing"}
                   PROVE  RowsUpTo(data', r, Len(Filled(r)))
      BY DEF FullNow
    <3>2. RowsUpTo(data, r, Len(Filled(r)))
      BY <1>1, <1>4, <3>1 DEF RowsFit, FullNow
    <3>3. T \cap Cleared \subseteq ToSet(Filled(r))
      BY <1>4, <1>5, <1>7, <3>1
    <3>4. Len(Filled(r)) \in 0..Len(Filled(r))
      BY FilledIs
    <3> QED
      BY <2>3, <3>2, <3>3, <3>4
  <2> QED
    BY <1>3, <2>2, <2>4, <2>5 DEF RowsFit, NotYet, EmptySoFar
<1>8. CASE g # r
  <2>1. NotYet(r)'
    BY <1>1, <1>2, <1>8 DEF RowsFit, NotYet
  <2>2. EmptySoFar(r)'
    <3>1. SUFFICES ASSUME r \notin met', reset[r].step = "wiping", NEW j \in 1..(reset[r].at - 1)
                   PROVE  data'[Wiped[j]] = {}
      BY DEF EmptySoFar
    <3>2. j \in 1..12
      BY <1>1, <3>1, WipedIs DEF StepFits
    <3>3. Wiped[j] \in Table /\ data[Wiped[j]] = {}
      BY <1>1, <1>4, <3>1, <3>2, WipedIs DEF RowsFit, EmptySoFar
    <3>4. Wiped[j] \notin T
      BY <1>4, <1>6, <1>8, <3>1
    <3> QED
      BY <1>2, <3>3, <3>4
  <2>3. ASSUME r \notin met', reset[r].step \in {"filling", "filled", "storing"}
        PROVE  r \notin met /\ \A t \in Cleared : data'[t] = data[t]
    <3>1. T \cap Cleared = {}
      BY <1>4, <1>5, <1>8, <2>3
    <3> QED
      BY <1>0, <1>2, <1>4, <2>3, <3>1
  <2>5. ASSUME NEW n, RowsUpTo(data, r, n), \A t \in Cleared : data'[t] = data[t], n \in 0..Len(Filled(r))
        PROVE  RowsUpTo(data', r, n)
    <3>1. \A j \in 1..n : Filled(r)[j] \in Cleared
      BY <1>0, <2>5, FilledIs
    <3> QED
      BY <2>5, <3>1 DEF RowsUpTo
  <2>6. FullSoFar(r)'
    <3>1. SUFFICES ASSUME r \notin met', reset[r].step = "filling"
                   PROVE  /\ RowsUpTo(data', r, reset[r].at - 1)
                          /\ reset[r].at = 1 => \A t \in Cleared : data'[t] = {}
      BY DEF FullSoFar
    <3>2. /\ RowsUpTo(data, r, reset[r].at - 1) /\ \A t \in Cleared : data'[t] = data[t]
          /\ reset[r].at = 1 => \A t \in Cleared : data[t] = {}
      BY <1>1, <2>3, <3>1 DEF RowsFit, FullSoFar
    <3>3. reset[r].at - 1 \in 0..Len(Filled(r))
      BY <1>1, <3>1, FilledIs DEF StepFits
    <3> QED
      BY <2>5, <3>2, <3>3
  <2>7. FullNow(r)'
    <3>1. SUFFICES ASSUME r \notin met', reset[r].step \in {"filled", "storing"}
                   PROVE  RowsUpTo(data', r, Len(Filled(r)))
      BY DEF FullNow
    <3>2. RowsUpTo(data, r, Len(Filled(r))) /\ \A t \in Cleared : data'[t] = data[t]
      BY <1>1, <2>3, <3>1 DEF RowsFit, FullNow
    <3>3. Len(Filled(r)) \in 0..Len(Filled(r))
      BY FilledIs
    <3> QED
      BY <2>5, <3>2, <3>3
  <2> QED
    BY <1>3, <2>1, <2>2, <2>6, <2>7 DEF RowsFit
<1> QED
  BY <1>7, <1>8

(* A run empties a table. *)
LEMMA WipeIs ==
    ASSUME ResetInv, NEW q \in Run, Wipe(q)
    PROVE  LET t == Wiped[reset[q].at]
           IN  /\ t \in Table /\ reset[q].step = "wiping" /\ reset[q].at \in 1..12
               /\ \/ Referred(t) /\ Goes(q, "failed", 1) /\ UNCHANGED <<data, met>>
                  \/ /\ ~ Referred(t)
                     /\ data' \in [Table -> SUBSET Generation]
                     /\ \A u \in Table : data'[u] = IF u \in Deleted(t) THEN {} ELSE data[u]
                     /\ met' = met \cup {p \in Run \ {q} : p \in data[t]}
                     /\ \/ reset[q].at = 12 /\ Goes(q, "filling", 1)
                        \/ reset[q].at # 12 /\ Goes(q, "wiping", reset[q].at + 1)
<1>1. reset[q].step = "wiping" /\ reset[q].at \in 1..12
  BY WipedIs DEF Wipe, ResetInv, StepFits
<1>2. Wiped[reset[q].at] \in Table /\ (Wiped[reset[q].at] = Last(Wiped) <=> reset[q].at = 12)
  BY <1>1, WipedIs
<1>3. ASSUME data' = [u \in Table |-> IF u \in Deleted(Wiped[reset[q].at]) THEN {} ELSE data[u]]
      PROVE  /\ data' \in [Table -> SUBSET Generation]
             /\ \A u \in Table : data'[u] = IF u \in Deleted(Wiped[reset[q].at]) THEN {} ELSE data[u]
  BY <1>3 DEF ResetInv, ResetTypeOK
<1> QED
  BY <1>1, <1>2, <1>3 DEF Wipe

(* If nobody met it nothing refers to what it empties. *)
LEMMA WipeFree ==
    ASSUME ResetInv, NEW r \in Run, r \notin met, reset[r].step = "wiping"
    PROVE  ~ Referred(Wiped[reset[r].at])
<1>1. reset[r].at \in 1..12 /\ \A j \in 1..(reset[r].at - 1) : data[Wiped[j]] = {}
  BY WipedIs DEF ResetInv, StepFits, RowsFit, EmptySoFar
<1>2. ASSUME NEW c \in Table, Wiped[reset[r].at] \in Restricts(c) PROVE data[c] = {}
  <2>1. PICK j \in 1..(reset[r].at - 1) : Wiped[j] = c
    BY <1>1, <1>2, WipedInOrder
  <2> QED
    BY <1>1, <2>1
<1> QED
  BY <1>2 DEF Referred

LEMMA WipedBeside ==
    ASSUME ResetInv, NEW q \in Run, Wipe(q), NEW r \in Run \ {q}, reset'[r] = reset[r]
    PROVE  RowsFit(r)' /\ StepFits(r)'
<1> DEFINE t == Wiped[reset[q].at]
<1>1. RowsFit(r) /\ StepFits(r)
  BY DEF ResetInv
<1>2. CASE UNCHANGED <<data, met>>
  BY <1>1, <1>2, SameRows
<1>3. CASE /\ \A u \in Table : data'[u] = IF u \in Deleted(t) THEN {} ELSE data[u]
           /\ met' = met \cup {p \in Run \ {q} : p \in data[t]}
  <2>1. NotYet(r)' /\ StepFits(r)'
    BY <1>1, <1>3 DEF RowsFit, NotYet, StepFits
  <2>2. EmptySoFar(r)'
    <3>1. reset[r].step = "wiping" => \A j \in 1..(reset[r].at - 1) : Wiped[j] \in Table
      BY <1>1, WipedIs DEF StepFits
    <3> QED
      BY <1>1, <1>3, <3>1 DEF RowsFit, EmptySoFar
  <2>3. ASSUME NEW u \in Table, r \notin met' PROVE r \notin met /\ (r \in data[u] => r \in data'[u])
    <3>1. r \notin met /\ r \notin data[t]
      BY <1>3, <2>3
    <3>2. r \in data[u] => u \notin Deleted(t)
      BY <3>1 DEF Deleted, ResetInv
    <3> QED
      BY <1>3, <3>1, <3>2
  <2>4. ASSUME NEW n, RowsUpTo(data, r, n), r \notin met', n \in 0..Len(Filled(r)) PROVE RowsUpTo(data', r, n)
    <3>1. \A j \in 1..n : Filled(r)[j] \in Table
      BY <2>4, FilledIs
    <3>2. \A u \in Table : data'[u] \subseteq data[u]
      BY <1>3
    <3> QED
      BY <2>3, <2>4, <3>1, <3>2, WipedIs DEF RowsUpTo
  <2>5. FullSoFar(r)'
    <3>1. SUFFICES ASSUME r \notin met', reset[r].step = "filling"
                   PROVE  /\ RowsUpTo(data', r, reset[r].at - 1)
                          /\ reset[r].at = 1 => \A u \in Cleared : data'[u] = {}
      BY DEF FullSoFar
    <3>2. r \notin met
      BY <1>3, <3>1
    <3>3. RowsUpTo(data, r, reset[r].at - 1) /\ (reset[r].at = 1 => \A u \in Cleared : data[u] = {})
      BY <1>1, <3>1, <3>2 DEF RowsFit, FullSoFar
    <3>4. reset[r].at - 1 \in 0..Len(Filled(r))
      BY <1>1, <3>1, FilledIs DEF StepFits
    <3> QED
      BY <1>3, <2>4, <3>1, <3>3, <3>4, WipedIs
  <2>6. FullNow(r)'
    <3>1. SUFFICES ASSUME r \notin met', reset[r].step \in {"filled", "storing"}
                   PROVE  RowsUpTo(data', r, Len(Filled(r)))
      BY DEF FullNow
    <3>2. RowsUpTo(data, r, Len(Filled(r)))
      BY <1>1, <1>3, <3>1 DEF RowsFit, FullNow
    <3>3. Len(Filled(r)) \in 0..Len(Filled(r))
      BY FilledIs
    <3> QED
      BY <2>4, <3>1, <3>2, <3>3
  <2> QED
    BY <2>1, <2>2, <2>5, <2>6 DEF RowsFit
<1> QED
  BY <1>2, <1>3, WipeIs

-----------------------------------------------------------------------------
LEMMA WipeOwn ==
    ASSUME ResetInv, NEW r \in Run, Wipe(r)
    PROVE  RowsFit(r)' /\ StepFits(r)'
<1> DEFINE t == Wiped[reset[r].at]
<1>1. /\ t \in Table /\ reset[r].step = "wiping" /\ reset[r].at \in 1..12
      /\ RowsFit(r) /\ StepFits(r) /\ ResetTypeOK
  BY WipeIs DEF ResetInv
<1>2. CASE Goes(r, "failed", 1)
  <2>1. reset'[r].step = "failed"
    BY <1>1, <1>2, GoesIs DEF RunStep
  <2> QED
    BY <2>1 DEF RowsFit, NotYet, EmptySoFar, FullSoFar, FullNow, StepFits
<1>3. CASE /\ \A u \in Table : data'[u] = IF u \in Deleted(t) THEN {} ELSE data[u]
           /\ met' = met \cup {p \in Run \ {r} : p \in data[t]}
           /\ \/ reset[r].at = 12 /\ Goes(r, "filling", 1)
              \/ reset[r].at # 12 /\ Goes(r, "wiping", reset[r].at + 1)
  <2>1. r \notin met' => r \notin met
    BY <1>3
  <2>2. \A u \in Table : r \notin data'[u]
    BY <1>1, <1>3 DEF RowsFit, NotYet
  <2>3. ASSUME r \notin met', NEW j \in 1..reset[r].at PROVE data'[Wiped[j]] = {}
    <3>1. j \in 1..12 /\ Wiped[j] \in Table
      BY <1>1, WipedIs
    <3>2. CASE j = reset[r].at
      BY <1>3, <3>1, <3>2 DEF Deleted
    <3>3. CASE j # reset[r].at
      <4>1. j \in 1..(reset[r].at - 1)
        BY <1>1, <3>3
      <4>2. data[Wiped[j]] = {}
        BY <1>1, <2>1, <2>3, <4>1 DEF RowsFit, EmptySoFar
      <4> QED
        BY <1>3, <3>1, <4>2
    <3> QED
      BY <3>2, <3>3
  <2>4. CASE reset[r].at = 12 /\ Goes(r, "filling", 1)
    <3>1. reset'[r].step = "filling" /\ reset'[r].at = 1
      BY <1>1, <2>4, GoesIs DEF RunStep
    <3>2. r \notin met' => \A u \in Cleared : data'[u] = {}
      BY <2>3, <2>4, WipedIs
    <3>3. FullSoFar(r)'
      BY <3>1, <3>2 DEF FullSoFar, RowsUpTo
    <3>4. 1 \in 1..Len(Filled(r))
      BY FilledIs
    <3> QED
      BY <3>1, <3>3, <3>4 DEF RowsFit, NotYet, EmptySoFar, FullNow, StepFits
  <2>5. CASE reset[r].at # 12 /\ Goes(r, "wiping", reset[r].at + 1)
    <3>1. reset'[r].step = "wiping" /\ reset'[r].at = reset[r].at + 1
      <4>1. reset[r].at + 1 \in 1..13
        BY <1>1
      <4> QED
        BY <1>1, <2>5, <4>1, GoesIs DEF RunStep
    <3>2. reset'[r].at \in 1..Len(Wiped) /\ reset'[r].at - 1 = reset[r].at
      BY <1>1, <2>5, <3>1, WipedIs
    <3>3. EmptySoFar(r)'
      BY <2>3, <3>2 DEF EmptySoFar
    <3> QED
      BY <2>2, <3>1, <3>2, <3>3 DEF RowsFit, NotYet, FullSoFar, FullNow, StepFits
  <2> QED
    BY <1>3, <2>4, <2>5
<1> QED
  BY <1>2, <1>3, WipeIs

(* A run fills a table. *)
LEMMA FillIs ==
    ASSUME ResetInv, NEW q \in Run, Fill(q)
    PROVE  LET t == Filled(q)[reset[q].at]
           IN  /\ t \in Table /\ reset[q].step = "filling" /\ reset[q].at \in 1..Len(Filled(q))
               /\ reset[q].at \in 1..12 /\ (t = Last(Filled(q)) <=> reset[q].at = Len(Filled(q)))
               /\ \/ (AddressTaken(t) \/ ~ Fits({t}, q)) /\ Goes(q, "failed", 1) /\ UNCHANGED <<data, met>>
                  \/ /\ ~ AddressTaken(t) /\ Fits({t}, q)
                     /\ data' = Added({t}, q)
                     /\ met' = met \cup Meets({t}, q)
                     /\ \/ reset[q].at = Len(Filled(q)) /\ Goes(q, IF q \in ByHand THEN "done" ELSE "filled", 1)
                        \/ reset[q].at # Len(Filled(q)) /\ Goes(q, "filling", reset[q].at + 1)
<1>1. reset[q].step = "filling" /\ reset[q].at \in 1..Len(Filled(q))
  BY DEF Fill, ResetInv, StepFits
<1>2. /\ Filled(q)[reset[q].at] \in Table
      /\ Filled(q)[reset[q].at] = Last(Filled(q)) <=> reset[q].at = Len(Filled(q))
      /\ reset[q].at \in 1..12
  BY <1>1, FilledAt
<1> QED
  BY <1>1, <1>2 DEF Fill

LEMMA FillFree ==
    ASSUME ResetInv, NEW r \in Run, r \notin met, reset[r].step = "filling"
    PROVE  LET t == Filled(r)[reset[r].at]
           IN  ~ AddressTaken(t) /\ Fits({t}, r)
<1> DEFINE i == reset[r].at
           t == Filled(r)[i]
<1>1. /\ i \in 1..Len(Filled(r)) /\ RowsUpTo(data, r, i - 1)
      /\ i = 1 => \A u \in Cleared : data[u] = {}
  BY DEF ResetInv, StepFits, RowsFit, FullSoFar
<1>2. /\ t = "user" <=> i = 1
      /\ \A p \in Parents[t] : \E j \in 1..(i - 1) : Filled(r)[j] = p
  <2>1. i \in 1..Len(Filled(r))
    BY <1>1
  <2> HIDE DEF i
  <2>2. Filled(r)[i] = "user" <=> i = 1
    BY <2>1, FilledAt
  <2>3. \A p \in Parents[Filled(r)[i]] : \E j \in 1..(i - 1) : Filled(r)[j] = p
    BY <2>1, FilledAt
  <2> QED
    BY <2>2, <2>3
<1>3. ~ AddressTaken(t)
  BY <1>1, <1>2, TableIs, WipedIs DEF AddressTaken
<1>4. Fits({t}, r)
  BY <1>1, <1>2 DEF Fits, RowsUpTo
<1> QED
  BY <1>3, <1>4

LEMMA FillAdds ==
    ASSUME ResetInv, NEW r \in Run, r \notin met, Fill(r)
    PROVE  /\ RowsUpTo(data', r, reset[r].at)
           /\ \/ reset[r].at = Len(Filled(r)) /\ Goes(r, IF r \in ByHand THEN "done" ELSE "filled", 1)
              \/ reset[r].at # Len(Filled(r)) /\ Goes(r, "filling", reset[r].at + 1)
<1> DEFINE i == reset[r].at
           t == Filled(r)[i]
<1>1. /\ t \in Table /\ i \in 1..Len(Filled(r)) /\ reset[r].step = "filling"
      /\ \A j \in 1..i : Filled(r)[j] \in Table
      /\ t \in ToSet(Filled(r))
  <2>1. i \in 1..Len(Filled(r)) /\ reset[r].step = "filling"
    BY FillIs
  <2> QED
    BY <2>1, FilledAt
<1>2. /\ data' = Added({t}, r)
      /\ \/ i = Len(Filled(r)) /\ Goes(r, IF r \in ByHand THEN "done" ELSE "filled", 1)
         \/ i # Len(Filled(r)) /\ Goes(r, "filling", i + 1)
  BY <1>1, FillFree, FillIs
<1>3. RowsUpTo(data, r, i - 1)
  BY <1>1 DEF ResetInv, RowsFit, FullSoFar
<1>4. \A u \in Table : data'[u] = IF u = t THEN data[u] \cup {r} ELSE data[u]
  <2>1. data' = Added({t}, r)
    BY <1>2
  <2> HIDE DEF t
  <2>2. \A u \in Table : Added({t}, r)[u] = IF u \in {t} THEN data[u] \cup {r} ELSE data[u]
    BY DEF Added
  <2> QED
    BY <2>1, <2>2
<1> HIDE DEF t, i
<1>5. RowsUpTo(data', r, i)
  <2>0. Cleared \subseteq Table
    BY WipedIs
  <2>1. ASSUME NEW u \in Cleared PROVE data'[u] \subseteq {r}
    <3>1. data[u] \subseteq {r}
      BY <1>3 DEF RowsUpTo
    <3>2. data'[u] = data[u] \/ data'[u] = data[u] \cup {r}
      BY <1>4, <2>0
    <3> QED
      BY <3>1, <3>2
  <2>2. \A u \in Cleared : u \notin ToSet(Filled(r)) => data'[u] = {}
    BY <1>1, <1>3, <1>4, <2>0 DEF RowsUpTo
  <2>3. ASSUME NEW j \in 1..i PROVE r \in data'[Filled(r)[j]]
    <3>1. j = i \/ j \in 1..(i - 1)
      BY <1>1
    <3>2. Filled(r)[j] \in Table
      BY <1>1
    <3>3. CASE Filled(r)[j] = t
      BY <1>4, <3>2, <3>3
    <3>4. CASE Filled(r)[j] # t
      <4>1. j \in 1..(i - 1)
        BY <3>1, <3>4 DEF t
      <4>2. r \in data[Filled(r)[j]]
        BY <1>3, <4>1 DEF RowsUpTo
      <4> QED
        BY <1>4, <3>2, <3>4, <4>2
    <3> QED
      BY <3>3, <3>4
  <2> QED
    BY <2>1, <2>2, <2>3 DEF RowsUpTo
<1> QED
  BY <1>2, <1>5 DEF i

LEMMA FillOwn ==
    ASSUME ResetInv, NEW r \in Run, Fill(r)
    PROVE  RowsFit(r)' /\ StepFits(r)'
<1> DEFINE i == reset[r].at
<1>1. /\ reset[r].step = "filling" /\ i \in 1..Len(Filled(r)) /\ i \in 1..12
      /\ ResetTypeOK /\ met \subseteq met'
  BY FillIs DEF ResetInv
<1>2. \/ Goes(r, "failed", 1)
      \/ Goes(r, IF r \in ByHand THEN "done" ELSE "filled", 1) /\ i = Len(Filled(r))
      \/ Goes(r, "filling", i + 1) /\ i # Len(Filled(r))
  BY FillIs
<1>3. \/ reset'[r].step = "failed"
      \/ r \in ByHand /\ reset'[r].step = "done"
      \/ r \notin ByHand /\ reset'[r].step = "filled" /\ i = Len(Filled(r))
      \/ reset'[r].step = "filling" /\ reset'[r].at = i + 1 /\ i # Len(Filled(r))
  <2>1. i + 1 \in 1..13 /\ 1 \in 1..13 /\ {"failed", "done", "filled", "filling"} \subseteq RunStep
    BY <1>1 DEF RunStep
  <2>2. ASSUME NEW s \in RunStep, NEW a \in 1..13, Goes(r, s, a)
        PROVE  reset'[r].step = s /\ reset'[r].at = a
    BY <1>1, <2>2, GoesIs
  <2> HIDE DEF i
  <2>3. Goes(r, "failed", 1) => reset'[r].step = "failed"
    BY <2>1, <2>2
  <2>4. \A s \in {"done", "filled"} : Goes(r, s, 1) => reset'[r].step = s
    BY <2>1, <2>2
  <2>5. Goes(r, "filling", i + 1) => reset'[r].step = "filling" /\ reset'[r].at = i + 1
    BY <2>1, <2>2
  <2> QED
    BY <1>2, <2>3, <2>4, <2>5
<1>4. r \notin met' => RowsUpTo(data', r, i)
  BY <1>1, FillAdds
<1>5. reset'[r].step = "filling" => reset'[r].at \in 1..Len(Filled(r)) /\ reset'[r].at - 1 = i /\ reset'[r].at # 1
  <2>1. reset'[r].step = "filling" => reset'[r].at = i + 1 /\ i # Len(Filled(r))
    BY <1>3
  <2>2. Len(Filled(r)) \in 1..12
    BY FilledIs
  <2>3. i \in 1..Len(Filled(r))
    BY <1>1
  <2> HIDE DEF i
  <2> QED
    BY <2>1, <2>2, <2>3
<1> QED
  BY <1>3, <1>4, <1>5 DEF RowsFit, NotYet, EmptySoFar, FullSoFar, FullNow, StepFits

-----------------------------------------------------------------------------
(* The types, and gates beside their concert. *)
LEMMA FlushKeeps ==
    ASSUME ResetInv, NEW q \in Run, Flush(q)
    PROVE  ResetInv'
<1>1. /\ ResetTypeOK /\ Goes(q, "wiping", 1) /\ q \notin ByHand /\ reset[q].step = "idle"
      /\ stock' = [g \in Generation |-> NoStock] /\ listing' = {}
      /\ holds' = [g \in Generation |-> [kept |-> 0, lost |-> holds[g].kept + holds[g].lost]]
      /\ heard' = (IF reading = {} THEN heard ELSE heard \cup {q})
      /\ UNCHANGED <<data, avail, reading, strays, met, beaten>>
  BY DEF Flush, ResetInv
<1>2. /\ reset' \in [Run -> [step : RunStep, at : 1..Len(Wiped) + 1, got : 0..SeatsPerType]]
      /\ reset'[q].step = "wiping" /\ reset'[q].at = 1
      /\ \A r \in Run \ {q} : reset'[r] = reset[r]
  BY <1>1, GoesIs DEF RunStep
<1>3. ResetTypeOK'
  <2>1. Cardinality({}) <= 1
    BY FS_EmptySet
  <2>2. holds' \in [Generation -> [kept : Nat, lost : Nat]]
    <3>1. \A g \in Generation : holds[g].kept + holds[g].lost \in Nat
      BY <1>1 DEF ResetTypeOK
    <3> QED
      BY <1>1, <3>1
  <2>3. heard' \subseteq Run
    BY <1>1 DEF ResetTypeOK
  <2> QED
    BY <1>1, <1>2, <2>1, <2>2, <2>3 DEF ResetTypeOK
<1>4. ASSUME NEW r \in Run PROVE (StepFits(r) /\ RowsFit(r) /\ ListedSince(r) /\ ReadAsIs(r))'
  <2>1. StepFits(r) /\ RowsFit(r) /\ ListedSince(r) /\ ReadAsIs(r)
    BY DEF ResetInv
  <2>2. CASE r = q
    <3>1. NotYet(r)'
      BY <1>1, <1>2, <2>1, <2>2 DEF RowsFit, NotYet
    <3> QED
      BY <1>1, <1>2, <2>2, <3>1, WipedIs DEF StepFits, RowsFit, EmptySoFar, FullSoFar, FullNow,
         ListedSince, ReadAsIs
  <2>3. CASE r # q
    <3>1. RowsFit(r)' /\ StepFits(r)' /\ ListedSince(r)'
      BY <1>1, <1>2, <2>1, <2>3, SameRows, SameListing
    <3>2. ReadAsIs(r)'
      <4>1. r \in Generation /\ holds'[r].kept = 0
        BY <1>1 DEF Generation
      <4> QED
        BY <1>1, <1>2, <2>1, <2>3, <4>1 DEF ReadAsIs
    <3> QED
      BY <3>1, <3>2
  <2> QED
    BY <2>2, <2>3
<1> QED
  BY <1>1, <1>3, <1>4 DEF ResetInv

LEMMA StartByHandKeeps ==
    ASSUME ResetInv, NEW q \in Run, StartByHand(q)
    PROVE  ResetInv'
<1>1. /\ ResetTypeOK /\ Goes(q, "wiping", 1) /\ q \in ByHand /\ reset[q].step = "idle"
      /\ UNCHANGED <<data, avail, stock, holds, listing, reading, strays, met, heard, beaten>>
  BY DEF StartByHand, ResetInv
<1>2. /\ reset' \in [Run -> [step : RunStep, at : 1..Len(Wiped) + 1, got : 0..SeatsPerType]]
      /\ reset'[q].step = "wiping" /\ reset'[q].at = 1
      /\ \A r \in Run \ {q} : reset'[r] = reset[r]
  BY <1>1, GoesIs DEF RunStep
<1>3. ResetTypeOK'
  BY <1>1, <1>2 DEF ResetTypeOK
<1>4. ASSUME NEW r \in Run PROVE (StepFits(r) /\ RowsFit(r) /\ ListedSince(r) /\ ReadAsIs(r))'
  <2>1. StepFits(r) /\ RowsFit(r) /\ ListedSince(r) /\ ReadAsIs(r)
    BY DEF ResetInv
  <2>2. CASE r = q
    <3>1. NotYet(r)'
      BY <1>1, <1>2, <2>1, <2>2 DEF RowsFit, NotYet
    <3> QED
      BY <1>1, <1>2, <2>2, <3>1, WipedIs DEF StepFits, RowsFit, EmptySoFar, FullSoFar, FullNow,
         ListedSince, ReadAsIs
  <2>3. CASE r # q
    BY <1>1, <1>2, <2>1, <2>3, SameRows, SameListing, SameRead
  <2> QED
    BY <2>2, <2>3
<1> QED
  BY <1>1, <1>3, <1>4 DEF ResetInv

LEMMA WipeKeeps ==
    ASSUME ResetInv, NEW q \in Run, Wipe(q)
    PROVE  ResetInv'
<1>0. PICK t : t = Wiped[reset[q].at]
  OBVIOUS
<1>1. ResetTypeOK /\ UNCHANGED <<avail, stock, holds, listing, reading, strays, heard, beaten>>
  BY DEF Wipe, ResetInv
<1>2. /\ reset[q].step = "wiping" /\ reset[q].at \in 1..12
      /\ \/ Goes(q, "failed", 1) /\ UNCHANGED <<data, met>>
         \/ /\ data' \in [Table -> SUBSET Generation]
            /\ \A u \in Table : data'[u] = IF u \in Deleted(t) THEN {} ELSE data[u]
            /\ met' = met \cup {p \in Run \ {q} : p \in data[t]}
            /\ \/ reset[q].at = 12 /\ Goes(q, "filling", 1)
               \/ reset[q].at # 12 /\ Goes(q, "wiping", reset[q].at + 1)
  BY ONLY <1>0, ResetInv, Wipe(q), q \in Run, WipeIs
<1>3. /\ reset' \in [Run -> [step : RunStep, at : 1..Len(Wiped) + 1, got : 0..SeatsPerType]]
      /\ reset'[q].step \in {"failed", "filling", "wiping"}
      /\ \A r \in Run \ {q} : reset'[r] = reset[r]
  <2>1. /\ reset[q].at + 1 \in 1..13 /\ 1 \in 1..13
        /\ {"failed", "filling", "wiping"} \subseteq RunStep
    BY <1>2 DEF RunStep
  <2>2. PICK s \in {"failed", "filling", "wiping"}, a \in 1..13 : Goes(q, s, a)
    BY <1>2, <2>1
  <2> QED
    BY <1>1, <2>1, <2>2, GoesIs
<1>4. ResetTypeOK'
  BY <1>1, <1>2, <1>3 DEF ResetTypeOK
<1>5. data'["gate"] \subseteq data'["concert"]
  BY <1>2, TableIs DEF ResetInv, Deleted
<1>6. met \subseteq met'
  BY <1>2
<1>7. ASSUME NEW r \in Run PROVE (StepFits(r) /\ RowsFit(r) /\ ListedSince(r) /\ ReadAsIs(r))'
  <2>1. ListedSince(r) /\ ReadAsIs(r)
    BY DEF ResetInv
  <2>2. CASE r = q
    <3>1. StepFits(r)' /\ RowsFit(r)'
      BY <2>2, WipeOwn
    <3>2. ListedSince(r)'
      BY <1>1, <1>2, <1>3, <2>1, <2>2 DEF ListedSince
    <3>3. ReadAsIs(r)'
      BY <1>3, <2>2 DEF ReadAsIs
    <3> QED
      BY <3>1, <3>2, <3>3
  <2>3. CASE r # q
    <3>1. reset'[r] = reset[r]
      BY <1>3, <2>3
    <3> QED
      BY <1>1, <1>6, <2>1, <2>3, <3>1, WipedBeside, SameListing, SameRead
  <2> QED
    BY <2>2, <2>3
<1> QED
  BY <1>4, <1>5, <1>7 DEF ResetInv

(* An insert keeps gates beside their concert. *)
LEMMA GatesBeside ==
    ASSUME ResetInv, NEW T \in SUBSET Table, NEW g \in Generation, Fits(T, g), data' = Added(T, g)
    PROVE  data'["gate"] \subseteq data'["concert"]
<1>1. /\ data["gate"] \subseteq data["concert"] /\ "gate" \in Table /\ "concert" \in Table
      /\ "concert" \in Parents["gate"]
  BY TableIs DEF ResetInv, Parents
<1>2. \A t \in Table : data'[t] = IF t \in T THEN data[t] \cup {g} ELSE data[t]
  <2>1. \A t \in Table : Added(T, g)[t] = IF t \in T THEN data[t] \cup {g} ELSE data[t]
    BY DEF Added
  <2> QED
    BY <2>1
<1>3. "gate" \in T => "concert" \in T \/ g \in data["concert"]
  BY <1>1 DEF Fits
<1> QED
  BY <1>1, <1>2, <1>3

LEMMA FillKeeps ==
    ASSUME ResetInv, NEW q \in Run, Fill(q)
    PROVE  ResetInv'
<1>1. PICK t : t = Filled(q)[reset[q].at]
  OBVIOUS
<1>2. /\ t \in Table /\ reset[q].step = "filling" /\ reset[q].at \in 1..12
      /\ \/ Goes(q, "failed", 1) /\ UNCHANGED <<data, met>>
         \/ /\ Fits({t}, q) /\ data' = Added({t}, q) /\ met' = met \cup Meets({t}, q)
            /\ \/ Goes(q, "done", 1) /\ q \in ByHand
               \/ Goes(q, "filled", 1)
               \/ Goes(q, "filling", reset[q].at + 1)
  BY <1>1, FillIs
<1>3. ResetTypeOK /\ UNCHANGED <<avail, stock, holds, listing, reading, strays, heard, beaten>> /\ q \in Generation
  BY DEF Fill, ResetInv, Generation
<1>4. /\ reset' \in [Run -> [step : RunStep, at : 1..Len(Wiped) + 1, got : 0..SeatsPerType]]
      /\ reset'[q].step \in {"failed", "done", "filled", "filling"}
      /\ \A r \in Run \ {q} : reset'[r] = reset[r]
  <2>1. /\ reset[q].at + 1 \in 1..13 /\ 1 \in 1..13
        /\ {"failed", "done", "filled", "filling"} \subseteq RunStep
    BY <1>2 DEF RunStep
  <2>2. PICK s \in {"failed", "done", "filled", "filling"}, a \in 1..13 : Goes(q, s, a)
    BY <1>2, <2>1
  <2> QED
    BY <1>3, <2>1, <2>2, GoesIs
<1>5. met \subseteq met' /\ met' \subseteq Run /\ data' \in [Table -> SUBSET Generation]
  <2>1. Added({t}, q) \in [Table -> SUBSET Generation] /\ Meets({t}, q) \subseteq Run
    BY <1>3, AddedIs DEF Meets
  <2>2. data \in [Table -> SUBSET Generation] /\ met \subseteq Run
    BY <1>3 DEF ResetTypeOK
  <2> QED
    BY <1>2, <2>1, <2>2
<1>6. ResetTypeOK'
  BY <1>3, <1>4, <1>5 DEF ResetTypeOK
<1>7. data'["gate"] \subseteq data'["concert"]
  <2>1. CASE UNCHANGED data
    BY <2>1 DEF ResetInv
  <2>2. CASE Fits({t}, q) /\ data' = Added({t}, q)
    <3>1. {t} \in SUBSET Table
      BY <1>2
    <3> QED
      BY <1>3, <2>2, <3>1, GatesBeside
  <2> QED
    BY <1>2, <2>1, <2>2
<1>8. ASSUME NEW r \in Run PROVE (StepFits(r) /\ RowsFit(r) /\ ListedSince(r) /\ ReadAsIs(r))'
  <2>1. StepFits(r) /\ RowsFit(r) /\ ListedSince(r) /\ ReadAsIs(r)
    BY DEF ResetInv
  <2>2. CASE r = q
    <3>1. StepFits(r)' /\ RowsFit(r)'
      BY <2>2, FillOwn
    <3>2. ListedSince(r)'
      BY <1>2, <1>3, <1>4, <2>1, <2>2 DEF ListedSince
    <3>3. ReadAsIs(r)'
      BY <1>4, <2>2 DEF ReadAsIs
    <3> QED
      BY <3>1, <3>2, <3>3
  <2>3. CASE r # q
    <3>1. reset'[r] = reset[r]
      BY <1>4, <2>3
    <3>2. RowsFit(r)' /\ StepFits(r)'
      <4>1. CASE UNCHANGED <<data, met>>
        BY <2>1, <3>1, <4>1, SameRows
      <4>2. CASE data' = Added({t}, q) /\ met' = met \cup Meets({t}, q)
        <5>1. {t} \in SUBSET Table
          BY <1>2
        <5> QED
          BY <1>3, <2>3, <3>1, <4>2, <5>1, Inserted
      <4> QED
        BY <1>2, <4>1, <4>2
    <3> QED
      BY <1>3, <1>5, <2>1, <3>1, <3>2, SameListing, SameRead
  <2> QED
    BY <2>2, <2>3
<1> QED
  BY <1>6, <1>7, <1>8 DEF ResetInv

(* The rest of the system inserts rows. *)
LEMMA InsertKeeps ==
    ASSUME ResetInv, NEW T \in SUBSET Table, NEW g \in Generation, Fits(T, g),
           g \in Run => \E p \in Cleared : g \in data[p],
           data' = Added(T, g), met' = met \cup Meets(T, g), UNCHANGED reset
    PROVE  /\ data' \in [Table -> SUBSET Generation] /\ met' \subseteq Run /\ met \subseteq met'
           /\ data'["gate"] \subseteq data'["concert"]
           /\ \A r \in Run : RowsFit(r)' /\ StepFits(r)'
<1>1. Meets(T, g) \subseteq Run
  BY DEF Meets
<1>2. ResetTypeOK
  BY DEF ResetInv
<1>3. data' \in [Table -> SUBSET Generation]
  BY <1>2, AddedIs
<1>4. met' \subseteq Run /\ met \subseteq met'
  BY <1>1, <1>2 DEF ResetTypeOK
<1>5. data'["gate"] \subseteq data'["concert"]
  BY GatesBeside
<1>6. \A r \in Run : RowsFit(r)' /\ StepFits(r)'
  BY Inserted
<1> QED
  BY <1>3, <1>4, <1>5, <1>6

(* What another's read or write of stocks and holds leaves alone. *)
LEMMA StocksKeep ==
    ASSUME ResetInv, UNCHANGED <<listing, reading, heard, reset>>, met \subseteq met',
           \A r \in Run : RowsFit(r)' /\ StepFits(r)',
           NEW g \in Generation,
           \/ beaten' = beaten \cup Beats(g)
           \/ UNCHANGED <<avail, beaten>> /\ holds'[g].kept <= holds[g].kept,
           \A h \in Generation \ {g} : avail'[h] = avail[h] /\ holds'[h] = holds[h],
           holds'[g].kept \in Nat
    PROVE  \A r \in Run : (StepFits(r) /\ RowsFit(r) /\ ListedSince(r) /\ ReadAsIs(r))'
<1> SUFFICES ASSUME NEW r \in Run PROVE ListedSince(r)' /\ ReadAsIs(r)'
  OBVIOUS
<1>1. ListedSince(r) /\ ReadAsIs(r) /\ r \in Generation
  BY DEF ResetInv, Generation
<1>2. ListedSince(r)'
  BY <1>1, SameListing
<1>3. CASE r = g
  <2>1. beaten' = beaten \cup Beats(g) => ReadAsIs(r)'
    BY <1>3 DEF ReadAsIs, Beats
  <2>2. UNCHANGED <<avail, beaten>> /\ holds'[g].kept <= holds[g].kept => ReadAsIs(r)'
    BY <1>1, <1>3 DEF ReadAsIs
  <2> QED
    BY <1>2, <2>1, <2>2
<1>4. CASE r # g
  BY <1>1, <1>2, <1>4, SameRead
<1> QED
  BY <1>3, <1>4

(* The holds of a generation. *)
LEMMA HoldsType ==
    ASSUME ResetTypeOK, NEW g \in Generation, NEW h \in {"kept", "lost"}, NEW n \in Nat,
           holds' = [holds EXCEPT ![g][h] = n]
    PROVE  /\ holds' \in [Generation -> [kept : Nat, lost : Nat]]
           /\ holds'[g].kept = IF h = "kept" THEN n ELSE holds[g].kept
           /\ \A i \in Generation \ {g} : holds'[i] = holds[i]
<1>1. holds \in [Generation -> [kept : Nat, lost : Nat]]
  BY DEF ResetTypeOK
<1>2. CASE h = "kept"
  BY <1>1, <1>2
<1>3. CASE h = "lost"
  BY <1>1, <1>3
<1> QED
  BY <1>2, <1>3

LEMMA HoldTicketKeeps ==
    ASSUME ResetInv, NEW g \in Generation, HoldTicket(g)
    PROVE  ResetInv'
<1>1. /\ holds' = [holds EXCEPT ![g].kept = holds[g].kept + 1]
      /\ beaten' = beaten \cup Beats(g) /\ strays < MaxStrays /\ strays' = strays + 1
      /\ UNCHANGED <<data, avail, listing, reading, reset, met, heard>> /\ ResetTypeOK
  BY DEF HoldTicket, Stray, ResetInv
<1>2. holds[g].kept \in Nat /\ holds[g].kept + 1 \in Nat
  BY <1>1 DEF ResetTypeOK
<1>3. /\ holds' \in [Generation -> [kept : Nat, lost : Nat]] /\ holds'[g].kept \in Nat
      /\ \A h \in Generation \ {g} : holds'[h] = holds[h]
  BY <1>1, <1>2, HoldsType
<1>4. PICK n \in Nat : stock' = [stock EXCEPT ![g] = n]
  <2> DEFINE left == IF stock[g] = NoStock THEN avail[g] ELSE stock[g]
  <2>1. left > 0 /\ stock' = [stock EXCEPT ![g] = left - 1]
    BY DEF HoldTicket
  <2>2. left \in Nat
    BY <1>1, ResetAssumption DEF ResetTypeOK
  <2> HIDE DEF left
  <2>3. left - 1 \in Nat
    BY <2>1, <2>2
  <2> QED
    BY <2>1, <2>3
<1>5. ResetTypeOK'
  <2>1. stock' \in [Generation -> Nat \cup {NoStock}] /\ strays' \in 0..MaxStrays /\ beaten' \subseteq Run
    BY <1>1, <1>4, ResetAssumption DEF ResetTypeOK, Beats
  <2> QED
    BY <1>1, <1>3, <2>1 DEF ResetTypeOK
<1>6. \A r \in Run : RowsFit(r)' /\ StepFits(r)'
  BY <1>1, SameRows DEF ResetInv
<1>7. \A r \in Run : (StepFits(r) /\ RowsFit(r) /\ ListedSince(r) /\ ReadAsIs(r))'
  BY <1>1, <1>3, <1>6, StocksKeep
<1> QED
  BY <1>1, <1>5, <1>7 DEF ResetInv

LEMMA CountHeldKeeps ==
    ASSUME ResetInv, NEW g \in Generation, NEW h \in {"kept", "lost"}, CountHeld(g, h)
    PROVE  ResetInv'
<1> DEFINE T == {"order", "orderItem"}
<1>1. T \in SUBSET Table /\ "user" \in Parents["order"] /\ "user" \notin T /\ "user" \in Cleared
  BY TableIs, WipedIs DEF Parents
<1>2. /\ Fits(T, g) /\ data' = Added(T, g) /\ met' = met \cup Meets(T, g)
      /\ holds[g][h] > 0 /\ holds' = [holds EXCEPT ![g][h] = holds[g][h] - 1]
      /\ avail[g] > 0 /\ avail' = [avail EXCEPT ![g] = avail[g] - 1]
      /\ beaten' = beaten \cup Beats(g)
      /\ UNCHANGED <<stock, listing, reading, reset, strays, heard>> /\ ResetTypeOK
  BY DEF CountHeld, ResetInv
<1>3. g \in data["user"]
  BY <1>1, <1>2 DEF Fits
<1> HIDE DEF T
<1>4. /\ data' \in [Table -> SUBSET Generation] /\ met' \subseteq Run /\ met \subseteq met'
      /\ data'["gate"] \subseteq data'["concert"]
      /\ \A r \in Run : RowsFit(r)' /\ StepFits(r)'
  BY <1>1, <1>2, <1>3, InsertKeeps
<1>5. /\ holds' \in [Generation -> [kept : Nat, lost : Nat]] /\ holds'[g].kept \in Nat
      /\ \A i \in Generation \ {g} : holds'[i] = holds[i]
  <2>1. holds[g][h] - 1 \in Nat
    BY <1>2 DEF ResetTypeOK
  <2>2. /\ holds' \in [Generation -> [kept : Nat, lost : Nat]]
        /\ \A i \in Generation \ {g} : holds'[i] = holds[i]
    BY <1>2, <2>1, HoldsType
  <2> QED
    BY <2>2
<1>6. ResetTypeOK'
  <2>1. avail' \in [Generation -> 0..SeatsPerType]
    <3>1. avail[g] - 1 \in 0..SeatsPerType
      BY <1>2, ResetAssumption DEF ResetTypeOK
    <3> QED
      BY <1>2, <3>1 DEF ResetTypeOK
  <2>2. beaten' \subseteq Run
    BY <1>2 DEF ResetTypeOK, Beats
  <2> QED
    BY <1>2, <1>4, <1>5, <2>1, <2>2 DEF ResetTypeOK
<1>7. \A i \in Generation \ {g} : avail'[i] = avail[i]
  BY <1>2 DEF ResetTypeOK
<1>8. \A r \in Run : (StepFits(r) /\ RowsFit(r) /\ ListedSince(r) /\ ReadAsIs(r))'
  BY <1>2, <1>4, <1>5, <1>7, StocksKeep
<1> QED
  BY <1>4, <1>6, <1>8 DEF ResetInv

LEMMA RefuseHeldKeeps ==
    ASSUME ResetInv, NEW g \in Generation, NEW h \in {"kept", "lost"}, RefuseHeld(g, h)
    PROVE  ResetInv'
<1> DEFINE T == {"order", "orderItem"}
<1>1. T \in SUBSET Table /\ "user" \in Parents["order"] /\ "user" \notin T /\ "user" \in Cleared
  BY TableIs, WipedIs DEF Parents
<1>2. /\ \/ Fits(T, g) /\ data' = Added(T, g) /\ met' = met \cup Meets(T, g)
         \/ UNCHANGED <<data, met>>
      /\ holds[g][h] > 0 /\ holds' = [holds EXCEPT ![g][h] = holds[g][h] - 1]
      /\ stock' = (IF h = "kept" THEN [stock EXCEPT ![g] = stock[g] + 1] ELSE stock)
      /\ UNCHANGED <<avail, listing, reading, reset, strays, heard, beaten>> /\ ResetTypeOK
  BY DEF RefuseHeld, ResetInv
<1>3. Fits(T, g) => g \in data["user"]
  BY <1>1 DEF Fits
<1> HIDE DEF T
<1>4. /\ data' \in [Table -> SUBSET Generation] /\ met' \subseteq Run /\ met \subseteq met'
      /\ data'["gate"] \subseteq data'["concert"]
      /\ \A r \in Run : RowsFit(r)' /\ StepFits(r)'
  <2>1. CASE Fits(T, g) /\ data' = Added(T, g) /\ met' = met \cup Meets(T, g)
    BY <1>1, <1>2, <1>3, <2>1, InsertKeeps
  <2>2. CASE UNCHANGED <<data, met>>
    BY <1>2, <2>2, SameRows DEF ResetInv, ResetTypeOK
  <2> QED
    BY <1>2, <2>1, <2>2
<1>5. /\ holds' \in [Generation -> [kept : Nat, lost : Nat]] /\ holds'[g].kept \in Nat
      /\ holds'[g].kept <= holds[g].kept
      /\ \A i \in Generation \ {g} : holds'[i] = holds[i]
  <2>0. holds[g] \in [kept : Nat, lost : Nat]
    BY <1>2 DEF ResetTypeOK
  <2>1. holds[g][h] - 1 \in Nat /\ holds[g][h] \in Nat /\ holds[g].kept \in Nat
    <3>1. CASE h = "kept"
      BY <1>2, <2>0, <3>1
    <3>2. CASE h = "lost"
      BY <1>2, <2>0, <3>2
    <3> QED
      BY <3>1, <3>2
  <2>2. /\ holds' \in [Generation -> [kept : Nat, lost : Nat]]
        /\ holds'[g].kept = IF h = "kept" THEN holds[g][h] - 1 ELSE holds[g].kept
        /\ \A i \in Generation \ {g} : holds'[i] = holds[i]
    <3>1. PICK n \in Nat : n = holds[g][h] - 1
      BY <2>1
    <3>2. holds' = [holds EXCEPT ![g][h] = n] /\ ResetTypeOK
      BY <1>2, <3>1
    <3>3. /\ holds' \in [Generation -> [kept : Nat, lost : Nat]]
          /\ holds'[g].kept = IF h = "kept" THEN n ELSE holds[g].kept
          /\ \A i \in Generation \ {g} : holds'[i] = holds[i]
      BY ONLY <3>2, HoldsType, g \in Generation, h \in {"kept", "lost"}, n \in Nat
    <3> QED
      BY <3>1, <3>3
  <2>3. CASE h = "kept"
    <3>1. holds[g][h] = holds[g].kept
      BY <2>3
    <3>2. holds'[g].kept = holds[g].kept - 1
      BY <2>2, <2>3, <3>1
    <3> QED
      BY <2>1, <2>2, <3>1, <3>2
  <2>4. CASE h # "kept"
    BY <2>1, <2>2, <2>4
  <2> QED
    BY <2>2, <2>3, <2>4
<1>6. ResetTypeOK'
  <2>1. stock' \in [Generation -> Nat \cup {NoStock}]
    <3>1. stock[g] + 1 \in Nat
      BY <1>2 DEF ResetTypeOK, NoStock
    <3> QED
      BY <1>2, <3>1 DEF ResetTypeOK
  <2> QED
    BY <1>2, <1>4, <1>5, <2>1 DEF ResetTypeOK
<1>7. \A r \in Run : (StepFits(r) /\ RowsFit(r) /\ ListedSince(r) /\ ReadAsIs(r))'
  BY <1>2, <1>4, <1>5, StocksKeep
<1> QED
  BY <1>4, <1>6, <1>7 DEF ResetInv

LEMMA EndOrderKeeps ==
    ASSUME ResetInv, NEW g \in Generation, EndOrder(g)
    PROVE  ResetInv'
<1>1. /\ avail[g] < SeatsPerType /\ avail' = [avail EXCEPT ![g] = avail[g] + 1]
      /\ \/ stock[g] # NoStock /\ stock' = [stock EXCEPT ![g] = stock[g] + 1]
         \/ UNCHANGED stock
      /\ beaten' = beaten \cup Beats(g) /\ strays < MaxStrays /\ strays' = strays + 1
      /\ UNCHANGED <<data, holds, listing, reading, reset, met, heard>> /\ ResetTypeOK
  BY DEF EndOrder, Stray, ResetInv
<1>2. ResetTypeOK'
  <2>1. avail' \in [Generation -> 0..SeatsPerType]
    <3>1. avail[g] + 1 \in 0..SeatsPerType
      BY <1>1, ResetAssumption DEF ResetTypeOK
    <3> QED
      BY <1>1, <3>1 DEF ResetTypeOK
  <2>2. stock' \in [Generation -> Nat \cup {NoStock}]
    <3>1. stock[g] + 1 \in Nat
      BY <1>1 DEF ResetTypeOK, NoStock
    <3> QED
      BY <1>1, <3>1 DEF ResetTypeOK
  <2>3. strays' \in 0..MaxStrays /\ beaten' \subseteq Run
    BY <1>1, ResetAssumption DEF ResetTypeOK, Beats
  <2> QED
    BY <1>1, <2>1, <2>2, <2>3 DEF ResetTypeOK
<1>3. \A r \in Run : RowsFit(r)' /\ StepFits(r)'
  BY <1>1, SameRows DEF ResetInv
<1>4. holds'[g].kept \in Nat /\ \A h \in Generation \ {g} : avail'[h] = avail[h] /\ holds'[h] = holds[h]
  BY <1>1 DEF ResetTypeOK
<1>5. \A r \in Run : (StepFits(r) /\ RowsFit(r) /\ ListedSince(r) /\ ReadAsIs(r))'
  BY <1>1, <1>3, <1>4, StocksKeep
<1> QED
  BY <1>1, <1>2, <1>5 DEF ResetInv

LEMMA InsertElsewhereKeeps ==
    ASSUME ResetInv, NEW g \in Generation, NEW t \in {"ticket", "gate", "guestListEntry", "uploadedFile", "user"},
           t = "user" => g = Old, InsertElsewhere(t, g)
    PROVE  ResetInv'
<1>1. {t} \in SUBSET Table
  BY TableIs
<1>2. /\ Fits({t}, g) /\ data' = Added({t}, g) /\ met' = met \cup Meets({t}, g)
      /\ strays < MaxStrays /\ strays' = strays + 1
      /\ UNCHANGED <<avail, stock, holds, listing, reading, reset, heard, beaten>> /\ ResetTypeOK
  BY DEF InsertElsewhere, Stray, ResetInv
<1>3. g \in Run => \E p \in Cleared : g \in data[p]
  <2>1. CASE t = "user"
    BY <2>1, ResetAssumption
  <2>2. CASE t \in {"gate", "guestListEntry", "uploadedFile"}
    <3>1. "concert" \in Parents[t] /\ "concert" # t /\ "concert" \in Cleared
      BY <2>2, TableIs, WipedIs DEF Parents
    <3> QED
      BY <1>2, <3>1 DEF Fits
  <2>3. CASE t = "ticket"
    <3>1. "order" \in Parents[t] /\ "order" # t /\ "order" \in Cleared
      BY <2>3, TableIs, WipedIs DEF Parents
    <3> QED
      BY <1>2, <3>1 DEF Fits
  <2> QED
    BY <2>1, <2>2, <2>3
<1>4. /\ data' \in [Table -> SUBSET Generation] /\ met' \subseteq Run /\ met \subseteq met'
      /\ data'["gate"] \subseteq data'["concert"]
      /\ \A r \in Run : RowsFit(r)' /\ StepFits(r)'
  BY <1>1, <1>2, <1>3, InsertKeeps
<1>5. ResetTypeOK'
  <2>1. strays' \in 0..MaxStrays
    BY <1>2, ResetAssumption DEF ResetTypeOK
  <2> QED
    BY <1>2, <1>4, <2>1 DEF ResetTypeOK
<1>6. \A r \in Run : ListedSince(r)' /\ ReadAsIs(r)'
  BY <1>2, <1>4, SameListing, SameRead DEF ResetInv
<1> QED
  BY <1>4, <1>5, <1>6 DEF ResetInv

(* It holds its data and nothing else. *)
LEMMA OnlyItsRows ==
    ASSUME NEW r, NEW d, RowsUpTo(d, r, Len(Filled(r)))
    PROVE  \A t \in Cleared : d[t] = IF t \in ToSet(Filled(r)) THEN {r} ELSE {}
<1>1. ASSUME NEW t \in Cleared, t \in ToSet(Filled(r)) PROVE d[t] = {r}
  <2>1. PICK i \in 1..Len(Filled(r)) : Filled(r)[i] = t
    BY <1>1, FilledIs
  <2>2. r \in d[t] /\ d[t] \subseteq {r}
    BY <2>1 DEF RowsUpTo
  <2> QED
    BY <2>2
<1> QED
  BY <1>1 DEF RowsUpTo

(* The listing as its rows are now, once they are filled. *)
LEMMA ListingFilled ==
    ASSUME ResetInv, NEW r \in Run, r \notin met, reset[r].step \in {"filled", "storing"}
    PROVE  data["concert"] = {r}
<1>1. RowsUpTo(data, r, Len(Filled(r)))
  BY DEF ResetInv, RowsFit, FullNow
<1>2. "concert" \in ToSet(Filled(r)) /\ "concert" \in Cleared
  BY FilledIs
<1> QED
  BY <1>1, <1>2, OnlyItsRows

LEMMA QueryListingKeeps ==
    ASSUME ResetInv, QueryListing
    PROVE  ResetInv'
<1>1. /\ strays < MaxStrays /\ strays' = strays + 1 /\ reading' = reading \cup {data["concert"]}
      /\ heard' = heard \cup {r \in Run : reset[r].step \in {"wiping", "filling"}}
      /\ UNCHANGED <<data, avail, stock, holds, listing, reset, met, beaten>> /\ ResetTypeOK
      /\ "concert" \in Table
  BY TableIs DEF QueryListing, Stray, ResetInv
<1>2. ResetTypeOK'
  <2>1. strays' \in 0..MaxStrays
    BY <1>1, ResetAssumption DEF ResetTypeOK
  <2>2. data["concert"] \in SUBSET Generation
    BY <1>1 DEF ResetTypeOK
  <2>3. reading' \in SUBSET SUBSET Generation /\ heard' \subseteq Run
    BY <1>1, <2>2 DEF ResetTypeOK
  <2> QED
    BY <1>1, <2>1, <2>3 DEF ResetTypeOK
<1>3. ASSUME NEW r \in Run PROVE (StepFits(r) /\ RowsFit(r) /\ ListedSince(r) /\ ReadAsIs(r))'
  <2>1. StepFits(r) /\ RowsFit(r) /\ ListedSince(r) /\ ReadAsIs(r)
    BY DEF ResetInv
  <2>2. r \notin met /\ reset[r].step \in {"filled", "storing"} => data["concert"] = {r}
    BY ListingFilled
  <2>3. ListedSince(r)'
    BY <1>1, <2>1, <2>2 DEF ListedSince
  <2> QED
    BY <1>1, <2>1, <2>3, SameRows, SameRead
<1> QED
  BY <1>1, <1>2, <1>3 DEF ResetInv

LEMMA StoreListingKeeps ==
    ASSUME ResetInv, NEW found \in reading, StoreListing(found)
    PROVE  ResetInv'
<1>1. /\ listing' = {found} /\ reading' \subseteq reading
      /\ UNCHANGED <<data, avail, stock, holds, reset, strays, met, heard, beaten>> /\ ResetTypeOK
  BY DEF StoreListing, ResetInv
<1>2. ResetTypeOK'
  <2>1. found \in SUBSET Generation /\ Cardinality({found}) = 1
    BY <1>1, FS_Singleton DEF ResetTypeOK
  <2>2. listing' \in SUBSET SUBSET Generation /\ Cardinality(listing') <= 1
    BY <1>1, <2>1
  <2> QED
    BY <1>1, <2>2 DEF ResetTypeOK
<1>3. ASSUME NEW r \in Run PROVE (StepFits(r) /\ RowsFit(r) /\ ListedSince(r) /\ ReadAsIs(r))'
  <2>1. StepFits(r) /\ RowsFit(r) /\ ListedSince(r) /\ ReadAsIs(r)
    BY DEF ResetInv
  <2>2. ListedSince(r)'
    BY <1>1, <2>1 DEF ListedSince
  <2> QED
    BY <1>1, <2>1, <2>2, SameRows, SameRead
<1> QED
  BY <1>1, <1>2, <1>3 DEF ResetInv

LEMMA ListingExpiresKeeps ==
    ASSUME ResetInv, ListingExpires
    PROVE  ResetInv'
<1>1. /\ listing' = {} /\ UNCHANGED <<data, avail, stock, holds, reading, reset, strays, met, heard, beaten>>
      /\ ResetTypeOK
  BY DEF ListingExpires, ResetInv
<1>2. ResetTypeOK'
  <2>1. Cardinality({}) <= 1
    BY FS_EmptySet
  <2> QED
    BY <1>1, <2>1 DEF ResetTypeOK
<1>3. \A r \in Run : (StepFits(r) /\ RowsFit(r) /\ ListedSince(r) /\ ReadAsIs(r))'
  BY <1>1, SameRows, SameListing, SameRead DEF ResetInv
<1> QED
  BY <1>1, <1>2, <1>3 DEF ResetInv

(* A reset reads the ticket types and stores their stocks. *)
LEMMA ReadTypesKeeps ==
    ASSUME ResetInv, NEW q \in Run, ReadTypes(q)
    PROVE  ResetInv'
<1>1. /\ reset[q].step = "filled" /\ q \in Generation /\ ResetTypeOK
      /\ reset' = [reset EXCEPT ![q].step = "storing", ![q].got = avail[q]]
      /\ beaten' = (IF holds[q].kept > 0 THEN beaten \cup {q} ELSE beaten)
      /\ UNCHANGED <<data, avail, stock, holds, listing, reading, strays, met, heard>>
  BY DEF ReadTypes, ResetInv, Generation
<1>2. /\ reset' \in [Run -> [step : RunStep, at : 1..Len(Wiped) + 1, got : 0..SeatsPerType]]
      /\ reset'[q].step = "storing" /\ reset'[q].got = avail[q]
      /\ \A r \in Run \ {q} : reset'[r] = reset[r]
  BY <1>1 DEF ResetTypeOK, RunStep
<1>3. ResetTypeOK'
  BY <1>1, <1>2 DEF ResetTypeOK
<1>4. ASSUME NEW r \in Run PROVE (StepFits(r) /\ RowsFit(r) /\ ListedSince(r) /\ ReadAsIs(r))'
  <2>1. StepFits(r) /\ RowsFit(r) /\ ListedSince(r) /\ ReadAsIs(r)
    BY DEF ResetInv
  <2>2. CASE r = q
    <3>1. StepFits(r)'
      BY <1>1, <1>2, <2>1, <2>2 DEF StepFits
    <3>2. RowsFit(r)'
      BY <1>1, <1>2, <2>1, <2>2 DEF RowsFit, NotYet, EmptySoFar, FullSoFar, FullNow
    <3>3. ListedSince(r)'
      BY <1>1, <1>2, <2>1, <2>2 DEF ListedSince
    <3>4. ReadAsIs(r)'
      <4>1. q \notin beaten' => holds[q].kept = 0
        BY <1>1 DEF ResetTypeOK
      <4> QED
        BY <1>1, <1>2, <2>2, <4>1 DEF ReadAsIs
    <3> QED
      BY <3>1, <3>2, <3>3, <3>4
  <2>3. CASE r # q
    BY <1>1, <1>2, <2>1, <2>3, SameRows, SameListing, SameRead
  <2> QED
    BY <2>2, <2>3
<1> QED
  BY <1>1, <1>3, <1>4 DEF ResetInv

LEMMA StoreStocksKeeps ==
    ASSUME ResetInv, NEW q \in Run, StoreStocks(q)
    PROVE  ResetInv'
<1>1. /\ reset[q].step = "storing" /\ Goes(q, "done", 1) /\ ResetTypeOK
      /\ stock' = [stock EXCEPT ![q] = reset[q].got]
      /\ UNCHANGED <<data, avail, holds, listing, reading, strays, met, heard, beaten>>
  BY DEF StoreStocks, ResetInv
<1>2. /\ reset' \in [Run -> [step : RunStep, at : 1..Len(Wiped) + 1, got : 0..SeatsPerType]]
      /\ reset'[q].step = "done"
      /\ \A r \in Run \ {q} : reset'[r] = reset[r]
  BY <1>1, GoesIs DEF RunStep
<1>3. ResetTypeOK'
  <2>1. reset[q].got \in Nat
    BY <1>1, ResetAssumption DEF ResetTypeOK
  <2> QED
    BY <1>1, <1>2, <2>1 DEF ResetTypeOK
<1>4. ASSUME NEW r \in Run PROVE (StepFits(r) /\ RowsFit(r) /\ ListedSince(r) /\ ReadAsIs(r))'
  <2>1. StepFits(r) /\ RowsFit(r) /\ ListedSince(r) /\ ReadAsIs(r)
    BY DEF ResetInv
  <2>2. CASE r = q
    BY <1>2, <2>2 DEF StepFits, RowsFit, NotYet, EmptySoFar, FullSoFar, FullNow, ListedSince, ReadAsIs
  <2>3. CASE r # q
    BY <1>1, <1>2, <2>1, <2>3, SameRows, SameListing, SameRead
  <2> QED
    BY <2>2, <2>3
<1> QED
  BY <1>1, <1>3, <1>4 DEF ResetInv

-----------------------------------------------------------------------------
LEMMA ResetInvInit == ResetInit => ResetInv
<1> SUFFICES ASSUME ResetInit PROVE ResetInv
  OBVIOUS
<1>1. /\ data = [t \in Table |-> {Old}] /\ avail = [g \in Generation |-> SeatsPerType]
      /\ reset = [r \in Run |-> [step |-> "idle", at |-> 1, got |-> 0]]
      /\ strays = 0 /\ met = {} /\ heard = {} /\ beaten = {}
      /\ SeatsPerType \in Nat /\ MaxStrays \in Nat /\ Old \notin Run /\ Old \in Generation
  BY ResetAssumption DEF ResetInit, Generation
<1>2. ResetTypeOK
  <2>1. /\ stock \in [Generation -> Nat \cup {NoStock}] /\ reading = {}
        /\ holds = [g \in Generation |-> [kept |-> 0, lost |-> 0]]
    BY <1>1 DEF ResetInit
  <2>2. listing \in SUBSET SUBSET Generation /\ Cardinality(listing) <= 1
    <3>1. Cardinality({}) = 0 /\ Cardinality({{Old}}) = 1
      BY FS_EmptySet, FS_Singleton
    <3>2. listing = {} \/ listing = {{Old}}
      BY DEF ResetInit
    <3>3. {} \in SUBSET SUBSET Generation /\ {{Old}} \in SUBSET SUBSET Generation
      BY <1>1
    <3>4. CASE listing = {}
      BY <3>1, <3>3, <3>4
    <3>5. CASE listing = {{Old}}
      BY <3>1, <3>3, <3>5
    <3> QED
      BY <3>2, <3>4, <3>5
  <2>3. reset \in [Run -> [step : RunStep, at : 1..Len(Wiped) + 1, got : 0..SeatsPerType]]
    BY <1>1, WipedIs DEF RunStep
  <2> QED
    BY <1>1, <2>1, <2>2, <2>3 DEF ResetTypeOK
<1>3. data["gate"] \subseteq data["concert"]
  BY <1>1, TableIs
<1>4. \A r \in Run : StepFits(r) /\ RowsFit(r) /\ ListedSince(r) /\ ReadAsIs(r)
  BY <1>1, WipedIs DEF StepFits, RowsFit, NotYet, EmptySoFar, FullSoFar, FullNow, ListedSince, ReadAsIs
<1> QED
  BY <1>2, <1>3, <1>4 DEF ResetInv

LEMMA ResetInvNext == ResetInv /\ [ResetNext]_resetVars => ResetInv'
<1> SUFFICES ASSUME ResetInv, [ResetNext]_resetVars PROVE ResetInv'
  OBVIOUS
<1>1. CASE UNCHANGED resetVars
  <2>1. UNCHANGED <<data, avail, stock, holds, listing, reading, reset, strays, met, heard, beaten>>
    BY <1>1 DEF resetVars
  <2>2. ResetTypeOK' /\ data'["gate"] \subseteq data'["concert"]
    BY <2>1 DEF ResetInv, ResetTypeOK
  <2>3. \A r \in Run : (StepFits(r) /\ RowsFit(r) /\ ListedSince(r) /\ ReadAsIs(r))'
    BY <2>1, SameRows, SameListing, SameRead DEF ResetInv
  <2> QED
    BY <2>2, <2>3 DEF ResetInv
<1>2. CASE ResetNext
  <2>1. Old \in Generation
    BY DEF Generation
  <2> QED
    BY <1>2, <2>1, FlushKeeps, StartByHandKeeps, WipeKeeps, FillKeeps, ReadTypesKeeps, StoreStocksKeeps,
       HoldTicketKeeps, CountHeldKeeps, RefuseHeldKeeps, EndOrderKeeps, InsertElsewhereKeeps,
       QueryListingKeeps, StoreListingKeeps, ListingExpiresKeeps DEF ResetNext
<1> QED
  BY <1>1, <1>2

(* How a run ends. *)
LEMMA EndOfRun ==
    ASSUME ResetInv, ResetNext, NEW r \in Run, reset'[r].step # reset[r].step,
           reset'[r].step \in {"failed", "done"}
    PROVE  \/ Wipe(r) /\ reset'[r].step = "failed"
           \/ Fill(r)
           \/ StoreStocks(r) /\ reset'[r].step = "done"
<1>1. ResetTypeOK /\ \A q \in Run : Goes(q, "wiping", 1) => reset'[r].step \in {"wiping", reset[r].step}
  <2>1. ResetTypeOK /\ "wiping" \in RunStep /\ 1 \in 1..13
    BY DEF ResetInv, RunStep
  <2>2. ASSUME NEW q \in Run, Goes(q, "wiping", 1) PROVE reset'[r].step \in {"wiping", reset[r].step}
    <3>1. CASE q = r
      BY <2>1, <2>2, <3>1, GoesIs
    <3>2. CASE q # r
      <4>1. reset'[r] = reset[r]
        BY <2>1, <2>2, <3>2, GoesIs
      <4> QED
        BY <4>1
    <3> QED
      BY <3>1, <3>2
  <2> QED
    BY <2>1, <2>2
<1>2. ASSUME NEW q \in Run, ReadTypes(q) PROVE reset'[r].step \in {"storing", reset[r].step}
  BY <1>1, <1>2 DEF ReadTypes, ResetTypeOK
<1>3. ASSUME NEW q \in Run, q # r, NEW s \in RunStep, NEW a \in 1..13, Goes(q, s, a) PROVE FALSE
  BY <1>1, <1>3, GoesIs
<1>4. ASSUME NEW q \in Run, Wipe(q) PROVE q = r /\ reset'[r].step = "failed"
  <2>1. reset[q].at + 1 \in 1..13 /\ 1 \in 1..13 /\ {"failed", "filling", "wiping"} \subseteq RunStep
    BY <1>4, WipeIs DEF RunStep
  <2>2. PICK s \in {"failed", "filling", "wiping"}, a \in 1..13 : Goes(q, s, a)
    BY <1>4, <2>1, WipeIs
  <2>3. q = r
    BY <1>3, <2>1, <2>2
  <2>4. reset'[r].step = s
    BY <1>1, <2>1, <2>2, <2>3, GoesIs
  <2> QED
    BY <2>3, <2>4
<1>5. ASSUME NEW q \in Run, Fill(q) PROVE q = r
  <2>0. reset[q].at \in 1..12
    BY <1>5, FillIs
  <2>1. reset[q].at + 1 \in 1..13 /\ 1 \in 1..13 /\ {"failed", "done", "filled", "filling"} \subseteq RunStep
    BY <2>0 DEF RunStep
  <2>2. PICK s \in {"failed", "done", "filled", "filling"}, a \in 1..13 : Goes(q, s, a)
    BY <1>5, <2>1, FillIs
  <2> QED
    BY <1>3, <2>1, <2>2
<1>6. ASSUME NEW q \in Run, StoreStocks(q) PROVE q = r /\ reset'[r].step = "done"
  <2>1. Goes(q, "done", 1) /\ "done" \in RunStep
    BY <1>6 DEF StoreStocks, RunStep
  <2>2. q = r
    BY <1>3, <2>1
  <2> QED
    BY <1>1, <2>1, <2>2, GoesIs
<1>7. ASSUME UNCHANGED reset PROVE FALSE
  BY <1>7
<1> QED
  BY <1>1, <1>2, <1>4, <1>5, <1>6, <1>7
     DEF ResetNext, Flush, StartByHand, HoldTicket, CountHeld, RefuseHeld, EndOrder, InsertElsewhere,
         QueryListing, StoreListing, ListingExpires

LEMMA EndIsSeed ==
    ASSUME ResetInv, ResetNext, NEW r \in Run
    PROVE  /\ Ends(r, "failed") => r \in met
           /\ Ends(r, "done") =>
                /\ r \in met \/ OnlyRowsOf(r)'
                /\ r \notin ByHand =>
                     /\ r \in met \cup heard \/ (listing \cup reading)' \subseteq {{r}}
                     /\ r \in met \cup beaten \/ stock'[r] = avail'[r] - holds'[r].kept
<1>1. ResetTypeOK /\ StepFits(r) /\ RowsFit(r) /\ ListedSince(r) /\ ReadAsIs(r) /\ r \in Generation
  BY DEF ResetInv, Generation
<1>2. CASE Wipe(r) /\ reset'[r].step = "failed"
  <2>1. r \in met
    <3>1. SUFFICES ASSUME r \notin met PROVE FALSE
      OBVIOUS
    <3>2. \/ reset[r].at = 12 /\ Goes(r, "filling", 1)
          \/ reset[r].at # 12 /\ Goes(r, "wiping", reset[r].at + 1)
      BY <1>2, <3>1, WipeFree, WipeIs
    <3>3. 1 \in 1..13 /\ reset[r].at + 1 \in 1..13 /\ {"filling", "wiping"} \subseteq RunStep
      BY <1>2, WipeIs DEF RunStep
    <3>4. reset'[r].step \in {"filling", "wiping"}
      BY <1>1, <3>2, <3>3, GoesIs
    <3> QED
      BY <1>2, <3>4
  <2> QED
    BY <1>2, <2>1 DEF Ends
<1>3. CASE Fill(r)
  <2>1. SUFFICES ASSUME r \notin met
                 PROVE  /\ reset'[r].step # "failed"
                        /\ reset'[r].step = "done" => r \in ByHand /\ OnlyRowsOf(r)'
    BY <2>1 DEF Ends
  <2>2. /\ RowsUpTo(data', r, reset[r].at)
        /\ \/ reset[r].at = Len(Filled(r)) /\ Goes(r, IF r \in ByHand THEN "done" ELSE "filled", 1)
           \/ reset[r].at # Len(Filled(r)) /\ Goes(r, "filling", reset[r].at + 1)
    BY <1>3, <2>1, FillAdds
  <2>0. reset[r].at \in 1..12
    BY <1>3, FillIs
  <2>3. 1 \in 1..13 /\ reset[r].at + 1 \in 1..13 /\ {"done", "filled", "filling"} \subseteq RunStep
    BY <2>0 DEF RunStep
  <2>4. CASE reset[r].at = Len(Filled(r)) /\ Goes(r, IF r \in ByHand THEN "done" ELSE "filled", 1)
    <3>1. reset'[r].step = IF r \in ByHand THEN "done" ELSE "filled"
      BY <1>1, <2>3, <2>4, GoesIs
    <3>2. RowsUpTo(data', r, Len(Filled(r)))
      BY <2>2, <2>4
    <3>3. OnlyRowsOf(r)'
      BY <3>2, OnlyItsRows DEF OnlyRowsOf
    <3> QED
      BY <3>1, <3>3
  <2>5. CASE Goes(r, "filling", reset[r].at + 1)
    <3>1. reset'[r].step = "filling"
      BY <1>1, <2>3, <2>5, GoesIs
    <3> QED
      BY <3>1
  <2> QED
    BY <2>2, <2>4, <2>5
<1>4. CASE StoreStocks(r) /\ reset'[r].step = "done"
  <2>1. /\ reset[r].step = "storing" /\ stock' = [stock EXCEPT ![r] = reset[r].got]
        /\ UNCHANGED <<data, avail, holds, listing, reading>>
    BY <1>4 DEF StoreStocks
  <2>2. r \notin met => OnlyRowsOf(r)'
    <3>1. r \notin met => RowsUpTo(data', r, Len(Filled(r)))
      BY <1>1, <2>1 DEF RowsFit, FullNow
    <3> QED
      BY <3>1, OnlyItsRows DEF OnlyRowsOf
  <2>3. r \notin ByHand /\ r \notin met \cup heard => (listing \cup reading)' \subseteq {{r}}
    BY <1>1, <2>1 DEF ListedSince
  <2>4. r \notin beaten => stock'[r] = avail'[r] - holds'[r].kept
    <3>1. r \notin beaten => reset[r].got = avail[r] /\ holds[r].kept = 0 /\ avail[r] \in Int
      BY <1>1, <2>1, ResetAssumption DEF ReadAsIs, ResetTypeOK
    <3>2. stock'[r] = reset[r].got
      BY <1>1, <2>1 DEF ResetTypeOK
    <3> QED
      BY <2>1, <3>1, <3>2
  <2> QED
    BY <1>4, <2>2, <2>3, <2>4 DEF Ends
<1> QED
  BY <1>2, <1>3, <1>4, EndOfRun DEF Ends

(***************************************************************************)
(* A run of the seed script that nobody met does not fail and leaves its   *)
(* data and nothing else in the tables it empties, a reset beside it a     *)
(* listing and stocks of that data unless somebody read or bought in       *)
(* between: for any number of runs at once and any number of statements of *)
(* others.                                                                 *)
(***************************************************************************)
THEOREM ResetSeeds == ResetInit /\ [][ResetNext]_resetVars => ResetLeavesSeed
<1> DEFINE Seeded ==
      \A r \in Run :
        /\ Ends(r, "failed") => r \in met
        /\ Ends(r, "done") =>
             /\ r \in met \/ OnlyRowsOf(r)'
             /\ r \notin ByHand =>
                  /\ r \in met \cup heard \/ (listing \cup reading)' \subseteq {{r}}
                  /\ r \in met \cup beaten \/ stock'[r] = avail'[r] - holds'[r].kept
<1>1. ResetInv /\ [ResetNext]_resetVars => [Seeded]_resetVars
  <2>1. SUFFICES ASSUME ResetInv, ResetNext PROVE Seeded
    OBVIOUS
  <2> QED
    BY <2>1, EndIsSeed
<1> HIDE DEF Seeded
<1>2. ResetInit /\ [][ResetNext]_resetVars => [][Seeded]_resetVars
  BY <1>1, ResetInvInit, ResetInvNext, PTL
<1> QED
  BY <1>2 DEF Seeded, ResetLeavesSeed

(***************************************************************************)
(* Types of the reset: a run stands at a table of its order, and listings  *)
(* and stocks are of data that was or is there.                            *)
(***************************************************************************)
THEOREM ResetTypeCorrect == ResetInit /\ [][ResetNext]_resetVars => []ResetTypeOK
<1>1. ResetInv => ResetTypeOK
  BY DEF ResetInv
<1> QED
  BY <1>1, ResetInvInit, ResetInvNext, PTL
=============================================================================
