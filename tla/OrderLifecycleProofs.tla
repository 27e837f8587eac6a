------------------------- MODULE OrderLifecycleProofs -------------------------
(***************************************************************************)
(* What holds of the order lifecycle for every set of orders, types, users *)
(* and handlers, whatever fails and however the handlers interleave:       *)
(*   - TypeCorrect, and NoOvercommitHolds: the inventory never counts more *)
(*     tickets than a type has;                                            *)
(*   - CountersMatch: the sold and paid counters are sums over the orders; *)
(*   - StoreRefined: every step on Redis is one of the store's, and so     *)
(*     StoreGuarantees brings the store's theorems over;                   *)
(*   - DecidedApart and DecidedOnce: a decision is final for an order that *)
(*     no second decider has read before the first one wrote, whatever the *)
(*     other handlers do; IssuedOnceHolds, of handlers that do not overlap *)
(*     on an order;                                                        *)
(*   - OneTypeHolds and KeysReturned, of handlers that do: which keys the  *)
(*     handlers of an order know of, and who answers for them;             *)
(*   - SeededInFull: lazy seeding never sets a key from a stale read;      *)
(*   - StockContained and LimitContained: Redis and PostgreSQL disagree by *)
(*     no more tickets than those of the orders on which handlers overlap, *)
(*     stop between two counters or undo a creation.                       *)
(* A handler's step is described once, by Advance.  The lemmas after it    *)
(* show it of each action and the invariants are proved from it alone.     *)
(***************************************************************************)
EXTENDS OrderLifecycle, TicketStoreProofs

(* An order asks for a natural number of tickets of each type. *)
LEMMA ItemsNat ==
    ASSUME NEW o \in Order, NEW t \in TicketType
    PROVE  Items[o][t] \in Nat
<1>1. Items[o][t] \in Quantity \cup {0}
  BY LifecycleAssumption DEF LifecycleAssumption
<1>2. CASE Items[o][t] = 0
  BY <1>2
<1>3. CASE Items[o][t] \in Quantity
  BY <1>3, StoreAssumption DEF StoreAssumption
<1> QED
  BY <1>1, <1>2, <1>3

(* What an order asks for is a hold the store knows. *)
LEMMA HoldOfType ==
    ASSUME NEW o \in Order, NEW t \in Cart(o)
    PROVE  t \in TicketType /\ HoldOf(o, t) \in Hold
<1>1. t \in TicketType /\ Items[o][t] > 0 /\ Items[o][t] \in Quantity \cup {0}
  BY LifecycleAssumption DEF LifecycleAssumption, Cart
<1>2. Items[o][t] \in Quantity /\ Owner[o] \in User
  BY <1>1, LifecycleAssumption DEF LifecycleAssumption
<1> QED
  BY <1>1, <1>2 DEF HoldOf, Hold

(* The counter rows of an order belong to a user and a type. *)
LEMMA RowsOfType ==
    ASSUME NEW o \in Order
    PROVE  RowsOf(o) \subseteq User \X TicketType
<1>1. Owner[o] \in User
  BY LifecycleAssumption DEF LifecycleAssumption
<1>2. ASSUME NEW p \in RowsOf(o) PROVE p \in User \X TicketType
  <2>1. PICK t \in Cart(o) : p = <<Owner[o], t>>
    BY DEF RowsOf
  <2> QED
    BY <1>1, <2>1 DEF Cart
<1> QED
  BY <1>2

(* Releasing all items of an order keeps the types of the store. *)
LEMMA ReleaseAllType ==
    ASSUME StoreTypeOK, NEW o \in Order, ReleaseAll(o)
    PROVE  StoreTypeOK'
<1>1. ASSUME NEW t \in Cart(o), Release(HoldOf(o, t)) PROVE StoreTypeOK'
  BY <1>1, ReleaseType, StoreAssumption
<1>2. CASE UNCHANGED storeVars
  BY <1>2 DEF StoreTypeOK, storeVars
<1> QED
  BY <1>1, <1>2 DEF ReleaseAll

-----------------------------------------------------------------------------
(* How the handlers in the slots move *)

(* A busy slot holds a running handler. *)
LEMMA BusySlot ==
    ASSUME HandlerTypeOK, NEW s \in Slot, h[s] # Idle
    PROVE  /\ h[s] \in Running
           /\ h[s].order \in Order /\ h[s].op \in Op
           /\ Owner[h[s].order] \in User
<1>1. h[s] \in Running
  BY DEF HandlerTypeOK
<1> QED
  BY <1>1, LifecycleAssumption DEF Running, LifecycleAssumption

(* The next step of a running handler. *)
LEMMA MoveType ==
    ASSUME HandlerTypeOK, NEW s \in Slot, NEW r \in Running \cup {Idle},
           h' = [h EXCEPT ![s] = r], UNCHANGED <<phase, tries, crashes>>
    PROVE  HandlerTypeOK'
BY DEF HandlerTypeOK

LEMMA GoType ==
    ASSUME HandlerTypeOK, NEW s \in Slot, h[s] # Idle, NEW at \in Step,
           Go(s, at), UNCHANGED <<phase, tries, crashes>>
    PROVE  HandlerTypeOK'
<1>1. h[s] \in Running
  BY BusySlot
<1>2. [h[s] EXCEPT !.at = at] \in Running
  BY <1>1 DEF Running
<1>3. h' = [h EXCEPT ![s] = [h[s] EXCEPT !.at = at]]
  BY DEF Go
<1> QED
  BY <1>2, <1>3, MoveType

LEMMA EndType ==
    ASSUME HandlerTypeOK, NEW s \in Slot, End(s),
           UNCHANGED <<phase, tries, crashes>>
    PROVE  HandlerTypeOK'
BY MoveType DEF End

LEMMA UndoType ==
    ASSUME HandlerTypeOK, NEW s \in Slot, h[s] # Idle,
           NEW op \in Op, NEW at \in Step,
           h' = [h EXCEPT ![s].op = op, ![s].at = at],
           UNCHANGED <<phase, tries, crashes>>
    PROVE  HandlerTypeOK'
<1>1. h[s] \in Running
  BY BusySlot
<1>2. [h[s] EXCEPT !.op = op, !.at = at] \in Running
  BY <1>1 DEF Running
<1>3. h' = [h EXCEPT ![s] = [h[s] EXCEPT !.op = op, !.at = at]]
  BY <1>1 DEF HandlerTypeOK
<1> QED
  BY <1>2, <1>3, MoveType

LEMMA TodoType ==
    ASSUME HandlerTypeOK, NEW s \in Slot, h[s] # Idle,
           NEW todo \in SUBSET {"types", "users", "row", "error"},
           h' = [h EXCEPT ![s].todo = todo],
           UNCHANGED <<phase, tries, crashes>>
    PROVE  HandlerTypeOK'
<1>1. h[s] \in Running
  BY BusySlot
<1>2. [h[s] EXCEPT !.todo = todo] \in Running
  BY <1>1 DEF Running
<1>3. h' = [h EXCEPT ![s] = [h[s] EXCEPT !.todo = todo]]
  OBVIOUS
<1> QED
  BY <1>2, <1>3, MoveType

LEMMA AtTodoType ==
    ASSUME HandlerTypeOK, NEW s \in Slot, h[s] # Idle, NEW at \in Step,
           NEW todo \in SUBSET {"types", "users", "row", "error"},
           h' = [h EXCEPT ![s].at = at, ![s].todo = todo],
           UNCHANGED <<phase, tries, crashes>>
    PROVE  HandlerTypeOK'
<1>1. h[s] \in Running
  BY BusySlot
<1>2. [h[s] EXCEPT !.at = at, !.todo = todo] \in Running
  BY <1>1 DEF Running
<1>3. h' = [h EXCEPT ![s] = [h[s] EXCEPT !.at = at, !.todo = todo]]
  BY <1>1 DEF HandlerTypeOK
<1> QED
  BY <1>2, <1>3, MoveType

(* A new handler in a free slot. *)
LEMMA BeginType ==
    ASSUME HandlerTypeOK, NEW s \in Slot, NEW op \in Op, NEW o \in Order,
           NEW at \in Step, NEW todo \in SUBSET {"types", "users", "row", "error"},
           Begin(s, op, o, at, todo)
    PROVE  h' \in [Slot -> Running \cup {Idle}]
<1>1. [op |-> op, order |-> o, at |-> at, todo |-> todo] \in Running
  BY DEF Running
<1> QED
  BY <1>1 DEF Begin, HandlerTypeOK

(* Variables a step leaves alone keep their types. *)
LEMMA Kept ==
    ASSUME TypeOK
    PROVE  /\ UNCHANGED storeVars => StoreTypeOK'
           /\ UNCHANGED rowVars => RowTypeOK'
           /\ UNCHANGED counterVars => CounterTypeOK'
           /\ UNCHANGED jobVars => JobTypeOK'
           /\ UNCHANGED localVars => LocalTypeOK'
           /\ UNCHANGED <<phase, h, budget>> => HandlerTypeOK'
<1>1. UNCHANGED storeVars => StoreTypeOK'
  BY DEF TypeOK, StoreTypeOK, storeVars
<1>2. UNCHANGED rowVars => RowTypeOK'
  BY DEF TypeOK, RowTypeOK, rowVars
<1>3. UNCHANGED counterVars => CounterTypeOK'
  BY DEF TypeOK, CounterTypeOK, counterVars
<1>4. UNCHANGED jobVars => JobTypeOK'
  BY DEF TypeOK, JobTypeOK, jobVars
<1>5. UNCHANGED localVars => LocalTypeOK'
  BY DEF TypeOK, LocalTypeOK, localVars
<1>6. UNCHANGED <<phase, h, budget>> => HandlerTypeOK'
  BY DEF TypeOK, HandlerTypeOK, budget
<1> QED
  BY <1>1, <1>2, <1>3, <1>4, <1>5, <1>6

-----------------------------------------------------------------------------
(* Creation keeps the types *)

LEMMA StartCreateType ==
    ASSUME TypeOK, NEW s \in Slot, NEW o \in Order, StartCreate(s, o)
    PROVE  TypeOK'
<1>1. h' \in [Slot -> Running \cup {Idle}]
  BY BeginType DEF StartCreate, TypeOK, Op, Step
<1>2. HandlerTypeOK'
  BY <1>1 DEF StartCreate, TypeOK, HandlerTypeOK, budget
<1> QED
  BY <1>2, Kept DEF StartCreate, TypeOK

LEMMA ReadSeedsType ==
    ASSUME TypeOK, NEW s \in Slot, ReadSeeds(s)
    PROVE  TypeOK'
<1>1. h[s] # Idle
  BY DEF ReadSeeds, At
<1>2. h[s].order \in Order /\ Owner[h[s].order] \in User
  BY <1>1, BusySlot DEF TypeOK
<1>3. ASSUME NEW t \in TicketType
      PROVE  /\ Available(t) \in Nat
             /\ userPaid[Owner[h[s].order]][t] + userReserved[Owner[h[s].order]][t] \in Int
  <2>1. /\ Total[t] \in Nat /\ sold[t] \in Nat /\ reserved[t] \in Int
        /\ userPaid[Owner[h[s].order]][t] \in Nat
        /\ userReserved[Owner[h[s].order]][t] \in Int
    BY <1>2, LifecycleAssumption DEF LifecycleAssumption, TypeOK, CounterTypeOK
  <2> QED
    BY <2>1 DEF Available
<1>4. seen' \in [Order -> [TicketType -> [avail : Nat, count : Int]]]
  BY <1>2, <1>3 DEF ReadSeeds, TypeOK, LocalTypeOK
<1>5. HandlerTypeOK'
  BY <1>1, GoType DEF ReadSeeds, TypeOK, budget, Step
<1> QED
  BY <1>4, <1>5, Kept DEF ReadSeeds, TypeOK, LocalTypeOK

LEMMA SeedKeysType ==
    ASSUME TypeOK, NEW s \in Slot, SeedKeys(s)
    PROVE  TypeOK'
<1>1. h[s] # Idle
  BY DEF SeedKeys, At
<1>2. h[s].order \in Order /\ Owner[h[s].order] \in User
  BY <1>1, BusySlot DEF TypeOK
<1> DEFINE o == h[s].order
           n == [t \in TicketType |-> seen[o][t].avail]
           m == [t \in TicketType |-> seen[o][t].count]
<1>3. n \in [TicketType -> Nat] /\ m \in [TicketType -> Int]
  BY <1>2 DEF TypeOK, LocalTypeOK
<1>4. Cart(o) \in SUBSET TicketType
  BY DEF Cart
<1>5. Seed(Owner[o], Cart(o), n, m)
  BY DEF SeedKeys
<1>6. StoreTypeOK'
  <2> HIDE DEF o, n, m
  <2> QED
    BY <1>2, <1>3, <1>4, <1>5, SeedType DEF TypeOK, o
<1>7. seen' \in [Order -> [TicketType -> [avail : Nat, count : Int]]]
  <2>1. Unseen \in [TicketType -> [avail : Nat, count : Int]]
    BY DEF Unseen
  <2> QED
    BY <2>1 DEF SeedKeys, TypeOK, LocalTypeOK
<1>8. HandlerTypeOK'
  BY <1>1, GoType DEF SeedKeys, TypeOK, budget, Step
<1> QED
  BY <1>6, <1>7, <1>8, Kept DEF SeedKeys, TypeOK, LocalTypeOK

LEMMA ReserveItemType ==
    ASSUME TypeOK, NEW s \in Slot, NEW t \in TicketType, ReserveItem(s, t)
    PROVE  TypeOK'
<1>1. h[s].order \in Order
  BY BusySlot DEF ReserveItem, At, TypeOK
<1>2. t \in Cart(h[s].order)
  BY DEF ReserveItem, Unanswered
<1>3. HoldOf(h[s].order, t) \in Hold
  BY <1>1, <1>2, HoldOfType
<1>4. ASSUME Reserve(HoldOf(h[s].order, t)) PROVE StoreTypeOK'
  BY <1>3, <1>4, ReserveType, StoreAssumption DEF TypeOK
<1>5. ASSUME Refuse(HoldOf(h[s].order, t)) PROVE StoreTypeOK'
  BY <1>5, Kept DEF Refuse
<1>6. StoreTypeOK'
  <2>1. Reserve(HoldOf(h[s].order, t)) \/ Refuse(HoldOf(h[s].order, t))
    BY DEF ReserveItem
  <2> QED
    BY <1>4, <1>5, <2>1
<1>7. reply' \in [Order -> [TicketType -> {"none", "ok", "no", "back"}]]
  <2>1. \/ reply' = [reply EXCEPT ![h[s].order][t] = "ok"]
        \/ reply' = [reply EXCEPT ![h[s].order][t] = "no"]
    BY DEF ReserveItem
  <2>2. reply \in [Order -> [TicketType -> {"none", "ok", "no", "back"}]]
    BY DEF TypeOK, LocalTypeOK
  <2>3. CASE reply' = [reply EXCEPT ![h[s].order][t] = "ok"]
    BY <1>1, <2>2, <2>3
  <2>4. CASE reply' = [reply EXCEPT ![h[s].order][t] = "no"]
    BY <1>1, <2>2, <2>4
  <2> QED
    BY <2>1, <2>3, <2>4
<1> QED
  BY <1>6, <1>7, Kept DEF ReserveItem, TypeOK, LocalTypeOK

LEMMA JudgeRepliesType ==
    ASSUME TypeOK, NEW s \in Slot, JudgeReplies(s)
    PROVE  TypeOK'
<1>1. h[s] # Idle
  BY DEF JudgeReplies, At
<1>2. reply' \in [Order -> [TicketType -> {"none", "ok", "no", "back"}]]
  <2>1. NoReply \in [TicketType -> {"none", "ok", "no", "back"}]
    BY DEF NoReply
  <2> QED
    BY <2>1 DEF JudgeReplies, TypeOK, LocalTypeOK
<1>3. HandlerTypeOK'
  <2>1. Go(s, "persist") \/ Go(s, "rollback")
    BY DEF JudgeReplies
  <2> QED
    BY <1>1, <2>1, GoType DEF JudgeReplies, TypeOK, budget, Step
<1> QED
  BY <1>2, <1>3, Kept DEF JudgeReplies, TypeOK, LocalTypeOK

LEMMA RollBackItemType ==
    ASSUME TypeOK, NEW s \in Slot, RollBackItem(s)
    PROVE  TypeOK'
<1>1. h[s] # Idle /\ h[s].order \in Order
  BY BusySlot DEF RollBackItem, At, TypeOK
<1>2. CASE ToRollBack(h[s].order) = {} /\ End(s) /\ UNCHANGED storeVars
             /\ reply' = [reply EXCEPT ![h[s].order] = NoReply]
  <2>1. NoReply \in [TicketType -> {"none", "ok", "no", "back"}]
    BY DEF NoReply
  <2>2. HandlerTypeOK'
    BY <1>2, EndType DEF RollBackItem, TypeOK, budget
  <2>3. StoreTypeOK'
    BY <1>2, Kept
  <2>4. LocalTypeOK'
    BY <1>2, <2>1 DEF RollBackItem, TypeOK, LocalTypeOK
  <2> QED
    BY <2>2, <2>3, <2>4, Kept DEF RollBackItem, TypeOK
<1>3. ASSUME NEW t \in ToRollBack(h[s].order),
             Release(HoldOf(h[s].order, t)) \/ ReleaseNothing(HoldOf(h[s].order, t)),
             reply' = [reply EXCEPT ![h[s].order][t] = "back"],
             UNCHANGED h
      PROVE  TypeOK'
  <2>1. StoreTypeOK'
    <3>1. ASSUME Release(HoldOf(h[s].order, t)) PROVE StoreTypeOK'
      BY <3>1, ReleaseType, StoreAssumption DEF TypeOK
    <3>2. ASSUME ReleaseNothing(HoldOf(h[s].order, t)) PROVE StoreTypeOK'
      BY <3>2, Kept DEF ReleaseNothing
    <3> QED
      BY <1>3, <3>1, <3>2
  <2>2. LocalTypeOK'
    BY <1>3 DEF RollBackItem, TypeOK, LocalTypeOK
  <2>3. HandlerTypeOK'
    BY <1>3, Kept DEF RollBackItem
  <2> QED
    BY <2>1, <2>2, <2>3, Kept DEF RollBackItem, TypeOK
<1> QED
  BY <1>2, <1>3 DEF RollBackItem

LEMMA PersistOrderType ==
    ASSUME TypeOK, NEW s \in Slot, PersistOrder(s)
    PROVE  TypeOK'
<1>1. h[s] # Idle
  BY DEF PersistOrder, At
<1>2. RowTypeOK'
  BY DEF PersistOrder, TypeOK, RowTypeOK, Status
<1>3. HandlerTypeOK'
  <2>1. UNCHANGED <<phase, tries, crashes>>
    BY DEF PersistOrder, budget
  <2>2. \/ Go(s, "count")
        \/ h' = [h EXCEPT ![s].op = "undoPersist", ![s].at = "release"]
    BY DEF PersistOrder
  <2> QED
    BY <1>1, <2>1, <2>2, GoType, UndoType DEF TypeOK, Op, Step
<1> QED
  BY <1>2, <1>3, Kept DEF PersistOrder, TypeOK

LEMMA CountReservedType ==
    ASSUME TypeOK, NEW s \in Slot, CountReserved(s)
    PROVE  TypeOK'
<1>1. h[s] # Idle /\ h[s].order \in Order /\ Owner[h[s].order] \in User
  BY BusySlot DEF CountReserved, At, TypeOK
<1>2. RowsOf(h[s].order) \subseteq User \X TicketType
  BY <1>1, RowsOfType
<1>3. ASSUME NEW f \in [TicketType -> Int]
      PROVE  Plus(f, 1, h[s].order) \in [TicketType -> Int]
  BY <1>1, ItemsNat DEF Plus
<1>4. reserved' \in [TicketType -> Int]
  <2>1. reserved' = Plus(reserved, 1, h[s].order) \/ reserved' = reserved
    BY DEF CountReserved
  <2> QED
    BY <1>3, <2>1 DEF TypeOK, CounterTypeOK
<1>5. userReserved' \in [User -> [TicketType -> Int]]
  <2>1. \/ userReserved' = [userReserved EXCEPT ![Owner[h[s].order]] =
                              Plus(userReserved[Owner[h[s].order]], 1, h[s].order)]
        \/ userReserved' = userReserved
    BY DEF CountReserved
  <2>2. Plus(userReserved[Owner[h[s].order]], 1, h[s].order) \in [TicketType -> Int]
    BY <1>1, <1>3 DEF TypeOK, CounterTypeOK
  <2> QED
    BY <2>1, <2>2 DEF TypeOK, CounterTypeOK
<1>6. CounterTypeOK'
  BY <1>2, <1>4, <1>5 DEF CountReserved, TypeOK, CounterTypeOK
<1>7. HandlerTypeOK'
  <2>1. UNCHANGED <<phase, tries, crashes>>
    BY DEF CountReserved, budget
  <2>2. \/ Go(s, "openUrl")
        \/ h' = [h EXCEPT ![s].op = "undoCount", ![s].at = "release"]
    BY DEF CountReserved
  <2> QED
    BY <1>1, <2>1, <2>2, GoType, UndoType DEF TypeOK, Op, Step
<1> QED
  BY <1>6, <1>7, Kept DEF CountReserved, TypeOK

LEMMA OpenUrlType ==
    ASSUME TypeOK, NEW s \in Slot, OpenUrl(s)
    PROVE  TypeOK'
<1>1. h[s] # Idle
  BY DEF OpenUrl, At
<1>2. HandlerTypeOK'
  <2>1. UNCHANGED <<phase, tries, crashes>>
    BY DEF OpenUrl, budget
  <2>2. \/ h' = [h EXCEPT ![s].at = "gateway", ![s].todo = UrlRow(h[s].order)]
        \/ h' = [h EXCEPT ![s].op = "undoGateway", ![s].at = "release"]
    BY DEF OpenUrl
  <2>3. UrlRow(h[s].order) \in SUBSET {"types", "users", "row", "error"}
    BY DEF UrlRow
  <2> QED
    BY <1>1, <2>1, <2>2, <2>3, AtTodoType, UndoType, ZenonT(30) DEF TypeOK, Op, Step
<1> QED
  BY <1>2, Kept DEF OpenUrl, TypeOK

LEMMA CallGatewayType ==
    ASSUME TypeOK, NEW s \in Slot, CallGateway(s)
    PROVE  TypeOK'
<1>1. h[s] # Idle
  BY DEF CallGateway, At
<1>2. payments' \in [Order -> SUBSET Payment]
  BY DEF CallGateway, TypeOK, RowTypeOK, Payment
<1>3. RowTypeOK'
  BY <1>2 DEF CallGateway, TypeOK, RowTypeOK
<1>4. HandlerTypeOK'
  <2>1. UNCHANGED <<phase, tries, crashes>>
    BY DEF CallGateway, budget
  <2>2. \/ Go(s, "schedule") \/ End(s)
        \/ h' = [h EXCEPT ![s].op = "undoGateway", ![s].at = "release"]
    BY DEF CallGateway
  <2> QED
    BY <1>1, <2>1, <2>2, GoType, EndType, UndoType DEF TypeOK, Op, Step
<1> QED
  BY <1>3, <1>4, Kept DEF CallGateway, TypeOK

LEMMA ScheduleExpireType ==
    ASSUME TypeOK, NEW s \in Slot, ScheduleExpire(s)
    PROVE  TypeOK'
<1>1. HandlerTypeOK'
  BY EndType DEF ScheduleExpire, TypeOK, budget
<1>2. JobTypeOK'
  BY DEF ScheduleExpire, TypeOK, JobTypeOK
<1> QED
  BY <1>1, <1>2, Kept DEF ScheduleExpire, TypeOK

LEMMA DeleteOrderType ==
    ASSUME TypeOK, NEW s \in Slot, DeleteOrder(s)
    PROVE  TypeOK'
<1>1. HandlerTypeOK'
  BY EndType DEF DeleteOrder, TypeOK, budget
<1>2. RowTypeOK'
  BY DEF DeleteOrder, TypeOK, RowTypeOK, Status
<1> QED
  BY <1>1, <1>2, Kept DEF DeleteOrder, TypeOK

-----------------------------------------------------------------------------
(* The beginnings of handlers keep the types *)

LEMMA TryType ==
    ASSUME HandlerTypeOK, NEW o \in Order, Try(o)
    PROVE  tries' \in [Order -> Nat]
BY DEF HandlerTypeOK, Try

LEMMA StartRepayType ==
    ASSUME TypeOK, NEW s \in Slot, NEW o \in Order, StartRepay(s, o)
    PROVE  TypeOK'
<1>1. UrlRow(o) \in SUBSET {"types", "users", "row", "error"}
  BY DEF UrlRow
<1>2. h' \in [Slot -> Running \cup {Idle}]
  <2>1. "repay" \in Op /\ "gateway" \in Step
    BY DEF Op, AllCalls, Step
  <2>2. Begin(s, "repay", o, "gateway", UrlRow(o)) /\ HandlerTypeOK
    BY DEF StartRepay, TypeOK
  <2> QED
    BY <1>1, <2>1, <2>2, BeginType
<1>3. HandlerTypeOK'
  BY <1>2, TryType DEF StartRepay, TypeOK, HandlerTypeOK
<1> QED
  BY <1>3, Kept DEF StartRepay, TypeOK

LEMMA StartCancelType ==
    ASSUME TypeOK, NEW s \in Slot, NEW o \in Order, StartCancel(s, o)
    PROVE  TypeOK'
<1>1. h' \in [Slot -> Running \cup {Idle}]
  BY BeginType DEF StartCancel, TypeOK, Op, AllCalls, Step
<1>2. HandlerTypeOK'
  BY <1>1, TryType DEF StartCancel, TypeOK, HandlerTypeOK
<1> QED
  BY <1>2, Kept DEF StartCancel, TypeOK

LEMMA StartWebhookType ==
    ASSUME TypeOK, NEW s \in Slot, NEW o \in Order, NEW result,
           StartWebhook(s, o, result)
    PROVE  TypeOK'
<1>1. result \in Op
  BY DEF StartWebhook, Op, AllCalls
<1>2. (IF result = "success" THEN "commit" ELSE "recheck") \in Step
  BY DEF Step
<1>3. h' \in [Slot -> Running \cup {Idle}]
  BY <1>1, <1>2, BeginType DEF StartWebhook, TypeOK
<1>4. HandlerTypeOK'
  BY <1>3, TryType DEF StartWebhook, TypeOK, HandlerTypeOK
<1> QED
  BY <1>4, Kept DEF StartWebhook, TypeOK

LEMMA StartCronType ==
    ASSUME TypeOK, NEW s \in Slot, NEW o \in Order, NEW verdict,
           StartCron(s, o, verdict)
    PROVE  TypeOK'
<1>1. verdict \in Op
  BY DEF StartCron, Op, AllCalls
<1>2. h' \in [Slot -> Running \cup {Idle}]
  BY <1>1, BeginType DEF StartCron, TypeOK, Step
<1>3. HandlerTypeOK'
  BY <1>2 DEF StartCron, TypeOK, HandlerTypeOK, budget
<1> QED
  BY <1>3, Kept DEF StartCron, TypeOK

LEMMA StartExpireType ==
    ASSUME TypeOK, NEW s \in Slot, NEW o \in Order, StartExpire(s, o)
    PROVE  TypeOK'
<1>1. JobTypeOK'
  BY DEF StartExpire, TypeOK, JobTypeOK
<1>2. h' \in [Slot -> Running \cup {Idle}]
  <2>1. CASE Begin(s, "expire", o, "release", {"types", "users"})
    BY <2>1, BeginType DEF TypeOK, Op, Step
  <2>2. CASE UNCHANGED h
    BY <2>2 DEF TypeOK, HandlerTypeOK
  <2> QED
    BY <2>1, <2>2 DEF StartExpire
<1>3. HandlerTypeOK'
  BY <1>2 DEF StartExpire, TypeOK, HandlerTypeOK, budget
<1> QED
  BY <1>1, <1>3, Kept DEF StartExpire, TypeOK

LEMMA StartIssueType ==
    ASSUME TypeOK, NEW s \in Slot, NEW o \in Order, StartIssue(s, o)
    PROVE  TypeOK'
<1>1. JobTypeOK'
  BY DEF StartIssue, TypeOK, JobTypeOK
<1>2. h' \in [Slot -> Running \cup {Idle}]
  <2>1. CASE Begin(s, "issue", o, "tally", {})
    BY <2>1, BeginType DEF TypeOK, Op, Step
  <2>2. CASE UNCHANGED h
    BY <2>2 DEF TypeOK, HandlerTypeOK
  <2> QED
    BY <2>1, <2>2 DEF StartIssue
<1>3. HandlerTypeOK'
  BY <1>2 DEF StartIssue, TypeOK, HandlerTypeOK, budget
<1> QED
  BY <1>1, <1>3, Kept DEF StartIssue, TypeOK

-----------------------------------------------------------------------------
(* The steps that settle an order keep the types *)

(* Leaving out a user's items, in the rows there are, keeps the type. *)
LEMMA UserDroppedType ==
    ASSUME CounterTypeOK, NEW o \in Order
    PROVE  UserDropped(o) \in [User -> [TicketType -> Int]]
<1>1. Owner[o] \in User
  BY LifecycleAssumption DEF LifecycleAssumption
<1>2. ASSUME NEW t \in TicketType
      PROVE  /\ userReserved[Owner[o]][t] \in Int
             /\ userReserved[Owner[o]][t] - Items[o][t] \in Int
  BY <1>1, ItemsNat DEF CounterTypeOK
<1> QED
  BY <1>1, <1>2 DEF UserDropped, CounterTypeOK

LEMMA ReleaseHoldType ==
    ASSUME TypeOK, NEW s \in Slot, ReleaseHold(s)
    PROVE  TypeOK'
<1>1. h[s] # Idle
  BY DEF ReleaseHold
<1>2. StoreTypeOK'
  BY <1>1, BusySlot, ReleaseAllType DEF ReleaseHold, TypeOK
<1>3. HandlerTypeOK'
  <2>1. UNCHANGED <<phase, tries, crashes>>
    BY DEF ReleaseHold, budget
  <2>2. CASE End(s)
    BY <2>1, <2>2, EndType DEF TypeOK
  <2>3. CASE ~ End(s)
    <3> DEFINE next == AfterRelease[h[s].op]
               todo == IF next = "counters" THEN {"types", "users"} ELSE {}
    <3>1. next \in {"counters", "delete", "end"}
      <4>1. h[s].op \in Op
        BY <1>1, BusySlot DEF TypeOK
      <4> QED
        BY <4>1 DEF AfterRelease
    <3>2. next # "end" /\ h' = [h EXCEPT ![s].at = next, ![s].todo = todo]
      BY <2>3 DEF ReleaseHold
    <3>3. next \in Step
      BY <3>1, <3>2 DEF Step
    <3>4. todo \in SUBSET {"types", "users", "row", "error"}
      OBVIOUS
    <3> HIDE DEF next, todo
    <3> QED
      BY <1>1, <2>1, <3>2, <3>3, <3>4, AtTodoType DEF TypeOK
  <2> QED
    BY <2>2, <2>3
<1> QED
  BY <1>2, <1>3, Kept DEF ReleaseHold, TypeOK

LEMMA DropUserCountersType ==
    ASSUME TypeOK, NEW s \in Slot, DropUserCounters(s)
    PROVE  TypeOK'
<1>1. h[s] # Idle /\ h[s].order \in Order /\ h[s] \in Running
  BY BusySlot DEF DropUserCounters, TypeOK
<1>2. CounterTypeOK'
  BY <1>1, UserDroppedType DEF DropUserCounters, TypeOK, CounterTypeOK
<1>3. HandlerTypeOK'
  <2> DEFINE todo == IF RowsOf(h[s].order) \subseteq counterRows
                     THEN h[s].todo \ {"users"}
                     ELSE IF h[s].op = "expire" THEN {"error"}
                     ELSE (h[s].todo \ {"users"}) \cup {"error"}
  <2>1. todo \in SUBSET {"types", "users", "row", "error"}
    BY <1>1 DEF Running
  <2>2. h' = [h EXCEPT ![s].todo = todo] /\ UNCHANGED <<phase, tries, crashes>>
    BY DEF DropUserCounters, budget
  <2> HIDE DEF todo
  <2> QED
    BY <1>1, <2>1, <2>2, TodoType DEF TypeOK
<1> QED
  BY <1>2, <1>3, Kept DEF DropUserCounters, TypeOK

LEMMA DropTypeCountersType ==
    ASSUME TypeOK, NEW s \in Slot, DropTypeCounters(s)
    PROVE  TypeOK'
<1>1. h[s] # Idle /\ h[s].order \in Order /\ h[s] \in Running
  BY BusySlot DEF DropTypeCounters, TypeOK
<1>2. reserved' \in [TicketType -> Int]
  BY <1>1, ItemsNat DEF DropTypeCounters, Plus, TypeOK, CounterTypeOK
<1>3. CounterTypeOK'
  BY <1>2 DEF DropTypeCounters, TypeOK, CounterTypeOK
<1>4. HandlerTypeOK'
  <2>1. h[s].todo \ {"types"} \in SUBSET {"types", "users", "row", "error"}
    BY <1>1 DEF Running
  <2>2. /\ h' = [h EXCEPT ![s].todo = h[s].todo \ {"types"}]
        /\ UNCHANGED <<phase, tries, crashes>>
    BY DEF DropTypeCounters, budget
  <2> QED
    BY <1>1, <2>1, <2>2, TodoType DEF TypeOK
<1> QED
  BY <1>3, <1>4, Kept DEF DropTypeCounters, TypeOK

LEMMA AbortSettleType ==
    ASSUME TypeOK, NEW s \in Slot, AbortSettle(s)
    PROVE  TypeOK'
<1>1. HandlerTypeOK'
  BY EndType DEF AbortSettle, TypeOK, budget
<1>2. JobTypeOK'
  BY DEF AbortSettle, TypeOK, JobTypeOK
<1> QED
  BY <1>1, <1>2, Kept DEF AbortSettle, TypeOK

LEMMA CloseOrderType ==
    ASSUME TypeOK, NEW s \in Slot, CloseOrder(s)
    PROVE  TypeOK'
<1>1. h[s] # Idle
  BY DEF CloseOrder
<1>2. RowTypeOK'
  BY DEF CloseOrder, TypeOK, RowTypeOK, Status
<1>3. JobTypeOK'
  BY DEF CloseOrder, TypeOK, JobTypeOK
<1>4. HandlerTypeOK'
  <2>1. (End(s) \/ Go(s, "delete")) /\ UNCHANGED <<phase, tries, crashes>>
    BY DEF CloseOrder, budget
  <2> QED
    BY <1>1, <2>1, EndType, GoType DEF TypeOK, Step
<1> QED
  BY <1>2, <1>3, <1>4, Kept DEF CloseOrder, TypeOK

(* Issuing tickets keeps the types of the counters. *)
LEMMA IssueTicketsType ==
    ASSUME CounterTypeOK, NEW o \in Order, IssueTickets(o)
    PROVE  CounterTypeOK'
<1>1. Owner[o] \in User
  BY LifecycleAssumption DEF LifecycleAssumption
<1>2. ASSUME NEW f \in [TicketType -> Nat]
      PROVE  Plus(f, 1, o) \in [TicketType -> Nat]
  BY ItemsNat DEF Plus
<1>3. sold' \in [TicketType -> Nat]
  BY <1>2 DEF IssueTickets, CounterTypeOK
<1>4. reserved' \in [TicketType -> Int]
  BY ItemsNat DEF IssueTickets, CounterTypeOK, Plus
<1>5. userPaid' \in [User -> [TicketType -> Nat]]
  <2>1. Plus(userPaid[Owner[o]], 1, o) \in [TicketType -> Nat]
    BY <1>1, <1>2 DEF CounterTypeOK
  <2> QED
    BY <2>1 DEF IssueTickets, CounterTypeOK
<1>6. userReserved' \in [User -> [TicketType -> Int]]
  BY UserDroppedType DEF IssueTickets
<1>7. counterRows' \subseteq User \X TicketType
  BY RowsOfType DEF IssueTickets, CounterTypeOK
<1>8. issued' \in [Order -> Nat]
  BY DEF IssueTickets, CounterTypeOK
<1> QED
  BY <1>3, <1>4, <1>5, <1>6, <1>7, <1>8 DEF CounterTypeOK

LEMMA CommitSuccessType ==
    ASSUME TypeOK, NEW s \in Slot, CommitSuccess(s)
    PROVE  TypeOK'
<1>1. h[s] # Idle /\ h[s].order \in Order
  BY BusySlot DEF CommitSuccess, At, TypeOK
<1>2. RowTypeOK'
  BY DEF CommitSuccess, TypeOK, RowTypeOK, Status, Payment
<1>3. CounterTypeOK'
  BY <1>1, IssueTicketsType DEF CommitSuccess, TypeOK
<1>4. HandlerTypeOK'
  BY <1>1, GoType DEF CommitSuccess, TypeOK, budget, Step
<1> QED
  BY <1>2, <1>3, <1>4, Kept DEF CommitSuccess, TypeOK

LEMMA ForgetHoldType ==
    ASSUME TypeOK, NEW s \in Slot, ForgetHold(s)
    PROVE  TypeOK'
<1>1. StoreTypeOK'
  BY ForgetType, StoreAssumption DEF ForgetHold, TypeOK
<1>2. HandlerTypeOK'
  BY EndType DEF ForgetHold, TypeOK, budget
<1> QED
  BY <1>1, <1>2, Kept DEF ForgetHold, TypeOK

LEMMA RecordWebhookType ==
    ASSUME TypeOK, NEW o \in Order, NEW result, RecordWebhook(o, result)
    PROVE  TypeOK'
<1>1. PaymentOf[result] \in Payment
  BY DEF RecordWebhook, PaymentOf, Payment
<1>2. RowTypeOK'
  BY <1>1 DEF RecordWebhook, TypeOK, RowTypeOK
<1> QED
  BY <1>2, Kept DEF RecordWebhook, TypeOK

LEMMA RecheckType ==
    ASSUME TypeOK, NEW s \in Slot, Recheck(s)
    PROVE  TypeOK'
<1>1. h[s] # Idle
  BY DEF Recheck
<1>2. Go(s, "commit") \/ Go(s, "enqueue") \/ Go(s, "release")
  BY DEF Recheck
<1>3. HandlerTypeOK'
  BY <1>1, <1>2, GoType DEF Recheck, TypeOK, budget, Step
<1> QED
  BY <1>3, Kept DEF Recheck, TypeOK

LEMMA PlusIfEnoughType ==
    ASSUME NEW f \in [TicketType -> Int], NEW o \in Order
    PROVE  PlusIfEnough(f, o) \in [TicketType -> Int]
BY ItemsNat DEF PlusIfEnough

LEMMA CommitVerdictType ==
    ASSUME TypeOK, NEW s \in Slot, CommitVerdict(s)
    PROVE  TypeOK'
<1> DEFINE o == h[s].order
           op == h[s].op
<1>1. h[s] # Idle /\ o \in Order /\ Owner[o] \in User
  BY BusySlot DEF CommitVerdict, TypeOK
<1>2. op \in {"failed", "cronFailed", "cronExpired", "cronPaid"}
  BY DEF CommitVerdict, StatusOf
<1>3. RowTypeOK'
  <2>1. StatusOf[op] \in Status
    BY <1>2 DEF StatusOf, Status
  <2>2. PaymentsAfter(op, payments[o]) \in SUBSET Payment
    <3>1. payments[o] \in SUBSET Payment
      BY <1>1 DEF TypeOK, RowTypeOK
    <3> HIDE DEF o, op
    <3> QED
      BY <1>2, <3>1 DEF PaymentsAfter, Payment
  <2>3. /\ status' = [status EXCEPT ![o] = StatusOf[op]]
        /\ payments' = [payments EXCEPT ![o] = PaymentsAfter(op, payments[o])]
    BY DEF CommitVerdict
  <2> HIDE DEF o, op
  <2> QED
    BY <2>1, <2>2, <2>3 DEF TypeOK, RowTypeOK
<1>4. CounterTypeOK'
  <2>1. CASE UNCHANGED <<reserved, userReserved>>
    BY <2>1 DEF CommitVerdict, TypeOK, CounterTypeOK
  <2>2. CASE /\ reserved' = PlusIfEnough(reserved, o)
             /\ userReserved' = [userReserved EXCEPT
                                   ![Owner[o]] = PlusIfEnough(@, o)]
    <3>1. reserved' \in [TicketType -> Int]
      BY <1>1, <2>2, PlusIfEnoughType DEF TypeOK, CounterTypeOK
    <3>2. PlusIfEnough(userReserved[Owner[o]], o) \in [TicketType -> Int]
      BY <1>1, PlusIfEnoughType DEF TypeOK, CounterTypeOK
    <3>3. userReserved' \in [User -> [TicketType -> Int]]
      BY <2>2, <3>2 DEF TypeOK, CounterTypeOK
    <3> QED
      BY <3>1, <3>3 DEF CommitVerdict, TypeOK, CounterTypeOK
  <2> QED
    BY <2>1, <2>2 DEF CommitVerdict
<1>5. HandlerTypeOK'
  <2>1. Go(s, "enqueue") \/ Go(s, "release")
    BY DEF CommitVerdict
  <2> QED
    BY <1>1, <2>1, GoType DEF CommitVerdict, TypeOK, budget, Step
<1> QED
  BY <1>3, <1>4, <1>5, Kept DEF CommitVerdict, TypeOK

LEMMA EnqueueIssueType ==
    ASSUME TypeOK, NEW s \in Slot, EnqueueIssue(s)
    PROVE  TypeOK'
<1>1. JobTypeOK'
  <2>1. issueJobs' = [issueJobs EXCEPT ![h[s].order] = issueJobs[h[s].order] + 1]
    BY DEF EnqueueIssue
  <2>2. h[s].order \in Order /\ issueJobs \in [Order -> Nat]
    BY BusySlot DEF EnqueueIssue, At, TypeOK, JobTypeOK
  <2> QED
    BY <2>1, <2>2 DEF EnqueueIssue, TypeOK, JobTypeOK
<1>2. HandlerTypeOK'
  BY EndType DEF EnqueueIssue, TypeOK, budget
<1> QED
  BY <1>1, <1>2, Kept DEF EnqueueIssue, TypeOK

LEMMA IssueJobType ==
    ASSUME TypeOK, NEW s \in Slot,
           TallyTickets(s) \/ CommitIssue(s) \/ AckIssue(s)
    PROVE  TypeOK'
<1>1. h[s] # Idle /\ h[s].order \in Order
  BY BusySlot DEF TallyTickets, CommitIssue, AckIssue, At, TypeOK
<1>2. HandlerTypeOK'
  <2>1. Go(s, "commit") \/ Go(s, "ack") \/ End(s)
    BY DEF TallyTickets, CommitIssue, AckIssue
  <2>2. UNCHANGED <<phase, tries, crashes>>
    BY DEF TallyTickets, CommitIssue, AckIssue, budget
  <2> QED
    BY <1>1, <2>1, <2>2, GoType, EndType DEF TypeOK, Step
<1>3. CounterTypeOK'
  <2>1. ASSUME CommitIssue(s) PROVE CounterTypeOK'
    BY <1>1, <2>1, IssueTicketsType DEF CommitIssue, TypeOK
  <2>2. ASSUME UNCHANGED counterVars PROVE CounterTypeOK'
    BY <2>2, Kept
  <2> QED
    BY <2>1, <2>2 DEF TallyTickets, AckIssue
<1> QED
  BY <1>2, <1>3, Kept DEF TallyTickets, CommitIssue, AckIssue, TypeOK

LEMMA ElapseType ==
    ASSUME TypeOK, NEW o \in Order, Elapse(o)
    PROVE  TypeOK'
<1>1. HandlerTypeOK'
  BY DEF Elapse, ExpiresAtPasses, HoldLapses, TypeOK, HandlerTypeOK, budget
<1>2. StoreTypeOK'
  <2>1. ASSUME Forget(o) PROVE StoreTypeOK'
    BY <2>1, ForgetType, StoreAssumption DEF TypeOK
  <2>2. ASSUME UNCHANGED storeVars PROVE StoreTypeOK'
    BY <2>2, Kept
  <2> QED
    BY <2>1, <2>2 DEF Elapse, ExpiresAtPasses, HoldLapses
<1> QED
  BY <1>1, <1>2, Kept DEF Elapse, ExpiresAtPasses, HoldLapses, TypeOK

LEMMA CrashType ==
    ASSUME TypeOK, NEW s \in Slot, Crash(s)
    PROVE  TypeOK'
<1>1. h[s].order \in Order
  BY BusySlot DEF Crash, TypeOK
<1>2. JobTypeOK'
  BY <1>1 DEF Crash, TypeOK, JobTypeOK
<1>3. LocalTypeOK'
  <2>1. Unseen \in [TicketType -> [avail : Nat, count : Int]]
    BY DEF Unseen
  <2>2. NoReply \in [TicketType -> {"none", "ok", "no", "back"}]
    BY DEF NoReply
  <2>3. seen' \in [Order -> [TicketType -> [avail : Nat, count : Int]]]
    BY <2>1 DEF Crash, TypeOK, LocalTypeOK
  <2>4. reply' \in [Order -> [TicketType -> {"none", "ok", "no", "back"}]]
    BY <2>2 DEF Crash, TypeOK, LocalTypeOK
  <2> QED
    BY <2>3, <2>4 DEF LocalTypeOK
<1>4. HandlerTypeOK'
  <2>1. h' \in [Slot -> Running \cup {Idle}]
    BY DEF Crash, End, TypeOK, HandlerTypeOK
  <2> QED
    BY <2>1 DEF Crash, TypeOK, HandlerTypeOK
<1> QED
  BY <1>2, <1>3, <1>4, Kept DEF Crash, TypeOK

-----------------------------------------------------------------------------
(* Every initial state has the types. *)
LEMMA InitType == Init => TypeOK
<1> SUFFICES ASSUME Init PROVE TypeOK
  OBVIOUS
<1>1. StoreTypeOK
  <2>1. stock \in [TicketType -> Nat]
    BY LifecycleAssumption DEF Init, LifecycleAssumption
  <2>2. /\ userLimit \in [User -> [TicketType -> Nat]]
        /\ userLimit \in [User -> [TicketType -> Int]]
    BY DEF Init
  <2> QED
    BY <2>1, <2>2 DEF Init, StoreTypeOK
<1>2. RowTypeOK
  BY DEF Init, RowTypeOK, Status
<1>3. CounterTypeOK
  <2>1. sold \in [TicketType -> Nat] /\ reserved \in [TicketType -> Int]
    BY DEF Init
  <2>2. userPaid \in [User -> [TicketType -> Nat]]
    BY DEF Init
  <2>3. userReserved \in [User -> [TicketType -> Int]]
    BY DEF Init
  <2> QED
    BY <2>1, <2>2, <2>3 DEF Init, CounterTypeOK
<1>4. JobTypeOK
  BY DEF Init, JobTypeOK
<1>5. LocalTypeOK
  BY DEF Init, LocalTypeOK, Unseen, NoReply
<1>6. HandlerTypeOK
  BY DEF Init, HandlerTypeOK
<1> QED
  BY <1>1, <1>2, <1>3, <1>4, <1>5, <1>6 DEF TypeOK

(***************************************************************************)
(* Next action by action, for the proofs of its invariants.                *)
(***************************************************************************)
LEMMA TypeStep ==
    ASSUME TypeOK, [Next]_vars
    PROVE  TypeOK'
<1>1. ASSUME NEW s \in Slot, Create(s) PROVE TypeOK'
  BY <1>1, ReadSeedsType, SeedKeysType, JudgeRepliesType, RollBackItemType,
     ReserveItemType, PersistOrderType, CountReservedType, OpenUrlType,
     CallGatewayType, ScheduleExpireType, DeleteOrderType DEF Create
<1>2. ASSUME NEW s \in Slot, Settle(s) PROVE TypeOK'
  BY <1>2, ReleaseHoldType, DropUserCountersType, DropTypeCountersType,
     AbortSettleType, CloseOrderType, CommitSuccessType, ForgetHoldType,
     RecheckType, CommitVerdictType, EnqueueIssueType, IssueJobType DEF Settle
<1>3. ASSUME NEW s \in Slot, Crash(s) PROVE TypeOK'
  BY <1>3, CrashType
<1>4. ASSUME NEW s \in Slot, NEW o \in Order, Start(s, o) PROVE TypeOK'
  BY <1>4, StartCreateType, StartRepayType, StartCancelType, StartExpireType,
     StartCronType, StartIssueType, StartWebhookType DEF Start, Cron
<1>5. ASSUME NEW o \in Order, Elapse(o) PROVE TypeOK'
  BY <1>5, ElapseType
<1>6. ASSUME NEW o \in Order, NEW result \in DOMAIN PaymentOf,
             RecordWebhook(o, result)
      PROVE  TypeOK'
  BY <1>6, RecordWebhookType
<1>7. CASE UNCHANGED vars
  BY <1>7, Kept DEF vars, TypeOK, rowVars, counterVars, jobVars, localVars,
     storeVars, budget
<1> QED
  BY <1>1, <1>2, <1>3, <1>4, <1>5, <1>6, <1>7 DEF Next, Continue

(***************************************************************************)
(* Type correctness of the lifecycle, whatever the handlers do: stock and  *)
(* soldQty never go below zero (reservedQty may).                          *)
(***************************************************************************)
THEOREM TypeCorrect == Spec => []TypeOK
<1>1. Init => TypeOK
  BY InitType
<1>2. TypeOK /\ [Next]_vars => TypeOK'
  BY TypeStep
<1> QED
  BY <1>1, <1>2, PTL DEF Spec

-----------------------------------------------------------------------------
(* PostgreSQL's counters *)

(* What a step may do to the counters of a ticket type. *)
LEMMA CounterStep ==
    ASSUME TypeOK, [Next]_vars
    PROVE  \/ UNCHANGED <<sold, reserved>>
           \/ \E o \in Order : Fits(o) /\ sold' = sold /\ reserved' = Plus(reserved, 1, o)
           \/ \E o \in Order : sold' = sold /\ reserved' = Plus(reserved, -1, o)
           \/ \E o \in Order : sold' = sold /\ reserved' = PlusIfEnough(reserved, o)
           \/ \E o \in Order : sold' = Plus(sold, 1, o) /\ reserved' = Plus(reserved, -1, o)
<1>1. ASSUME NEW s \in Slot, CountReserved(s)
      PROVE  \/ UNCHANGED <<sold, reserved>>
             \/ \E o \in Order : Fits(o) /\ sold' = sold /\ reserved' = Plus(reserved, 1, o)
  BY <1>1, BusySlot DEF CountReserved, At, TypeOK
<1>2. ASSUME NEW s \in Slot, DropTypeCounters(s)
      PROVE  \E o \in Order : sold' = sold /\ reserved' = Plus(reserved, -1, o)
  BY <1>2, BusySlot DEF DropTypeCounters, TypeOK
<1>3. ASSUME NEW s \in Slot, CommitVerdict(s)
      PROVE  \/ UNCHANGED <<sold, reserved>>
             \/ \E o \in Order : sold' = sold /\ reserved' = PlusIfEnough(reserved, o)
  BY <1>3, BusySlot DEF CommitVerdict, TypeOK
<1>4. ASSUME NEW s \in Slot, CommitSuccess(s) \/ CommitIssue(s)
      PROVE  \E o \in Order : sold' = Plus(sold, 1, o) /\ reserved' = Plus(reserved, -1, o)
  BY <1>4, BusySlot DEF CommitSuccess, CommitIssue, IssueTickets, At, TypeOK
<1>5. ASSUME NEW s \in Slot, Create(s), ~ CountReserved(s)
      PROVE  UNCHANGED <<sold, reserved>>
  BY <1>5 DEF Create, ReadSeeds, SeedKeys, JudgeReplies, RollBackItem, ReserveItem,
     PersistOrder, OpenUrl, CallGateway, ScheduleExpire, DeleteOrder, counterVars
<1>6. ASSUME NEW s \in Slot, Settle(s), ~ DropTypeCounters(s), ~ CommitVerdict(s),
             ~ CommitSuccess(s), ~ CommitIssue(s)
      PROVE  UNCHANGED <<sold, reserved>>
  BY <1>6 DEF Settle, ReleaseHold, DropUserCounters, AbortSettle, CloseOrder,
     ForgetHold, Recheck, EnqueueIssue, TallyTickets, AckIssue, counterVars
<1>7. ASSUME NEW s \in Slot, NEW o \in Order, Start(s, o)
      PROVE  UNCHANGED <<sold, reserved>>
  BY <1>7 DEF Start, Cron, StartCreate, StartRepay, StartCancel, StartExpire,
     StartCron, StartIssue, StartWebhook, counterVars
<1>8. ASSUME NEW s \in Slot, Crash(s) PROVE UNCHANGED <<sold, reserved>>
  BY <1>8 DEF Crash, counterVars
<1>9. ASSUME NEW o \in Order, Elapse(o) PROVE UNCHANGED <<sold, reserved>>
  BY <1>9 DEF Elapse, ExpiresAtPasses, HoldLapses, counterVars
<1>10. ASSUME NEW o \in Order, NEW result, RecordWebhook(o, result)
       PROVE  UNCHANGED <<sold, reserved>>
  BY <1>10 DEF RecordWebhook, counterVars
<1>11. CASE UNCHANGED vars
  BY <1>11 DEF vars, counterVars
<1> QED
  BY <1>1, <1>2, <1>3, <1>4, <1>5, <1>6, <1>7, <1>8, <1>9, <1>10, <1>11
     DEF Next, Continue, Settle

LEMMA OvercommitStep ==
    ASSUME TypeOK, NoOvercommit, [Next]_vars
    PROVE  NoOvercommit'
<1> SUFFICES ASSUME NEW t \in TicketType
             PROVE  sold'[t] + reserved'[t] <= Total[t]
  BY DEF NoOvercommit
<1>1. /\ sold[t] \in Nat /\ reserved[t] \in Int /\ Total[t] \in Nat
      /\ sold[t] + reserved[t] <= Total[t]
  BY LifecycleAssumption DEF LifecycleAssumption, TypeOK, CounterTypeOK, NoOvercommit
<1>2. ASSUME NEW o \in Order, Fits(o), sold' = sold, reserved' = Plus(reserved, 1, o)
      PROVE  sold'[t] + reserved'[t] <= Total[t]
  <2>1. Items[o][t] \in Nat /\ reserved'[t] = reserved[t] + 1 * Items[o][t]
    BY <1>2, ItemsNat DEF Plus
  <2>2. CASE Items[o][t] > 0
    BY <1>1, <1>2, <2>1, <2>2 DEF Fits, Cart
  <2>3. CASE Items[o][t] = 0
    BY <1>1, <1>2, <2>1, <2>3
  <2> QED
    BY <2>1, <2>2, <2>3
<1>3. ASSUME NEW o \in Order, sold' = sold, reserved' = Plus(reserved, -1, o)
      PROVE  sold'[t] + reserved'[t] <= Total[t]
  <2>1. Items[o][t] \in Nat /\ reserved'[t] = reserved[t] + (-1) * Items[o][t]
    BY <1>3, ItemsNat DEF Plus
  <2> QED
    BY <1>1, <1>3, <2>1
<1>4. ASSUME NEW o \in Order, sold' = sold, reserved' = PlusIfEnough(reserved, o)
      PROVE  sold'[t] + reserved'[t] <= Total[t]
  <2>1. /\ Items[o][t] \in Nat
        /\ reserved'[t] = reserved[t] \/ reserved'[t] = reserved[t] - Items[o][t]
    BY <1>4, ItemsNat DEF PlusIfEnough
  <2> QED
    BY <1>1, <1>4, <2>1
<1>5. ASSUME NEW o \in Order, sold' = Plus(sold, 1, o), reserved' = Plus(reserved, -1, o)
      PROVE  sold'[t] + reserved'[t] <= Total[t]
  <2>1. /\ Items[o][t] \in Nat
        /\ sold'[t] = sold[t] + 1 * Items[o][t]
        /\ reserved'[t] = reserved[t] + (-1) * Items[o][t]
    BY <1>5, ItemsNat DEF Plus
  <2> QED
    BY <1>1, <2>1
<1> QED
  BY <1>1, <1>2, <1>3, <1>4, <1>5, CounterStep

(***************************************************************************)
(* The inventory transaction keeps PostgreSQL from counting more tickets   *)
(* than a type has, for every number of orders, types, users, handlers,    *)
(* failures and crashes, although the decrements around it are unguarded.  *)
(***************************************************************************)
THEOREM NoOvercommitHolds == Spec => []NoOvercommit
<1>1. Init => NoOvercommit
  BY LifecycleAssumption DEF Init, NoOvercommit, LifecycleAssumption
<1>2. TypeOK /\ NoOvercommit /\ [Next]_vars => NoOvercommit'
  BY OvercommitStep
<1> QED
  BY <1>1, <1>2, TypeCorrect, PTL DEF Spec
-----------------------------------------------------------------------------
(* Tickets and the counters of sold tickets *)

(* Tickets are created, soldQty and paidQty counted up in one transaction. *)
LEMMA IssueStep ==
    ASSUME TypeOK, [Next]_vars
    PROVE  \/ UNCHANGED <<issued, sold, userPaid>>
           \/ \E o \in Order : IssueTickets(o)
<1>1. ASSUME NEW s \in Slot, CommitSuccess(s) \/ CommitIssue(s)
      PROVE  \E o \in Order : IssueTickets(o)
  BY <1>1, BusySlot DEF CommitSuccess, CommitIssue, At, TypeOK
<1>2. ASSUME NEW s \in Slot, Create(s)
      PROVE  UNCHANGED <<issued, sold, userPaid>>
  BY <1>2 DEF Create, ReadSeeds, SeedKeys, JudgeReplies, RollBackItem, ReserveItem,
     PersistOrder, CountReserved, OpenUrl, CallGateway, ScheduleExpire, DeleteOrder,
     counterVars
<1>3. ASSUME NEW s \in Slot, Settle(s), ~ CommitSuccess(s), ~ CommitIssue(s)
      PROVE  UNCHANGED <<issued, sold, userPaid>>
  BY <1>3 DEF Settle, ReleaseHold, DropUserCounters, DropTypeCounters, AbortSettle,
     CloseOrder, ForgetHold, Recheck, CommitVerdict, EnqueueIssue, TallyTickets,
     AckIssue, counterVars
<1>4. ASSUME NEW s \in Slot, NEW o \in Order, Start(s, o)
      PROVE  UNCHANGED <<issued, sold, userPaid>>
  BY <1>4 DEF Start, Cron, StartCreate, StartRepay, StartCancel, StartExpire,
     StartCron, StartIssue, StartWebhook, counterVars
<1>5. ASSUME NEW s \in Slot, Crash(s) PROVE UNCHANGED <<issued, sold, userPaid>>
  BY <1>5 DEF Crash, counterVars
<1>6. ASSUME NEW o \in Order, Elapse(o) PROVE UNCHANGED <<issued, sold, userPaid>>
  BY <1>6 DEF Elapse, ExpiresAtPasses, HoldLapses, counterVars
<1>7. ASSUME NEW o \in Order, NEW result, RecordWebhook(o, result)
      PROVE  UNCHANGED <<issued, sold, userPaid>>
  BY <1>7 DEF RecordWebhook, counterVars
<1>8. CASE UNCHANGED vars
  BY <1>8 DEF vars, counterVars
<1> QED
  BY <1>1, <1>2, <1>3, <1>4, <1>5, <1>6, <1>7, <1>8 DEF Next, Continue

(* The tickets of type t that some of the orders have. *)
LEMMA TicketsType ==
    ASSUME TypeOK, NEW t \in TicketType
    PROVE  \A x \in Order : TicketsOf(t)[x] \in Int
<1> SUFFICES ASSUME NEW x \in Order PROVE TicketsOf(t)[x] \in Int
  OBVIOUS
<1>1. issued[x] \in Nat /\ Items[x][t] \in Nat
  BY ItemsNat DEF TypeOK, CounterTypeOK
<1> QED
  BY <1>1 DEF TicketsOf

LEMMA TicketsIssued ==
    ASSUME TypeOK, NEW o \in Order, issued' = [issued EXCEPT ![o] = @ + 1],
           NEW t \in TicketType, NEW S \in SUBSET Order
    PROVE  SumFunctionOnSet(TicketsOf(t)', S)
             = IF o \in S THEN SumFunctionOnSet(TicketsOf(t), S) + Items[o][t]
               ELSE SumFunctionOnSet(TicketsOf(t), S)
<1> DEFINE f == TicketsOf(t)
           k == TicketsOf(t)'
<1>1. IsFiniteSet(S)
  BY LifecycleAssumption, FS_Subset DEF LifecycleAssumption
<1>2. \A x \in S : f[x] \in Int
  BY TicketsType
<1>3. \A x \in S \ {o} : k[x] = f[x]
  BY DEF TicketsOf, TypeOK, CounterTypeOK
<1>4. k[o] = f[o] + Items[o][t] /\ Items[o][t] \in Nat /\ f[o] \in Int
  <2>1. issued[o] \in Nat /\ Items[o][t] \in Nat
    BY ItemsNat DEF TypeOK, CounterTypeOK
  <2>2. k[o] = (issued[o] + 1) * Items[o][t] /\ f[o] = issued[o] * Items[o][t]
    BY DEF TicketsOf, TypeOK, CounterTypeOK
  <2>3. \A a, b \in Nat : (a + 1) * b = a * b + b /\ a * b \in Int
    OBVIOUS
  <2> QED
    BY <2>1, <2>2, <2>3
<1> HIDE DEF f, k
<1>5. \A x \in S : k[x] \in Int
  BY <1>2, <1>3, <1>4
<1>6. SumFunctionOnSet(f, S) \in Int
  BY <1>1, <1>2, SumIn
<1>7. CASE o \in S
  <2>1. \A x \in S : f[x] \in Int /\ k[x] \in Int
    BY <1>2, <1>5
  <2>2. SumFunctionOnSet(k, S) = SumFunctionOnSet(f, S) - f[o] + k[o]
    BY <1>1, <1>3, <1>7, <2>1, SumChange
  <2> QED
    BY <1>4, <1>6, <1>7, <2>2 DEF f, k
<1>8. CASE o \notin S
  <2>1. SumFunctionOnSet(k, S) = SumFunctionOnSet(f, S)
    BY <1>1, <1>3, <1>8, SumSame
  <2> QED
    BY <1>8, <2>1 DEF f, k
<1> QED
  BY <1>7, <1>8

LEMMA MatchStep ==
    ASSUME TypeOK, CountersMatchTickets, [Next]_vars
    PROVE  CountersMatchTickets'
<1>1. CASE UNCHANGED <<issued, sold, userPaid>>
  BY <1>1 DEF CountersMatchTickets, TicketsOf
<1>2. ASSUME NEW o \in Order, IssueTickets(o) PROVE CountersMatchTickets'
  <2> SUFFICES ASSUME NEW t \in TicketType
               PROVE  /\ sold'[t] = SumFunctionOnSet(TicketsOf(t)', Order)
                      /\ \A u \in User : userPaid'[u][t] =
                           SumFunctionOnSet(TicketsOf(t)', {x \in Order : Owner[x] = u})
    BY DEF CountersMatchTickets
  <2>1. issued' = [issued EXCEPT ![o] = @ + 1] /\ Items[o][t] \in Nat /\ Owner[o] \in User
    BY <1>2, ItemsNat, LifecycleAssumption DEF IssueTickets, LifecycleAssumption
  <2>2. sold'[t] = sold[t] + Items[o][t]
    BY <1>2, <2>1 DEF IssueTickets, Plus, TypeOK, CounterTypeOK
  <2>3. sold'[t] = SumFunctionOnSet(TicketsOf(t)', Order)
    <3>1. Order \in SUBSET Order
      OBVIOUS
    <3>2. SumFunctionOnSet(TicketsOf(t)', Order)
            = SumFunctionOnSet(TicketsOf(t), Order) + Items[o][t]
      BY <2>1, <3>1, TicketsIssued
    <3> QED
      BY <2>2, <3>2 DEF CountersMatchTickets
  <2>4. ASSUME NEW u \in User
        PROVE  userPaid'[u][t] =
                 SumFunctionOnSet(TicketsOf(t)', {x \in Order : Owner[x] = u})
    <3> DEFINE S == {x \in Order : Owner[x] = u}
    <3>1. S \in SUBSET Order /\ (o \in S <=> Owner[o] = u)
      OBVIOUS
    <3>2. userPaid[u][t] = SumFunctionOnSet(TicketsOf(t), S)
      BY DEF CountersMatchTickets
    <3>3. userPaid'[u][t] = IF Owner[o] = u THEN userPaid[u][t] + Items[o][t]
                            ELSE userPaid[u][t]
      BY <1>2, <2>1 DEF IssueTickets, Plus, TypeOK, CounterTypeOK
    <3> HIDE DEF S
    <3>4. SumFunctionOnSet(TicketsOf(t)', S)
            = IF o \in S THEN SumFunctionOnSet(TicketsOf(t), S) + Items[o][t]
              ELSE SumFunctionOnSet(TicketsOf(t), S)
      BY <2>1, <3>1, TicketsIssued
    <3>5. userPaid'[u][t] = SumFunctionOnSet(TicketsOf(t)', S)
      BY <3>1, <3>2, <3>3, <3>4
    <3> QED
      BY <3>5 DEF S
  <2> QED
    BY <2>3, <2>4
<1> QED
  BY <1>1, <1>2, IssueStep

(***************************************************************************)
(* handlePaymentSuccess and the ticket-issue job: soldQty and paidQty are  *)
(* the tickets that exist, for any number of orders, however the handlers  *)
(* interleave, fail, crash and are repeated: also when a race issues an    *)
(* order twice.                                                            *)
(***************************************************************************)
THEOREM CountersMatch == Spec => []CountersMatchTickets
<1>1. Init => CountersMatchTickets
  <2> SUFFICES ASSUME Init, NEW t \in TicketType
               PROVE  /\ sold[t] = SumFunctionOnSet(TicketsOf(t), Order)
                      /\ \A u \in User : userPaid[u][t] =
                           SumFunctionOnSet(TicketsOf(t), {x \in Order : Owner[x] = u})
    BY DEF CountersMatchTickets
  <2>1. \A x \in Order : TicketsOf(t)[x] = 0
    <3>1. \A x \in Order : Items[x][t] \in Nat
      BY ItemsNat
    <3> QED
      BY <3>1 DEF Init, TicketsOf
  <2>2. ASSUME NEW S \in SUBSET Order PROVE SumFunctionOnSet(TicketsOf(t), S) = 0
    <3>1. IsFiniteSet(S)
      BY LifecycleAssumption, FS_Subset DEF LifecycleAssumption
    <3> QED
      BY <2>1, <3>1, SumZero
  <2> QED
    BY <2>2 DEF Init
<1>2. TypeOK /\ CountersMatchTickets /\ [Next]_vars => CountersMatchTickets'
  BY MatchStep
<1> QED
  BY <1>1, <1>2, TypeCorrect, PTL DEF Spec

-----------------------------------------------------------------------------
(* The handlers use Redis only through the commands of TicketStore *)

LEMMA StoreStep ==
    ASSUME TypeOK, [Next]_vars, SeedValue = Nat, CountValue = Int
    PROVE  [StoreNext]_storeVars
<1>1. ASSUME NEW s \in Slot, SeedKeys(s) PROVE StoreNext
  <2>1. h[s] # Idle
    BY <1>1 DEF SeedKeys, At
  <2>2. h[s].order \in Order /\ Owner[h[s].order] \in User
    BY <2>1, BusySlot DEF TypeOK
  <2> DEFINE o == h[s].order
             n == [t \in TicketType |-> seen[o][t].avail]
             m == [t \in TicketType |-> seen[o][t].count]
  <2>3. n \in [TicketType -> SeedValue] /\ m \in [TicketType -> CountValue]
    BY <2>2 DEF TypeOK, LocalTypeOK
  <2>4. Cart(o) \in SUBSET TicketType
    BY DEF Cart
  <2>5. Seed(Owner[o], Cart(o), n, m)
    BY <1>1 DEF SeedKeys
  <2> HIDE DEF o, n, m
  <2> QED
    BY <2>2, <2>3, <2>4, <2>5 DEF StoreNext, o
<1>2. ASSUME NEW s \in Slot, NEW t \in TicketType, ReserveItem(s, t)
      PROVE  [StoreNext]_storeVars
  <2>1. h[s].order \in Order
    BY <1>2, BusySlot DEF ReserveItem, At, TypeOK
  <2>2. HoldOf(h[s].order, t) \in Hold
    BY <1>2, <2>1, HoldOfType DEF ReserveItem, Unanswered
  <2> QED
    BY <1>2, <2>2 DEF ReserveItem, Refuse, StoreNext
<1>3. ASSUME NEW s \in Slot, RollBackItem(s) PROVE [StoreNext]_storeVars
  <2>1. ASSUME NEW r, Release(r) PROVE StoreNext
    BY <2>1 DEF Release, StoreNext
  <2> QED
    BY <1>3, <2>1 DEF RollBackItem, ReleaseNothing
<1>4. ASSUME NEW s \in Slot, ReleaseHold(s) PROVE [StoreNext]_storeVars
  <2>1. ASSUME NEW r, Release(r) PROVE StoreNext
    BY <2>1 DEF Release, StoreNext
  <2> QED
    BY <1>4, <2>1 DEF ReleaseHold, ReleaseAll
<1>5. ASSUME NEW s \in Slot, ForgetHold(s) PROVE StoreNext
  BY <1>5, BusySlot DEF ForgetHold, At, TypeOK, StoreNext
<1>6. ASSUME NEW o \in Order, Elapse(o) PROVE [StoreNext]_storeVars
  BY <1>6 DEF Elapse, ExpiresAtPasses, HoldLapses, StoreNext
<1>7. ASSUME NEW s \in Slot, Create(s), ~ SeedKeys(s), ~ RollBackItem(s),
             ~ \E t \in TicketType : ReserveItem(s, t)
      PROVE  UNCHANGED storeVars
  BY <1>7 DEF Create, ReadSeeds, JudgeReplies, PersistOrder, CountReserved, OpenUrl,
     CallGateway, ScheduleExpire, DeleteOrder
<1>8. ASSUME NEW s \in Slot, Settle(s), ~ ReleaseHold(s), ~ ForgetHold(s)
      PROVE  UNCHANGED storeVars
  BY <1>8 DEF Settle, DropUserCounters, DropTypeCounters, AbortSettle, CloseOrder,
     CommitSuccess, Recheck, CommitVerdict, EnqueueIssue, TallyTickets, CommitIssue,
     AckIssue
<1>9. ASSUME NEW s \in Slot, NEW o \in Order, Start(s, o) PROVE UNCHANGED storeVars
  BY <1>9 DEF Start, Cron, StartCreate, StartRepay, StartCancel, StartExpire,
     StartCron, StartIssue, StartWebhook
<1>10. ASSUME NEW s \in Slot, Crash(s) PROVE UNCHANGED storeVars
  BY <1>10 DEF Crash
<1>11. ASSUME NEW o \in Order, NEW result, RecordWebhook(o, result)
       PROVE  UNCHANGED storeVars
  BY <1>11 DEF RecordWebhook
<1>12. CASE UNCHANGED vars
  BY <1>12 DEF vars
<1> QED
  BY <1>1, <1>2, <1>3, <1>4, <1>5, <1>6, <1>7, <1>8, <1>9, <1>10, <1>11, <1>12
     DEF Next, Continue, Settle

(***************************************************************************)
(* Refinement: whatever the handlers, jobs and crashes do, Redis sees an   *)
(* execution of the inventory's commands, so that everything proved of     *)
(* StoreSpec holds of the lifecycle.  Stock keys are seeded with natural   *)
(* numbers (Math.max(0, ..)), user_limit keys with any integer.            *)
(***************************************************************************)
THEOREM StoreRefined ==
    ASSUME SeedValue = Nat, CountValue = Int
    PROVE  Spec => StoreSpec
<1>1. Init => StoreInit
  <2> SUFFICES ASSUME Init PROVE StoreInit
    OBVIOUS
  <2>1. stock \in [TicketType -> SeedValue]
    BY LifecycleAssumption DEF Init, LifecycleAssumption
  <2> QED
    BY <2>1 DEF Init, StoreInit
<1>2. TypeOK /\ [Next]_vars => [StoreNext]_storeVars
  BY StoreStep
<1> QED
  BY <1>1, <1>2, TypeCorrect, PTL DEF Spec, StoreSpec

(***************************************************************************)
(* What the store guarantees, therefore, whatever the handlers do: one     *)
(* reservation key per order, the limit, and no ticket lost or made.       *)
(***************************************************************************)
THEOREM StoreGuarantees ==
    ASSUME SeedValue = Nat, CountValue = Int
    PROVE  Spec => [](OneHoldPerOrder /\ LimitRespected /\ CountersConserved)
BY StoreRefined, OneHold, LimitHolds, ConservationHolds, PTL

-----------------------------------------------------------------------------
(* How far a handler has come, and what its order is like meanwhile *)

(* createOrder before it has written the order row. *)
EarlyAt(a) ==
    \/ a.op = "undoPersist"
    \/ a.op = "create" /\ a.at \in {"ensure", "seed", "reserve", "rollback", "persist"}

(* The statuses the order of a lone handler at step a.at may have. *)
StatusAt(a) ==
    IF EarlyAt(a) THEN {"NONE"}
    ELSE IF a.op \in {"failed", "cronFailed", "cronExpired"} /\ a.at = "release"
         THEN {StatusOf[a.op]}
    ELSE IF \/ a.op = "success" /\ a.at = "forget"
            \/ a.op = "cronPaid" /\ a.at = "enqueue"
            \/ a.op = "issue" /\ a.at \in {"tally", "commit", "ack"}
         THEN {"PAID"}
    ELSE IF a.op = "issue" THEN {}
    ELSE {"PENDING_PAYMENT"}

(* With n, how often tickets of the order were issued, and its status v. *)
StageAt(a, v, n) ==
    /\ v \in StatusAt(a)
    /\ a.op = "issue" /\ a.at = "commit" => n = 0
    /\ a.op = "issue" /\ a.at = "ack" => n > 0
    /\ a.op = "success" /\ a.at = "forget" => n > 0

PaidIfIssued(v, n) == n <= 1 /\ (n > 0 => v = "PAID")

(***************************************************************************)
(* What a handler's step does, as far as its order is concerned: from      *)
(* handler a, status v and n issues to handler r, status w and m issues.   *)
(***************************************************************************)
Advances(a, v, n, r, w, m) ==
    /\ r # Idle => r.order = a.order
    /\ r # Idle /\ EarlyAt(r) => EarlyAt(a) /\ w = v
    /\ StageAt(a, v, n) /\ PaidIfIssued(v, n) =>
         /\ PaidIfIssued(w, m)
         /\ v \in Decided => w = v
         /\ r # Idle => StageAt(r, w, m)
         /\ r = Idle /\ w = "PAID" /\ m = 0 => issueJobs'[a.order] > 0

(* The handler in slot s makes a step that Advances describes. *)
Advance(s) ==
    \E r \in Running \cup {Idle}, w \in Status, m \in Nat :
        /\ h' = [h EXCEPT ![s] = r]
        /\ status' = [status EXCEPT ![h[s].order] = w]
        /\ issued' = [issued EXCEPT ![h[s].order] = m]
        /\ UNCHANGED phase
        /\ \A o \in Order \ {h[s].order} : issueJobs'[o] = issueJobs[o]
        /\ Advances(h[s], status[h[s].order], issued[h[s].order], r, w, m)

(* How to show Advance: by the values the step leaves behind. *)
LEMMA ByValues ==
    ASSUME TypeOK, NEW s \in Slot, h[s] # Idle,
           NEW r \in Running \cup {Idle}, NEW w \in Status, NEW m \in Nat,
           h' = [h EXCEPT ![s] = r],
           status' = [status EXCEPT ![h[s].order] = w],
           issued' = [issued EXCEPT ![h[s].order] = m],
           UNCHANGED phase,
           \A o \in Order \ {h[s].order} : issueJobs'[o] = issueJobs[o],
           Advances(h[s], status[h[s].order], issued[h[s].order], r, w, m)
    PROVE  Advance(s)
BY DEF Advance

(* Steps that leave row and tickets alone. *)
LEMMA ByHandler ==
    ASSUME TypeOK, NEW s \in Slot, h[s] # Idle,
           NEW r \in Running \cup {Idle},
           h' = [h EXCEPT ![s] = r],
           UNCHANGED <<status, issued, phase>>,
           \A o \in Order \ {h[s].order} : issueJobs'[o] = issueJobs[o],
           LET v == status[h[s].order]
               n == issued[h[s].order]
           IN  Advances(h[s], v, n, r, v, n)
    PROVE  Advance(s)
<1> DEFINE o == h[s].order
<1>1. o \in Order
  BY BusySlot DEF TypeOK
<1>2. status[o] \in Status /\ issued[o] \in Nat
  BY <1>1 DEF TypeOK, RowTypeOK, CounterTypeOK
<1>3. status' = [status EXCEPT ![o] = status[o]] /\ issued' = [issued EXCEPT ![o] = issued[o]]
  BY <1>1 DEF TypeOK, RowTypeOK, CounterTypeOK
<1> QED
  BY <1>2, <1>3, ByValues

(* The record of a handler after a step. *)
LEMMA HandlersTyped == ASSUME TypeOK PROVE HandlerTypeOK
BY DEF TypeOK

LEMMA WithAt ==
    ASSUME HandlerTypeOK, NEW s \in Slot, h[s] # Idle, NEW at \in Step, Go(s, at)
    PROVE  \E r \in Running :
             /\ r # Idle /\ h' = [h EXCEPT ![s] = r]
             /\ r.op = h[s].op /\ r.order = h[s].order /\ r.at = at
<1>1. h[s] \in Running
  BY BusySlot
<1>2. h' = [h EXCEPT ![s] = [h[s] EXCEPT !.at = at]]
  BY DEF Go
<1>3. [h[s] EXCEPT !.at = at] \in Running
  BY <1>1 DEF Running
<1>4. "op" \in DOMAIN [h[s] EXCEPT !.at = at] /\ "op" \notin DOMAIN Idle
  BY <1>1 DEF Running, Idle
<1> QED
  BY <1>1, <1>2, <1>3, <1>4 DEF Running

Turn(s, op, at)      == h' = [h EXCEPT ![s].op = op, ![s].at = at]
GoWith(s, at, todo) == h' = [h EXCEPT ![s].at = at, ![s].todo = todo]

LEMMA WithOpAt ==
    ASSUME HandlerTypeOK, NEW s \in Slot, h[s] # Idle, NEW op \in Op, NEW at \in Step,
           Turn(s, op, at)
    PROVE  \E r \in Running :
             /\ r # Idle /\ h' = [h EXCEPT ![s] = r]
             /\ r.op = op /\ r.order = h[s].order /\ r.at = at
<1>1. h[s] \in Running
  BY BusySlot
<1>2. h' = [h EXCEPT ![s] = [h[s] EXCEPT !.op = op, !.at = at]]
  BY <1>1 DEF HandlerTypeOK, Turn
<1>3. [h[s] EXCEPT !.op = op, !.at = at] \in Running
  BY <1>1 DEF Running
<1>4. "op" \in DOMAIN [h[s] EXCEPT !.op = op, !.at = at] /\ "op" \notin DOMAIN Idle
  BY <1>1 DEF Running, Idle
<1> QED
  BY <1>1, <1>2, <1>3, <1>4 DEF Running

LEMMA WithAtTodo ==
    ASSUME HandlerTypeOK, NEW s \in Slot, h[s] # Idle, NEW at \in Step,
           NEW todo \in SUBSET {"types", "users", "row", "error"},
           GoWith(s, at, todo)
    PROVE  \E r \in Running :
             /\ r # Idle /\ h' = [h EXCEPT ![s] = r]
             /\ r.op = h[s].op /\ r.order = h[s].order /\ r.at = at
<1>1. h[s] \in Running
  BY BusySlot
<1>2. h' = [h EXCEPT ![s] = [h[s] EXCEPT !.at = at, !.todo = todo]]
  BY <1>1 DEF HandlerTypeOK, GoWith
<1>3. [h[s] EXCEPT !.at = at, !.todo = todo] \in Running
  BY <1>1 DEF Running
<1>4. "op" \in DOMAIN [h[s] EXCEPT !.at = at, !.todo = todo] /\ "op" \notin DOMAIN Idle
  BY <1>1 DEF Running, Idle
<1> QED
  BY <1>1, <1>2, <1>3, <1>4 DEF Running

LEMMA WithTodo ==
    ASSUME HandlerTypeOK, NEW s \in Slot, h[s] # Idle,
           NEW todo \in SUBSET {"types", "users", "row", "error"},
           h' = [h EXCEPT ![s].todo = todo]
    PROVE  \E r \in Running :
             /\ r # Idle /\ h' = [h EXCEPT ![s] = r]
             /\ r.op = h[s].op /\ r.order = h[s].order /\ r.at = h[s].at
<1>1. h[s] \in Running
  BY BusySlot
<1>2. h' = [h EXCEPT ![s] = [h[s] EXCEPT !.todo = todo]]
  OBVIOUS
<1>3. [h[s] EXCEPT !.todo = todo] \in Running
  BY <1>1 DEF Running
<1>4. "op" \in DOMAIN [h[s] EXCEPT !.todo = todo] /\ "op" \notin DOMAIN Idle
  BY <1>1 DEF Running, Idle
<1> QED
  BY <1>1, <1>2, <1>3, <1>4 DEF Running

(* A step to another await that changes neither row nor tickets. *)
LEMMA GoAdvance ==
    ASSUME TypeOK, NEW s \in Slot, h[s] # Idle, NEW r \in Running, r # Idle,
           h' = [h EXCEPT ![s] = r], r.order = h[s].order,
           UNCHANGED <<status, issued, issueJobs, phase>>,
           EarlyAt(r) => EarlyAt(h[s]),
           StageAt(h[s], status[h[s].order], issued[h[s].order])
             => StageAt(r, status[h[s].order], issued[h[s].order])
    PROVE  Advance(s)
<1>1. Advances(h[s], status[h[s].order], issued[h[s].order], r,
               status[h[s].order], issued[h[s].order])
  BY DEF Advances
<1> QED
  BY <1>1, ByHandler

(* A handler that ends leaves its order as it is. *)
LEMMA EndAdvance ==
    ASSUME TypeOK, NEW s \in Slot, h[s] # Idle, End(s),
           UNCHANGED <<status, issued, issueJobs, phase>>,
           \/ "PAID" \notin StatusAt(h[s])
           \/ h[s].op = "issue" /\ h[s].at = "ack"
           \/ h[s].op = "success" /\ h[s].at = "forget"
           \/ h[s].op = "issue" /\ h[s].at = "tally" /\ issued[h[s].order] # 0
    PROVE  Advance(s)
<1> DEFINE o == h[s].order
           v == status[o]
           n == issued[o]
<1>1. Advances(h[s], v, n, Idle, v, n)
  <2>1. n \in Nat
    BY BusySlot DEF TypeOK, CounterTypeOK
  <2> QED
    BY <2>1 DEF Advances, StageAt
<1>2. h' = [h EXCEPT ![s] = Idle]
  BY DEF End
<1> QED
  BY <1>1, <1>2, ByHandler

LEMMA ReadSeedsAdvance ==
    ASSUME TypeOK, NEW s \in Slot, ReadSeeds(s) \/ SeedKeys(s)
    PROVE  Advance(s)
<1>1. PICK at \in {"seed", "reserve"} : Go(s, at)
  BY DEF ReadSeeds, SeedKeys
<1>2. h[s] # Idle /\ h[s].op = "create" /\ h[s].at \in {"ensure", "seed"}
  BY DEF ReadSeeds, SeedKeys, At
<1>3. PICK r \in Running :
        /\ r # Idle /\ h' = [h EXCEPT ![s] = r]
        /\ r.op = "create" /\ r.order = h[s].order /\ r.at = at
  <2>1. at \in Step
    BY DEF Step
  <2> QED
    BY <1>1, <1>2, <2>1, WithAt DEF TypeOK
<1>4. EarlyAt(r) /\ EarlyAt(h[s])
  BY <1>2, <1>3 DEF EarlyAt
<1>5. \A v, n : StageAt(h[s], v, n) => StageAt(r, v, n)
  BY <1>2, <1>3, <1>4 DEF StageAt, StatusAt
<1>6. UNCHANGED <<status, issued, issueJobs, phase>>
  BY DEF ReadSeeds, SeedKeys, rowVars, counterVars, jobVars
<1> QED
  BY <1>2, <1>3, <1>4, <1>5, <1>6, GoAdvance

LEMMA StayAdvance ==
    ASSUME TypeOK, NEW s \in Slot, h[s] # Idle, UNCHANGED <<h, status, issued, issueJobs, phase>>
    PROVE  Advance(s)
<1>1. h[s] \in Running /\ h' = [h EXCEPT ![s] = h[s]]
  BY BusySlot DEF TypeOK, HandlerTypeOK
<1>2. Advances(h[s], status[h[s].order], issued[h[s].order], h[s],
               status[h[s].order], issued[h[s].order])
  BY DEF Advances
<1> QED
  BY <1>1, <1>2, ByHandler

LEMMA ReserveItemAdvance ==
    ASSUME TypeOK, NEW s \in Slot, NEW t \in TicketType, ReserveItem(s, t)
    PROVE  Advance(s)
BY StayAdvance DEF ReserveItem, At, rowVars, counterVars, jobVars

LEMMA JudgeRepliesAdvance ==
    ASSUME TypeOK, NEW s \in Slot, JudgeReplies(s)
    PROVE  Advance(s)
<1>1. h[s] # Idle /\ h[s].op = "create" /\ h[s].at = "reserve"
  BY DEF JudgeReplies, At
<1>2. PICK at \in {"persist", "rollback"} : Go(s, at)
  BY DEF JudgeReplies
<1>3. PICK r \in Running :
        /\ r # Idle /\ h' = [h EXCEPT ![s] = r]
        /\ r.op = "create" /\ r.order = h[s].order /\ r.at = at
  <2>1. at \in Step
    BY DEF Step
  <2> QED
    BY <1>1, <1>2, <2>1, WithAt DEF TypeOK
<1>4. EarlyAt(r) /\ EarlyAt(h[s])
  BY <1>1, <1>3 DEF EarlyAt
<1>5. \A v, n : StageAt(h[s], v, n) => StageAt(r, v, n)
  BY <1>1, <1>3, <1>4 DEF StageAt, StatusAt
<1>6. UNCHANGED <<status, issued, issueJobs, phase>>
  BY DEF JudgeReplies, rowVars, counterVars, jobVars
<1> QED
  BY <1>1, <1>3, <1>4, <1>5, <1>6, GoAdvance

LEMMA RollBackItemAdvance ==
    ASSUME TypeOK, NEW s \in Slot, RollBackItem(s)
    PROVE  Advance(s)
<1>1. h[s] # Idle /\ h[s].op = "create" /\ h[s].at = "rollback"
  BY DEF RollBackItem, At
<1>2. UNCHANGED <<status, issued, issueJobs, phase>> /\ (UNCHANGED h \/ End(s))
  BY DEF RollBackItem, rowVars, counterVars, jobVars
<1>3. "PAID" \notin StatusAt(h[s])
  BY <1>1 DEF StatusAt, EarlyAt
<1> QED
  BY <1>1, <1>2, <1>3, StayAdvance, EndAdvance

LEMMA PersistOrderAdvance ==
    ASSUME TypeOK, NEW s \in Slot, PersistOrder(s)
    PROVE  Advance(s)
<1> DEFINE o == h[s].order
<1>1. h[s] # Idle /\ h[s].op = "create" /\ h[s].at = "persist"
  BY DEF PersistOrder, At
<1>2. UNCHANGED <<issued, issueJobs, phase>> /\ o \in Order /\ issued[o] \in Nat
  BY <1>1, BusySlot DEF PersistOrder, counterVars, jobVars, TypeOK, CounterTypeOK
<1>3. issued' = [issued EXCEPT ![o] = issued[o]]
  BY <1>2 DEF TypeOK, CounterTypeOK
<1>4. CASE Go(s, "count") /\ status' = [status EXCEPT ![o] = "PENDING_PAYMENT"]
  <2>1. "count" \in Step /\ "PENDING_PAYMENT" \in Status
    BY DEF Step, Status
  <2>2. PICK r \in Running :
          /\ r # Idle /\ h' = [h EXCEPT ![s] = r]
          /\ r.op = "create" /\ r.at = "count" /\ r.order = o
    BY <1>1, <1>4, <2>1, WithAt DEF TypeOK
  <2>3. Advances(h[s], status[o], issued[o], r, "PENDING_PAYMENT", issued[o])
    BY <1>1, <2>2 DEF Advances, StageAt, StatusAt, EarlyAt, PaidIfIssued, Decided
  <2> QED
    BY <1>1, <1>2, <1>3, <1>4, <2>1, <2>2, <2>3, ByValues
<1>5. CASE Turn(s, "undoPersist", "release") /\ UNCHANGED status
  <2>1. "release" \in Step /\ "undoPersist" \in Op
    BY DEF Step, Op
  <2>2. PICK r \in Running :
          /\ r # Idle /\ h' = [h EXCEPT ![s] = r]
          /\ r.op = "undoPersist" /\ r.at = "release" /\ r.order = o
    BY <1>1, <1>5, <2>1, HandlersTyped, WithOpAt
  <2>3. Advances(h[s], status[o], issued[o], r, status[o], issued[o])
    BY <1>1, <2>2 DEF Advances, StageAt, StatusAt, EarlyAt, PaidIfIssued
  <2> QED
    BY <1>1, <1>2, <1>5, <2>2, <2>3, ByHandler
<1> QED
  BY <1>4, <1>5 DEF PersistOrder, Turn

(* From a step of a PENDING order to another one. *)
LEMMA PendingGo ==
    ASSUME TypeOK, NEW s \in Slot, h[s] # Idle, StatusAt(h[s]) = {"PENDING_PAYMENT"},
           NEW r \in Running, r # Idle, h' = [h EXCEPT ![s] = r], r.order = h[s].order,
           StatusAt(r) = {"PENDING_PAYMENT"},
           UNCHANGED <<status, issued, issueJobs, phase>>
    PROVE  Advance(s)
<1>1. /\ ~ (r.op = "issue" /\ r.at \in {"commit", "ack"})
      /\ ~ (r.op = "success" /\ r.at = "forget")
      /\ ~ EarlyAt(r)
  BY DEF StatusAt, EarlyAt
<1> QED
  BY <1>1, GoAdvance DEF StageAt

LEMMA CountReservedAdvance ==
    ASSUME TypeOK, NEW s \in Slot, CountReserved(s)
    PROVE  Advance(s)
<1>1. h[s] # Idle /\ h[s].op = "create" /\ h[s].at = "count"
  BY DEF CountReserved, At
<1>2. UNCHANGED <<status, issued, issueJobs, phase>>
  BY DEF CountReserved, jobVars, rowVars
<1>3. "release" \in Step /\ "undoCount" \in Op /\ "openUrl" \in Step
  BY DEF Step, Op
<1>4. CASE Go(s, "openUrl")
  <2>1. PICK r \in Running :
          /\ r # Idle /\ h' = [h EXCEPT ![s] = r]
          /\ r.op = "create" /\ r.at = "openUrl" /\ r.order = h[s].order
    BY <1>1, <1>3, <1>4, WithAt DEF TypeOK
  <2>2. StatusAt(h[s]) = {"PENDING_PAYMENT"} /\ StatusAt(r) = {"PENDING_PAYMENT"}
    BY <1>1, <2>1 DEF StatusAt, EarlyAt
  <2> QED
    BY <1>1, <1>2, <2>1, <2>2, PendingGo
<1>5. CASE Turn(s, "undoCount", "release")
  <2>1. PICK r \in Running :
          /\ r # Idle /\ h' = [h EXCEPT ![s] = r]
          /\ r.op = "undoCount" /\ r.at = "release" /\ r.order = h[s].order
    BY <1>1, <1>3, <1>5, HandlersTyped, WithOpAt
  <2>2. StatusAt(h[s]) = {"PENDING_PAYMENT"} /\ StatusAt(r) = {"PENDING_PAYMENT"}
    BY <1>1, <2>1 DEF StatusAt, EarlyAt
  <2> QED
    BY <1>1, <1>2, <2>1, <2>2, PendingGo
<1> QED
  BY <1>4, <1>5 DEF CountReserved, Turn

LEMMA OpenUrlAdvance ==
    ASSUME TypeOK, NEW s \in Slot, OpenUrl(s)
    PROVE  Advance(s)
<1>1. h[s] # Idle /\ h[s].op = "create" /\ h[s].at = "openUrl"
  BY DEF OpenUrl, At
<1>2. UNCHANGED <<status, issued, issueJobs, phase>>
  BY DEF OpenUrl, jobVars, rowVars, counterVars
<1>3. "release" \in Step /\ "undoGateway" \in Op /\ "gateway" \in Step
  BY DEF Step, Op
<1>4. CASE GoWith(s, "gateway", UrlRow(h[s].order))
  <2>1. UrlRow(h[s].order) \in SUBSET {"types", "users", "row", "error"}
    BY DEF UrlRow
  <2>2. PICK r \in Running :
          /\ r # Idle /\ h' = [h EXCEPT ![s] = r]
          /\ r.op = "create" /\ r.at = "gateway" /\ r.order = h[s].order
    BY <1>1, <1>3, <1>4, <2>1, HandlersTyped, WithAtTodo
  <2>3. StatusAt(h[s]) = {"PENDING_PAYMENT"} /\ StatusAt(r) = {"PENDING_PAYMENT"}
    BY <1>1, <2>2 DEF StatusAt, EarlyAt
  <2> QED
    BY <1>1, <1>2, <2>2, <2>3, PendingGo
<1>5. CASE Turn(s, "undoGateway", "release")
  <2>1. PICK r \in Running :
          /\ r # Idle /\ h' = [h EXCEPT ![s] = r]
          /\ r.op = "undoGateway" /\ r.at = "release" /\ r.order = h[s].order
    BY <1>1, <1>3, <1>5, HandlersTyped, WithOpAt
  <2>2. StatusAt(h[s]) = {"PENDING_PAYMENT"} /\ StatusAt(r) = {"PENDING_PAYMENT"}
    BY <1>1, <2>1 DEF StatusAt, EarlyAt
  <2> QED
    BY <1>1, <1>2, <2>1, <2>2, PendingGo
<1> QED
  BY <1>4, <1>5 DEF OpenUrl, GoWith, Turn

LEMMA CallGatewayAdvance ==
    ASSUME TypeOK, NEW s \in Slot, CallGateway(s)
    PROVE  Advance(s)
<1>1. h[s] # Idle /\ h[s].op \in {"create", "repay"} /\ h[s].at = "gateway"
  BY DEF CallGateway, At
<1>2. UNCHANGED <<status, issued, issueJobs, phase>>
  BY DEF CallGateway, jobVars, counterVars
<1>3. "release" \in Step /\ "undoGateway" \in Op /\ "schedule" \in Step
  BY DEF Step, Op
<1>4. StatusAt(h[s]) = {"PENDING_PAYMENT"}
  BY <1>1 DEF StatusAt, EarlyAt
<1>5. CASE Go(s, "schedule")
  <2>1. PICK r \in Running :
          /\ r # Idle /\ h' = [h EXCEPT ![s] = r]
          /\ r.op \in {"create", "repay"} /\ r.at = "schedule" /\ r.order = h[s].order
    BY <1>1, <1>3, <1>5, WithAt DEF TypeOK
  <2>2. StatusAt(r) = {"PENDING_PAYMENT"}
    BY <2>1 DEF StatusAt, EarlyAt
  <2> QED
    BY <1>1, <1>2, <1>4, <2>1, <2>2, PendingGo
<1>6. CASE Turn(s, "undoGateway", "release")
  <2>1. PICK r \in Running :
          /\ r # Idle /\ h' = [h EXCEPT ![s] = r]
          /\ r.op = "undoGateway" /\ r.at = "release" /\ r.order = h[s].order
    BY <1>1, <1>3, <1>6, HandlersTyped, WithOpAt
  <2>2. StatusAt(r) = {"PENDING_PAYMENT"}
    BY <2>1 DEF StatusAt, EarlyAt
  <2> QED
    BY <1>1, <1>2, <1>4, <2>1, <2>2, PendingGo
<1>7. CASE End(s)
  BY <1>1, <1>2, <1>4, <1>7, EndAdvance
<1> QED
  BY <1>5, <1>6, <1>7 DEF CallGateway, Turn

LEMMA ScheduleExpireAdvance ==
    ASSUME TypeOK, NEW s \in Slot, ScheduleExpire(s)
    PROVE  Advance(s)
<1>1. h[s] # Idle /\ "PAID" \notin StatusAt(h[s])
  BY DEF ScheduleExpire, At, StatusAt, EarlyAt
<1> QED
  BY <1>1, EndAdvance DEF ScheduleExpire, rowVars, counterVars

LEMMA DeleteOrderAdvance ==
    ASSUME TypeOK, NEW s \in Slot, DeleteOrder(s)
    PROVE  Advance(s)
<1> DEFINE o == h[s].order
           w == IF Cart(o) = {} THEN "NONE" ELSE status[o]
<1>1. h[s] # Idle /\ h[s].op \in {"undoCount", "undoGateway"} /\ h[s].at = "delete"
  BY DEF DeleteOrder, At
<1>2. UNCHANGED <<issued, issueJobs, phase>> /\ o \in Order /\ issued[o] \in Nat /\ status[o] \in Status
  BY <1>1, BusySlot DEF DeleteOrder, counterVars, jobVars, TypeOK, CounterTypeOK, RowTypeOK
<1>3. issued' = [issued EXCEPT ![o] = issued[o]]
  BY <1>2 DEF TypeOK, CounterTypeOK
<1>4. status' = [status EXCEPT ![o] = w] /\ w \in Status
  BY <1>2 DEF DeleteOrder, Status
<1>5. StatusAt(h[s]) = {"PENDING_PAYMENT"}
  BY <1>1 DEF StatusAt, EarlyAt
<1>6. Advances(h[s], status[o], issued[o], Idle, w, issued[o])
  BY <1>5 DEF Advances, StageAt, PaidIfIssued, Decided
<1>7. h' = [h EXCEPT ![s] = Idle]
  BY DEF DeleteOrder, End
<1> QED
  BY <1>1, <1>2, <1>3, <1>4, <1>6, <1>7, ByValues

LEMMA ReleaseHoldAdvance ==
    ASSUME TypeOK, NEW s \in Slot, ReleaseHold(s)
    PROVE  Advance(s)
<1>1. h[s] # Idle /\ h[s].at = "release" /\ h[s].op \in Op
  BY BusySlot DEF ReleaseHold, TypeOK
<1>2. UNCHANGED <<status, issued, issueJobs, phase>>
  BY DEF ReleaseHold, rowVars, counterVars, jobVars
<1>3. CASE End(s)
  <2>1. "PAID" \notin StatusAt(h[s])
    BY <1>1 DEF StatusAt, EarlyAt, StatusOf
  <2> QED
    BY <1>1, <1>2, <1>3, <2>1, EndAdvance
<1>4. ASSUME NEW at \in {"counters", "delete"}, NEW todo \in SUBSET {"types", "users"},
             h[s].op \in {"cancel", "expire", "undoGateway", "undoCount"},
             GoWith(s, at, todo)
      PROVE  Advance(s)
  <2>1. at \in Step /\ todo \in SUBSET {"types", "users", "row", "error"}
    BY DEF Step
  <2>2. PICK r \in Running :
          /\ r # Idle /\ h' = [h EXCEPT ![s] = r]
          /\ r.op = h[s].op /\ r.order = h[s].order /\ r.at = at
    BY <1>1, <1>4, <2>1, HandlersTyped, WithAtTodo
  <2>3. StatusAt(h[s]) = {"PENDING_PAYMENT"} /\ StatusAt(r) = {"PENDING_PAYMENT"}
    BY <1>1, <1>4, <2>2 DEF StatusAt, EarlyAt
  <2> QED
    BY <1>1, <1>2, <2>2, <2>3, PendingGo
<1>5. CASE AfterRelease[h[s].op] = "end"
  BY <1>3, <1>5 DEF ReleaseHold
<1>6. CASE AfterRelease[h[s].op] = "counters"
  <2>1. h[s].op \in {"cancel", "expire", "undoGateway"}
    BY <1>1, <1>6 DEF AfterRelease
  <2>2. GoWith(s, "counters", {"types", "users"})
    BY <1>6 DEF ReleaseHold, GoWith
  <2> QED
    BY <1>4, <2>1, <2>2
<1>7. CASE AfterRelease[h[s].op] = "delete"
  <2>1. h[s].op = "undoCount"
    BY <1>1, <1>7 DEF AfterRelease
  <2>2. GoWith(s, "delete", {})
    BY <1>7 DEF ReleaseHold, GoWith
  <2> QED
    BY <1>4, <2>1, <2>2
<1>8. AfterRelease[h[s].op] \in {"end", "counters", "delete"}
  BY <1>1 DEF AfterRelease
<1> QED
  BY <1>5, <1>6, <1>7, <1>8

LEMMA DropCountersAdvance ==
    ASSUME TypeOK, NEW s \in Slot, DropUserCounters(s) \/ DropTypeCounters(s)
    PROVE  Advance(s)
<1>1. h[s] # Idle /\ h[s].at = "counters" /\ h[s] \in Running
  BY BusySlot DEF DropUserCounters, DropTypeCounters, TypeOK
<1>2. UNCHANGED <<status, issued, issueJobs, phase>>
  BY DEF DropUserCounters, DropTypeCounters, rowVars, jobVars
<1>3. PICK todo \in SUBSET {"types", "users", "row", "error"} : h' = [h EXCEPT ![s].todo = todo]
  <2>1. h[s].todo \in SUBSET {"types", "users", "row", "error"}
    BY <1>1 DEF Running
  <2>2. CASE DropTypeCounters(s)
    <3>1. h' = [h EXCEPT ![s].todo = h[s].todo \ {"types"}]
      BY <1>1, <2>2 DEF DropTypeCounters
    <3> QED
      BY <2>1, <3>1
  <2>3. CASE DropUserCounters(s)
    <3> DEFINE T == IF RowsOf(h[s].order) \subseteq counterRows THEN h[s].todo \ {"users"}
                    ELSE IF h[s].op = "expire" THEN {"error"}
                    ELSE (h[s].todo \ {"users"}) \cup {"error"}
    <3>1. h' = [h EXCEPT ![s].todo = T]
      BY <1>1, <2>3 DEF DropUserCounters
    <3>2. T \in SUBSET {"types", "users", "row", "error"}
      BY <2>1
    <3> QED
      BY <3>1, <3>2
  <2> QED
    BY <2>2, <2>3
<1>4. PICK r \in Running :
        /\ r # Idle /\ h' = [h EXCEPT ![s] = r]
        /\ r.op = h[s].op /\ r.order = h[s].order /\ r.at = h[s].at
  BY <1>1, <1>3, HandlersTyped, WithTodo
<1>5. EarlyAt(r) => EarlyAt(h[s])
  BY <1>4 DEF EarlyAt
<1>6. \A v, n : StageAt(h[s], v, n) => StageAt(r, v, n)
  BY <1>4 DEF StageAt, StatusAt, EarlyAt
<1> QED
  BY <1>1, <1>2, <1>4, <1>5, <1>6, GoAdvance

LEMMA AbortSettleAdvance ==
    ASSUME TypeOK, NEW s \in Slot, AbortSettle(s)
    PROVE  Advance(s)
<1>1. h[s] # Idle /\ "PAID" \notin StatusAt(h[s]) /\ End(s)
  BY DEF AbortSettle, StatusAt, EarlyAt
<1>2. UNCHANGED <<status, issued, issueJobs, phase>>
  BY DEF AbortSettle, rowVars, counterVars
<1> QED
  BY <1>1, <1>2, EndAdvance

LEMMA CloseOrderAdvance ==
    ASSUME TypeOK, NEW s \in Slot, CloseOrder(s)
    PROVE  Advance(s)
<1> DEFINE o == h[s].order
<1>1. h[s] # Idle /\ h[s].at = "counters" /\ o \in Order /\ issued[o] \in Nat
  BY BusySlot DEF CloseOrder, TypeOK, CounterTypeOK
<1>2. UNCHANGED <<issued, issueJobs, phase>> /\ issued' = [issued EXCEPT ![o] = issued[o]]
  BY <1>1 DEF CloseOrder, counterVars, TypeOK, CounterTypeOK
<1>3. ASSUME NEW w \in {"CANCELLED", "EXPIRED"}, h[s].op \in {"cancel", "expire"},
             End(s), status' = [status EXCEPT ![o] = w]
      PROVE  Advance(s)
  <2>1. w \in Status /\ h' = [h EXCEPT ![s] = Idle]
    BY <1>3 DEF Status, End
  <2>2. StatusAt(h[s]) = {"PENDING_PAYMENT"}
    BY <1>1, <1>3 DEF StatusAt, EarlyAt
  <2>3. Advances(h[s], status[o], issued[o], Idle, w, issued[o])
    BY <2>2, <1>3 DEF Advances, StageAt, PaidIfIssued, Decided
  <2> QED
    BY <1>1, <1>2, <1>3, <2>1, <2>3, ByValues
<1>4. CASE h[s].op = "undoGateway" /\ Go(s, "delete") /\ UNCHANGED status
  <2>1. "delete" \in Step
    BY DEF Step
  <2>2. PICK r \in Running :
          /\ r # Idle /\ h' = [h EXCEPT ![s] = r]
          /\ r.op = "undoGateway" /\ r.order = o /\ r.at = "delete"
    BY <1>1, <1>4, <2>1, HandlersTyped, WithAt
  <2>3. StatusAt(h[s]) = {"PENDING_PAYMENT"} /\ StatusAt(r) = {"PENDING_PAYMENT"}
    BY <1>1, <1>4, <2>2 DEF StatusAt, EarlyAt
  <2> QED
    BY <1>1, <1>2, <1>4, <2>2, <2>3, PendingGo
<1> QED
  BY <1>3, <1>4 DEF CloseOrder

LEMMA CommitSuccessAdvance ==
    ASSUME TypeOK, NEW s \in Slot, CommitSuccess(s)
    PROVE  Advance(s)
<1> DEFINE o == h[s].order
<1>1. /\ h[s] # Idle /\ h[s].op = "success" /\ h[s].at = "commit" /\ Go(s, "forget")
      /\ o \in Order /\ issued[o] \in Nat
  BY BusySlot DEF CommitSuccess, At, TypeOK, CounterTypeOK
<1>2. /\ status' = [status EXCEPT ![o] = "PAID"] /\ UNCHANGED <<issueJobs, phase>>
      /\ issued' = [issued EXCEPT ![o] = issued[o] + 1]
  BY DEF CommitSuccess, IssueTickets, jobVars
<1>3. "forget" \in Step /\ "PAID" \in Status /\ issued[o] + 1 \in Nat
  BY <1>1 DEF Step, Status
<1>4. PICK r \in Running :
        /\ r # Idle /\ h' = [h EXCEPT ![s] = r]
        /\ r.op = "success" /\ r.order = o /\ r.at = "forget"
  BY <1>1, <1>3, HandlersTyped, WithAt
<1>5. /\ StatusAt(h[s]) = {"PENDING_PAYMENT"} /\ StatusAt(r) = {"PAID"} /\ ~ EarlyAt(r)
      /\ StageAt(h[s], status[o], issued[o]) => status[o] = "PENDING_PAYMENT"
  BY <1>1, <1>4 DEF StatusAt, EarlyAt, StageAt
<1>6. Advances(h[s], status[o], issued[o], r, "PAID", issued[o] + 1)
  BY <1>1, <1>4, <1>5 DEF Advances, StageAt, PaidIfIssued, Decided
<1> QED
  BY <1>1, <1>2, <1>3, <1>4, <1>6, ByValues

LEMMA CommitIssueAdvance ==
    ASSUME TypeOK, NEW s \in Slot, CommitIssue(s)
    PROVE  Advance(s)
<1> DEFINE o == h[s].order
<1>1. /\ h[s] # Idle /\ h[s].op = "issue" /\ h[s].at = "commit" /\ Go(s, "ack")
      /\ o \in Order /\ issued[o] \in Nat /\ status[o] \in Status
  BY BusySlot DEF CommitIssue, At, TypeOK, CounterTypeOK, RowTypeOK
<1>2. /\ status' = [status EXCEPT ![o] = status[o]] /\ UNCHANGED <<issueJobs, phase>>
      /\ issued' = [issued EXCEPT ![o] = issued[o] + 1]
  BY <1>1 DEF CommitIssue, IssueTickets, jobVars, rowVars, TypeOK, RowTypeOK
<1>3. "ack" \in Step /\ issued[o] + 1 \in Nat
  BY <1>1 DEF Step
<1>4. PICK r \in Running :
        /\ r # Idle /\ h' = [h EXCEPT ![s] = r]
        /\ r.op = "issue" /\ r.order = o /\ r.at = "ack"
  BY <1>1, <1>3, HandlersTyped, WithAt
<1>5. /\ StatusAt(r) = {"PAID"} /\ ~ EarlyAt(r)
      /\ StageAt(h[s], status[o], issued[o]) => status[o] = "PAID" /\ issued[o] = 0
  BY <1>1, <1>4 DEF StatusAt, EarlyAt, StageAt
<1>6. Advances(h[s], status[o], issued[o], r, status[o], issued[o] + 1)
  BY <1>1, <1>4, <1>5 DEF Advances, StageAt, PaidIfIssued
<1> QED
  BY <1>1, <1>2, <1>3, <1>4, <1>6, ByValues

LEMMA ForgetHoldAdvance ==
    ASSUME TypeOK, NEW s \in Slot, ForgetHold(s) \/ AckIssue(s)
    PROVE  Advance(s)
<1>1. /\ h[s] # Idle /\ End(s)
      /\ \/ h[s].op = "issue" /\ h[s].at = "ack"
         \/ h[s].op = "success" /\ h[s].at = "forget"
  BY DEF ForgetHold, AckIssue, At
<1>2. UNCHANGED <<status, issued, issueJobs, phase>>
  BY DEF ForgetHold, AckIssue, rowVars, counterVars, jobVars
<1> QED
  BY <1>1, <1>2, EndAdvance

LEMMA TallyTicketsAdvance ==
    ASSUME TypeOK, NEW s \in Slot, TallyTickets(s)
    PROVE  Advance(s)
<1>1. h[s] # Idle /\ h[s].op = "issue" /\ h[s].at = "tally"
  BY DEF TallyTickets, At
<1>2. UNCHANGED <<status, issued, issueJobs, phase>>
  BY DEF TallyTickets, rowVars, counterVars, jobVars
<1>3. CASE issued[h[s].order] # 0
  BY <1>1, <1>2, <1>3, EndAdvance DEF TallyTickets
<1>4. CASE issued[h[s].order] = 0
  <2>1. "commit" \in Step /\ Go(s, "commit")
    BY <1>4 DEF Step, TallyTickets
  <2>2. PICK r \in Running :
          /\ r # Idle /\ h' = [h EXCEPT ![s] = r]
          /\ r.op = "issue" /\ r.order = h[s].order /\ r.at = "commit"
    BY <1>1, <2>1, HandlersTyped, WithAt
  <2>3. StageAt(h[s], status[h[s].order], issued[h[s].order])
          => StageAt(r, status[h[s].order], issued[h[s].order])
    BY <1>1, <1>4, <2>2 DEF StageAt, StatusAt, EarlyAt
  <2>4. ~ EarlyAt(r)
    BY <2>2 DEF EarlyAt
  <2> QED
    BY <1>1, <1>2, <2>2, <2>3, <2>4, GoAdvance
<1> QED
  BY <1>3, <1>4

LEMMA RecheckAdvance ==
    ASSUME TypeOK, NEW s \in Slot, Recheck(s)
    PROVE  Advance(s)
<1> DEFINE at == IF status[h[s].order] = "PENDING_PAYMENT" THEN "commit"
                 ELSE IF h[s].op = "cronPaid" THEN "enqueue" ELSE "release"
<1>1. h[s] # Idle /\ h[s].at = "recheck"
  BY DEF Recheck
<1>2. UNCHANGED <<status, issued, issueJobs, phase>>
  BY DEF Recheck, rowVars, counterVars, jobVars
<1>3. at \in Step /\ Go(s, at)
  BY DEF Step, Recheck
<1>4. PICK r \in Running :
        /\ r # Idle /\ h' = [h EXCEPT ![s] = r]
        /\ r.op = h[s].op /\ r.order = h[s].order /\ r.at = at
  BY <1>1, <1>3, HandlersTyped, WithAt
<1>5. StageAt(h[s], status[h[s].order], issued[h[s].order])
        => StageAt(r, status[h[s].order], issued[h[s].order])
  BY <1>1, <1>4 DEF StageAt, StatusAt, EarlyAt
<1>6. EarlyAt(r) => EarlyAt(h[s])
  BY <1>4 DEF EarlyAt
<1> QED
  BY <1>1, <1>2, <1>4, <1>5, <1>6, GoAdvance

LEMMA CommitVerdictAdvance ==
    ASSUME TypeOK, NEW s \in Slot, CommitVerdict(s)
    PROVE  Advance(s)
<1> DEFINE o == h[s].order
           w == StatusOf[h[s].op]
           at == IF h[s].op = "cronPaid" THEN "enqueue" ELSE "release"
<1>1. /\ h[s] # Idle /\ h[s].at = "commit" /\ o \in Order /\ issued[o] \in Nat
      /\ h[s].op \in {"failed", "cronFailed", "cronExpired", "cronPaid"}
  BY BusySlot DEF CommitVerdict, TypeOK, CounterTypeOK, StatusOf
<1>2. /\ status' = [status EXCEPT ![o] = w] /\ UNCHANGED <<issueJobs, phase>>
      /\ issued' = [issued EXCEPT ![o] = issued[o]]
  BY <1>1 DEF CommitVerdict, jobVars, TypeOK, CounterTypeOK
<1>3. at \in Step /\ Go(s, at) /\ w \in Status
  BY <1>1 DEF CommitVerdict, Step, Status, StatusOf
<1>4. PICK r \in Running :
        /\ r # Idle /\ h' = [h EXCEPT ![s] = r]
        /\ r.op = h[s].op /\ r.order = o /\ r.at = at
  BY <1>1, <1>3, HandlersTyped, WithAt
<1>5. /\ StatusAt(h[s]) = {"PENDING_PAYMENT"} /\ StatusAt(r) = {w} /\ ~ EarlyAt(r)
      /\ StageAt(h[s], status[o], issued[o]) => status[o] = "PENDING_PAYMENT"
  BY <1>1, <1>4 DEF StatusAt, EarlyAt, StageAt, StatusOf
<1>6. Advances(h[s], status[o], issued[o], r, w, issued[o])
  BY <1>1, <1>4, <1>5 DEF Advances, StageAt, PaidIfIssued, Decided
<1> QED
  BY <1>1, <1>2, <1>3, <1>4, <1>6, ByValues

LEMMA EnqueueIssueAdvance ==
    ASSUME TypeOK, NEW s \in Slot, EnqueueIssue(s)
    PROVE  Advance(s)
<1> DEFINE o == h[s].order
<1>1. /\ h[s] # Idle /\ End(s) /\ o \in Order
      /\ issued[o] \in Nat /\ status[o] \in Status /\ issueJobs[o] \in Nat
  BY BusySlot DEF EnqueueIssue, At, TypeOK, CounterTypeOK, RowTypeOK, JobTypeOK
<1>2. UNCHANGED <<status, issued, phase>>
  BY DEF EnqueueIssue, rowVars, counterVars
<1>3. issueJobs'[o] > 0 /\ \A x \in Order \ {o} : issueJobs'[x] = issueJobs[x]
  BY <1>1 DEF EnqueueIssue, TypeOK, JobTypeOK
<1>4. Advances(h[s], status[o], issued[o], Idle, status[o], issued[o])
  BY <1>3 DEF Advances
<1>5. h' = [h EXCEPT ![s] = Idle]
  BY <1>1 DEF End
<1> QED
  BY <1>1, <1>2, <1>3, <1>4, <1>5, ByHandler

(* Every step of a running handler is one that Advances describes. *)
LEMMA HandlerAdvance ==
    ASSUME TypeOK, NEW s \in Slot, Continue(s)
    PROVE  Advance(s)
<1>1. CASE Create(s)
  BY <1>1, ReadSeedsAdvance, JudgeRepliesAdvance, RollBackItemAdvance,
     ReserveItemAdvance, PersistOrderAdvance, CountReservedAdvance, OpenUrlAdvance,
     CallGatewayAdvance, ScheduleExpireAdvance, DeleteOrderAdvance DEF Create
<1>2. CASE Settle(s)
  BY <1>2, ReleaseHoldAdvance, DropCountersAdvance, AbortSettleAdvance,
     CloseOrderAdvance, CommitSuccessAdvance, ForgetHoldAdvance, RecheckAdvance,
     CommitVerdictAdvance, EnqueueIssueAdvance, TallyTicketsAdvance,
     CommitIssueAdvance DEF Settle
<1> QED
  BY <1>1, <1>2 DEF Continue

(* What a call, job or cron run that begins finds and leaves. *)
Begun(s, o, r) ==
    /\ h[s] = Idle /\ r # Idle /\ r.order = o /\ h' = [h EXCEPT ![s] = r]
    /\ Cardinality({x \in Slot : h[x] # Idle /\ h[x].order = o}) < PerOrder
    /\ \/ /\ phase[o] = "new" /\ phase' = [phase EXCEPT ![o] = "open"]
          /\ r.op = "create" /\ r.at = "ensure"
          /\ UNCHANGED issueJobs
       \/ /\ UNCHANGED phase
          /\ status[o] \in {"PENDING_PAYMENT", "PAID"}
          /\ StatusAt(r) = {status[o]} /\ ~ EarlyAt(r)
          /\ ~ (r.op = "issue" /\ r.at \in {"commit", "ack"})
          /\ ~ (r.op = "success" /\ r.at = "forget")

LEMMA BeginsAs ==
    ASSUME NEW s \in Slot, NEW op \in Op, NEW o \in Order, NEW at \in Step,
           NEW todo \in SUBSET {"types", "users", "row", "error"},
           Begin(s, op, o, at, todo)
    PROVE  \E r \in Running :
             /\ h[s] = Idle /\ r # Idle /\ h' = [h EXCEPT ![s] = r]
             /\ r.op = op /\ r.order = o /\ r.at = at
             /\ Cardinality({x \in Slot : h[x] # Idle /\ h[x].order = o}) < PerOrder
<1> DEFINE r == [op |-> op, order |-> o, at |-> at, todo |-> todo]
<1>1. r \in Running
  BY DEF Running
<1>2. r # Idle
  <2>1. "op" \in DOMAIN r /\ "op" \notin DOMAIN Idle
    BY DEF Idle
  <2> QED
    BY <2>1
<1> QED
  BY <1>1, <1>2 DEF Begin

LEMMA Started ==
    ASSUME TypeOK, NEW s \in Slot, NEW o \in Order, Start(s, o)
    PROVE  /\ UNCHANGED <<status, issued>>
           /\ \A x \in Order \ {o} : issueJobs'[x] = issueJobs[x]
           /\ \/ /\ UNCHANGED <<h, phase>>
                 /\ UNCHANGED issueJobs \/ status[o] # "PAID" \/ Cart(o) = {}
              \/ \E r \in Running : Begun(s, o, r)
<1>1. CASE StartCreate(s, o)
  <2>1. "create" \in Op /\ "ensure" \in Step
    BY DEF Op, Step
  <2>2. Begin(s, "create", o, "ensure", {})
    BY <1>1 DEF StartCreate
  <2>3. PICK r \in Running :
          /\ h[s] = Idle /\ r # Idle /\ h' = [h EXCEPT ![s] = r]
          /\ r.op = "create" /\ r.order = o /\ r.at = "ensure"
          /\ Cardinality({x \in Slot : h[x] # Idle /\ h[x].order = o}) < PerOrder
    BY <2>1, <2>2, BeginsAs
  <2>4. /\ UNCHANGED <<status, issued, issueJobs>>
        /\ phase[o] = "new" /\ phase' = [phase EXCEPT ![o] = "open"]
    BY <1>1 DEF StartCreate, rowVars, counterVars, jobVars
  <2>5. Begun(s, o, r)
    BY <2>3, <2>4 DEF Begun
  <2> QED
    BY <2>4, <2>5
<1>2. ASSUME NEW op \in Op, NEW at \in Step,
             NEW todo \in SUBSET {"types", "users", "row", "error"},
             Begin(s, op, o, at, todo), status[o] = "PENDING_PAYMENT",
             \/ op \in {"cancel", "expire"} /\ at = "release"
             \/ op \in {"cronPaid", "cronFailed", "cronExpired", "failed"} /\ at = "recheck"
             \/ op = "success" /\ at = "commit"
             \/ op = "repay" /\ at = "gateway",
             UNCHANGED phase
      PROVE  \E r \in Running : Begun(s, o, r)
  <2>1. PICK r \in Running :
          /\ h[s] = Idle /\ r # Idle /\ h' = [h EXCEPT ![s] = r]
          /\ r.op = op /\ r.order = o /\ r.at = at
          /\ Cardinality({x \in Slot : h[x] # Idle /\ h[x].order = o}) < PerOrder
    <3>1. Begin(s, op, o, at, todo)
      BY <1>2
    <3> QED
      BY <3>1, BeginsAs
  <2>2. StatusAt(r) = {"PENDING_PAYMENT"} /\ ~ EarlyAt(r)
    BY <1>2, <2>1 DEF StatusAt, EarlyAt
  <2>3. Begun(s, o, r)
    BY <1>2, <2>1, <2>2 DEF Begun
  <2> QED
    BY <2>3
<1>3. CASE StartRepay(s, o)
  <2>1. UrlRow(o) \in SUBSET {"types", "users", "row", "error"}
    BY DEF UrlRow
  <2>2. "repay" \in Op /\ "gateway" \in Step
    BY DEF Op, AllCalls, Step
  <2>3. Begin(s, "repay", o, "gateway", UrlRow(o)) /\ status[o] = "PENDING_PAYMENT"
    BY <1>3 DEF StartRepay
  <2>4. UNCHANGED <<status, issued, issueJobs, phase>>
    BY <1>3 DEF StartRepay, rowVars, counterVars, jobVars
  <2> QED
    BY <1>2, <2>1, <2>2, <2>3, <2>4
<1>4. CASE StartCancel(s, o)
  <2>1. {"types", "users"} \in SUBSET {"types", "users", "row", "error"}
    OBVIOUS
  <2>2. "cancel" \in Op /\ "release" \in Step
    BY DEF Op, AllCalls, Step
  <2>3. Begin(s, "cancel", o, "release", {"types", "users"}) /\ status[o] = "PENDING_PAYMENT"
    BY <1>4 DEF StartCancel
  <2>4. UNCHANGED <<status, issued, issueJobs, phase>>
    BY <1>4 DEF StartCancel, rowVars, counterVars, jobVars
  <2> QED
    BY <1>2, <2>1, <2>2, <2>3, <2>4
<1>5. CASE StartExpire(s, o)
  <2>1. {"types", "users"} \in SUBSET {"types", "users", "row", "error"}
    OBVIOUS
  <2>2. "expire" \in Op /\ "release" \in Step
    BY DEF Op, Step
  <2>3. UNCHANGED <<status, issued, issueJobs, phase>>
    BY <1>5 DEF StartExpire, rowVars, counterVars
  <2>4. CASE status[o] = "PENDING_PAYMENT"
    <3>1. Begin(s, "expire", o, "release", {"types", "users"})
      BY <1>5, <2>4 DEF StartExpire
    <3> QED
      BY <1>2, <2>1, <2>2, <2>3, <2>4, <3>1
  <2>5. CASE status[o] # "PENDING_PAYMENT"
    BY <1>5, <2>3, <2>5 DEF StartExpire
  <2> QED
    BY <2>4, <2>5
<1>6. CASE Cron(s, o)
  <2>1. PICK v \in {"cronPaid", "cronFailed", "cronExpired"} : StartCron(s, o, v)
    BY <1>6 DEF Cron
  <2>2. v \in Op /\ "recheck" \in Step
    BY DEF Op, AllCalls, Step
  <2>3. Begin(s, v, o, "recheck", {}) /\ status[o] = "PENDING_PAYMENT"
    BY <2>1 DEF StartCron
  <2>4. UNCHANGED <<status, issued, issueJobs, phase>>
    BY <2>1 DEF StartCron, rowVars, counterVars, jobVars
  <2> QED
    BY <1>2, <2>2, <2>3, <2>4
<1>7. ASSUME NEW result \in {"success", "failed"}, StartWebhook(s, o, result)
      PROVE  /\ UNCHANGED <<status, issued, issueJobs>>
             /\ \E r \in Running : Begun(s, o, r)
  <2> DEFINE at == IF result = "success" THEN "commit" ELSE "recheck"
  <2>1. result \in Op /\ at \in Step
    BY DEF Op, AllCalls, Step
  <2>2. Begin(s, result, o, at, {}) /\ status[o] = "PENDING_PAYMENT"
    BY <1>7 DEF StartWebhook
  <2>3. UNCHANGED <<status, issued, issueJobs, phase>>
    BY <1>7 DEF StartWebhook, rowVars, counterVars, jobVars
  <2>4. \/ result = "failed" /\ at = "recheck"
        \/ result = "success" /\ at = "commit"
    OBVIOUS
  <2> HIDE DEF at
  <2>5. \E r \in Running : Begun(s, o, r)
    BY <1>2, <2>1, <2>2, <2>3, <2>4
  <2> QED
    BY <2>3, <2>5
<1>8. CASE StartIssue(s, o)
  <2>1. UNCHANGED <<status, issued, phase>>
    BY <1>8 DEF StartIssue, rowVars, counterVars
  <2>2. \A x \in Order \ {o} : issueJobs'[x] = issueJobs[x]
    BY <1>8 DEF StartIssue, TypeOK, JobTypeOK
  <2>3. CASE status[o] = "PAID" /\ Cart(o) # {}
    <3>1. Begin(s, "issue", o, "tally", {})
      BY <1>8, <2>3 DEF StartIssue
    <3>2. "issue" \in Op /\ "tally" \in Step
      BY DEF Op, Step
    <3>3. PICK r \in Running :
            /\ h[s] = Idle /\ r # Idle /\ h' = [h EXCEPT ![s] = r]
            /\ r.op = "issue" /\ r.order = o /\ r.at = "tally"
            /\ Cardinality({x \in Slot : h[x] # Idle /\ h[x].order = o}) < PerOrder
      BY <3>1, <3>2, BeginsAs
    <3>4. StatusAt(r) = {"PAID"} /\ ~ EarlyAt(r)
      BY <3>3 DEF StatusAt, EarlyAt
    <3>5. Begun(s, o, r)
      BY <2>1, <2>3, <3>3, <3>4 DEF Begun
    <3> QED
      BY <2>1, <2>2, <3>5
  <2>4. CASE ~ (status[o] = "PAID" /\ Cart(o) # {})
    BY <1>8, <2>1, <2>2, <2>4 DEF StartIssue
  <2> QED
    BY <2>3, <2>4
<1> QED
  BY <1>1, <1>3, <1>4, <1>5, <1>6, <1>7, <1>8 DEF Start

(* Time, recorded webhooks and stuttering leave handlers and rows alone. *)
LEMMA Quiet ==
    ASSUME TypeOK,
           \/ \E o \in Order : Elapse(o)
           \/ \E o \in Order, result \in DOMAIN PaymentOf : RecordWebhook(o, result)
           \/ UNCHANGED vars
    PROVE  /\ UNCHANGED <<h, status, issued, issueJobs, crashes>>
           /\ \A o \in Order : phase'[o] = "new" <=> phase[o] = "new"
<1>1. ASSUME NEW o \in Order, Elapse(o)
      PROVE  /\ UNCHANGED <<h, status, issued, issueJobs, crashes>>
             /\ \A x \in Order : phase'[x] = "new" <=> phase[x] = "new"
  BY <1>1 DEF Elapse, ExpiresAtPasses, HoldLapses, rowVars, counterVars, jobVars,
     budget, TypeOK, HandlerTypeOK
<1>2. ASSUME NEW o \in Order, NEW result, RecordWebhook(o, result)
      PROVE  UNCHANGED <<h, status, issued, issueJobs, crashes, phase>>
  BY <1>2 DEF RecordWebhook, counterVars, jobVars, budget
<1>3. CASE UNCHANGED vars
  BY <1>3 DEF vars, rowVars, counterVars, jobVars, budget
<1> QED
  BY <1>1, <1>2, <1>3

LEMMA Crashed ==
    ASSUME TypeOK, NEW s \in Slot, Crash(s)
    PROVE  /\ h[s] # Idle /\ h' = [h EXCEPT ![s] = Idle]
           /\ UNCHANGED <<status, issued, phase>> /\ crashes' = crashes + 1
           /\ \A x \in Order \ {h[s].order} : issueJobs'[x] = issueJobs[x]
BY DEF Crash, End, rowVars, counterVars, TypeOK, JobTypeOK

-----------------------------------------------------------------------------
(* A request is created once, and alone until its order row is there *)

Fresh ==
    /\ \A o \in Order : phase[o] = "new" => status[o] = "NONE" /\ ~ Busy(o)
    /\ \A s \in Slot : h[s] # Idle /\ EarlyAt(h[s]) =>
         /\ status[h[s].order] = "NONE"
         /\ \A x \in Slot : h[x] # Idle /\ h[x].order = h[s].order => x = s

LEMMA FreshStep ==
    ASSUME TypeOK, Fresh, [Next]_vars
    PROVE  Fresh'
<1>1. ASSUME NEW s \in Slot, Continue(s) PROVE Fresh'
  <2>1. h[s] # Idle
    BY <1>1 DEF Continue, Create, Settle, ReadSeeds, SeedKeys, JudgeReplies, RollBackItem,
       ReserveItem, PersistOrder, CountReserved, OpenUrl, CallGateway, ScheduleExpire,
       DeleteOrder, ReleaseHold, DropUserCounters, DropTypeCounters, AbortSettle,
       CloseOrder, CommitSuccess, ForgetHold, Recheck, CommitVerdict, EnqueueIssue,
       TallyTickets, CommitIssue, AckIssue, At
  <2>2. PICK r \in Running \cup {Idle}, w \in Status, m \in Nat :
          /\ h' = [h EXCEPT ![s] = r]
          /\ status' = [status EXCEPT ![h[s].order] = w]
          /\ UNCHANGED phase
          /\ r # Idle => r.order = h[s].order
          /\ r # Idle /\ EarlyAt(r) => EarlyAt(h[s]) /\ w = status[h[s].order]
    BY <1>1, HandlerAdvance DEF Advance, Advances
  <2>3. h[s].order \in Order
    BY <2>1, BusySlot DEF TypeOK
  <2>4. \A o \in Order : phase'[o] = "new" => status'[o] = "NONE" /\ ~ Busy(o)'
    BY <2>1, <2>2, <2>3 DEF Fresh, Busy, TypeOK, HandlerTypeOK, RowTypeOK
  <2>5. ASSUME NEW x \in Slot, h'[x] # Idle, EarlyAt(h'[x])
        PROVE  /\ status'[h'[x].order] = "NONE"
               /\ \A y \in Slot : h'[y] # Idle /\ h'[y].order = h'[x].order => y = x
    <3>1. h[x] # Idle /\ h[x].order = h'[x].order /\ EarlyAt(h[x])
      BY <2>1, <2>2, <2>5 DEF TypeOK, HandlerTypeOK
    <3>2. \A y \in Slot : h'[y] # Idle => h[y] # Idle /\ h[y].order = h'[y].order
      BY <2>1, <2>2 DEF TypeOK, HandlerTypeOK
    <3>3. h[s].order = h[x].order => x = s
      BY <2>1, <3>1 DEF Fresh
    <3>4. status'[h[x].order] = "NONE"
      BY <2>2, <2>3, <2>5, <3>1, <3>3, BusySlot DEF Fresh, TypeOK, HandlerTypeOK, RowTypeOK
    <3> QED
      BY <3>1, <3>2, <3>4 DEF Fresh
  <2> QED
    BY <2>4, <2>5 DEF Fresh
<1>2. ASSUME NEW s \in Slot, Crash(s) PROVE Fresh'
  BY <1>2, Crashed DEF Fresh, Busy, TypeOK, HandlerTypeOK
<1>3. ASSUME NEW s \in Slot, NEW o \in Order, NEW r \in Running, Begun(s, o, r),
             UNCHANGED status
      PROVE  Fresh'
  <2>1. \A x \in Slot : h'[x] = IF x = s THEN r ELSE h[x]
    BY <1>3 DEF Begun, TypeOK, HandlerTypeOK
  <2>2. CASE phase[o] = "new" /\ phase' = [phase EXCEPT ![o] = "open"]
    <3>1. \A x \in Order : phase'[x] = "new" => x # o /\ phase[x] = "new"
      BY <2>2 DEF TypeOK, HandlerTypeOK
    <3>2. status[o] = "NONE" /\ ~ Busy(o)
      BY <2>2 DEF Fresh
    <3> QED
      BY <1>3, <2>1, <3>1, <3>2 DEF Fresh, Busy, Begun
  <2>3. CASE /\ UNCHANGED phase /\ ~ EarlyAt(r)
             /\ status[o] \in {"PENDING_PAYMENT", "PAID"}
    BY <1>3, <2>1, <2>3 DEF Fresh, Busy, Begun
  <2> QED
    BY <1>3, <2>2, <2>3 DEF Begun
<1>4. ASSUME NEW s \in Slot, NEW o \in Order, Start(s, o) PROVE Fresh'
  <2>1. CASE UNCHANGED <<h, phase, status>>
    BY <2>1 DEF Fresh, Busy
  <2> QED
    BY <1>3, <1>4, <2>1, Started
<1>5. CASE UNCHANGED <<h, status>> /\ \A o \in Order : phase'[o] = "new" <=> phase[o] = "new"
  BY <1>5 DEF Fresh, Busy
<1> QED
  BY <1>1, <1>2, <1>4, <1>5, Quiet DEF Next

-----------------------------------------------------------------------------
(* One handler at a time on some of the orders, whatever happens on the rest *)

(* No two handlers work at the same time on an order of D. *)
Alone(D) ==
    \A s, x \in Slot : h[s] # Idle /\ h[x] # Idle /\ h[s].order = h[x].order
                         /\ h[s].order \in D => s = x

Lone(D) ==
    /\ Alone(D)
    /\ \A o \in D : PaidIfIssued(status[o], issued[o])
    /\ \A s \in Slot : h[s] # Idle /\ h[s].order \in D
         => StageAt(h[s], status[h[s].order], issued[h[s].order])

LEMMA ContinueBusy ==
    ASSUME NEW s \in Slot, Continue(s)
    PROVE  h[s] # Idle
BY DEF Continue, Create, Settle, ReadSeeds, SeedKeys, JudgeReplies, RollBackItem,
   ReserveItem, PersistOrder, CountReserved, OpenUrl, CallGateway, ScheduleExpire,
   DeleteOrder, ReleaseHold, DropUserCounters, DropTypeCounters, AbortSettle,
   CloseOrder, CommitSuccess, ForgetHold, Recheck, CommitVerdict, EnqueueIssue,
   TallyTickets, CommitIssue, AckIssue, At

(* A step of a handler that is not on an order of D. *)
LEMMA LoneElsewhere ==
    ASSUME TypeOK, NEW D \in SUBSET Order, Lone(D), NEW s \in Slot, Continue(s),
           h[s].order \notin D
    PROVE  Lone(D)'
<1>1. h[s] # Idle /\ h[s].order \in Order
  BY ContinueBusy, BusySlot DEF TypeOK
<1>2. PICK r \in Running \cup {Idle}, w \in Status, m \in Nat :
        /\ h' = [h EXCEPT ![s] = r]
        /\ status' = [status EXCEPT ![h[s].order] = w]
        /\ issued' = [issued EXCEPT ![h[s].order] = m]
        /\ r # Idle => r.order = h[s].order
  BY <1>1, HandlerAdvance DEF Advance, Advances
<1>3. \A x \in Slot : h'[x] = IF x = s THEN r ELSE h[x]
  BY <1>2 DEF TypeOK, HandlerTypeOK
<1>4. \A x \in D : status'[x] = status[x] /\ issued'[x] = issued[x]
  BY <1>2 DEF TypeOK, RowTypeOK, CounterTypeOK
<1>5. \A x \in Slot : h'[x] # Idle /\ h'[x].order \in D => x # s /\ h'[x] = h[x]
  BY <1>2, <1>3
<1>6. Alone(D)'
  BY <1>5 DEF Lone, Alone
<1> QED
  BY <1>4, <1>5, <1>6 DEF Lone

(* A handler's step while nobody else works on its order. *)
LEMMA LoneContinue ==
    ASSUME TypeOK, NEW D \in SUBSET Order, Lone(D), NEW s \in Slot, Continue(s),
           h[s].order \in D
    PROVE  /\ Lone(D)'
           /\ Stranded' \subseteq Stranded
<1>1. h[s] # Idle /\ h[s].order \in Order
  BY ContinueBusy, BusySlot DEF TypeOK
<1> DEFINE o == h[s].order
<1>2. PICK r \in Running \cup {Idle}, w \in Status, m \in Nat :
        /\ h' = [h EXCEPT ![s] = r]
        /\ status' = [status EXCEPT ![o] = w]
        /\ issued' = [issued EXCEPT ![o] = m]
        /\ \A x \in Order \ {o} : issueJobs'[x] = issueJobs[x]
        /\ Advances(h[s], status[o], issued[o], r, w, m)
  BY HandlerAdvance DEF Advance
<1>3. /\ r # Idle => r.order = o /\ StageAt(r, w, m)
      /\ PaidIfIssued(w, m)
      /\ (r = Idle /\ w = "PAID" /\ m = 0 => issueJobs'[o] > 0)
  BY <1>1, <1>2 DEF Advances, Lone
<1>4. \A x \in Slot : h'[x] = IF x = s THEN r ELSE h[x]
  BY <1>2 DEF TypeOK, HandlerTypeOK
<1>5. \A x \in Order : /\ status'[x] = IF x = o THEN w ELSE status[x]
                       /\ issued'[x] = IF x = o THEN m ELSE issued[x]
  BY <1>2 DEF TypeOK, RowTypeOK, CounterTypeOK
<1>6. \A x \in Slot : h[x] # Idle => h[x].order \in Order
  BY BusySlot DEF TypeOK
<1>7. Lone(D)'
  <2>1. Alone(D)'
    BY <1>1, <1>3, <1>4 DEF Lone, Alone
  <2>2. \A x \in D : PaidIfIssued(status'[x], issued'[x])
    BY <1>3, <1>5 DEF Lone
  <2>3. ASSUME NEW x \in Slot, h'[x] # Idle, h'[x].order \in D
        PROVE  StageAt(h'[x], status'[h'[x].order], issued'[h'[x].order])
    <3>1. CASE x = s
      BY <1>1, <1>3, <1>4, <1>5, <2>3, <3>1
    <3>2. CASE x # s
      <4>1. h'[x] = h[x] /\ h[x] # Idle /\ h[x].order \in Order /\ h[x].order # o
        BY <1>1, <1>4, <1>6, <2>3, <3>2 DEF Lone, Alone
      <4> QED
        BY <1>5, <2>3, <4>1 DEF Lone
    <3> QED
      BY <3>1, <3>2
  <2> QED
    BY <2>1, <2>2, <2>3 DEF Lone
<1>8. ASSUME NEW x \in Order, x \in Stranded'
      PROVE  x \in Stranded
  <2>1. CASE x = o
    <3>1. status'[o] = "PAID" /\ issued'[o] = 0 /\ issueJobs'[o] = 0 /\ h'[s] = Idle
      BY <1>3, <1>4, <1>8, <2>1 DEF Stranded, Busy
    <3>2. issueJobs'[o] > 0
      BY <1>1, <1>3, <1>4, <1>5, <3>1
    <3>3. ~ (0 > 0)
      OBVIOUS
    <3> QED
      BY <3>1, <3>2, <3>3
  <2>2. CASE x # o
    BY <1>1, <1>2, <1>4, <1>5, <1>8, <2>2 DEF Stranded, Busy
  <2> QED
    BY <2>1, <2>2
<1>9. Stranded' \subseteq Stranded
  BY <1>8 DEF Stranded
<1> QED
  BY <1>7, <1>9

(* A call, job or cron run that begins and is alone on its order. *)
LEMMA LoneStart ==
    ASSUME TypeOK, Fresh, NEW D \in SUBSET Order, Lone(D), Alone(D)',
           NEW s \in Slot, NEW o \in Order, Start(s, o)
    PROVE  /\ Lone(D)'
           /\ Cart(o) # {} => Stranded' \subseteq Stranded
<1>1. /\ UNCHANGED <<status, issued>>
      /\ \A x \in Order \ {o} : issueJobs'[x] = issueJobs[x]
  BY Started
<1>2. CASE UNCHANGED h /\ (UNCHANGED issueJobs \/ status[o] # "PAID" \/ Cart(o) = {})
  BY <1>1, <1>2 DEF Lone, Alone, Stranded, Busy
<1>3. ASSUME NEW r \in Running, Begun(s, o, r)
      PROVE  Lone(D)' /\ (Stranded' \subseteq Stranded)
  <2>1. \A x \in Slot : h'[x] = IF x = s THEN r ELSE h[x]
    BY <1>3 DEF Begun, TypeOK, HandlerTypeOK
  <2>2. StageAt(r, status[o], issued[o]) \/ o \notin D
    <3>1. CASE r.op = "create" /\ r.at = "ensure" /\ phase[o] = "new"
      BY <1>3, <3>1 DEF Fresh, Begun, StageAt, StatusAt, EarlyAt
    <3>2. CASE /\ StatusAt(r) = {status[o]}
               /\ ~ (r.op = "issue" /\ r.at \in {"commit", "ack"})
               /\ ~ (r.op = "success" /\ r.at = "forget")
      BY <1>3, <3>2 DEF Begun, StageAt
    <3> QED
      BY <1>3, <3>1, <3>2 DEF Begun
  <2>3. r.order = o /\ r # Idle
    BY <1>3 DEF Begun
  <2>4. Lone(D)'
    BY <1>1, <2>1, <2>2, <2>3 DEF Lone
  <2>5. ASSUME NEW x \in Order, x \in Stranded' PROVE x \in Stranded
    BY <1>1, <1>3, <2>1, <2>3, <2>5 DEF Stranded, Busy, Begun
  <2> QED
    BY <2>4, <2>5 DEF Stranded
<1> QED
  BY <1>1, <1>2, <1>3, Started

LEMMA LoneCrash ==
    ASSUME TypeOK, NEW D \in SUBSET Order, Lone(D), NEW s \in Slot, Crash(s)
    PROVE  /\ Lone(D)'
           /\ Stranded' \subseteq Stranded \cup {h[s].order}
           /\ crashes' = crashes + 1
<1>1. /\ h[s] # Idle /\ h' = [h EXCEPT ![s] = Idle]
      /\ UNCHANGED <<status, issued>> /\ crashes' = crashes + 1
      /\ \A x \in Order \ {h[s].order} : issueJobs'[x] = issueJobs[x]
  BY Crashed
<1>2. \A x \in Slot : h'[x] = IF x = s THEN Idle ELSE h[x]
  BY <1>1 DEF TypeOK, HandlerTypeOK
<1>3. Lone(D)'
  BY <1>1, <1>2 DEF Lone, Alone
<1>4. Stranded' \subseteq Stranded \cup {h[s].order}
  BY <1>1, <1>2 DEF Stranded, Busy
<1> QED
  BY <1>1, <1>3, <1>4

LEMMA LoneQuiet ==
    ASSUME NEW D \in SUBSET Order, Lone(D), UNCHANGED <<h, status, issued, issueJobs>>
    PROVE  Lone(D)' /\ Stranded' = Stranded
BY DEF Lone, Alone, Stranded, Busy

LEMMA LoneStep ==
    ASSUME TypeOK, Fresh, NEW D \in SUBSET Order, Lone(D), Alone(D)', [Next]_vars
    PROVE  Lone(D)'
BY LoneElsewhere, LoneContinue, LoneStart, LoneCrash, LoneQuiet, Quiet DEF Next

LEMMA LoneInit == ASSUME NEW D \in SUBSET Order PROVE Init => Fresh /\ Lone(D)
BY DEF Init, Fresh, Lone, Alone, Busy, PaidIfIssued

(* PerOrder = 1: what begins on an order begins alone. *)
LEMMA OneEachOrder ==
    ASSUME TypeOK, Alone(Order), PerOrder = 1, [Next]_vars
    PROVE  Alone(Order)'
<1>1. ASSUME NEW s \in Slot, Continue(s) PROVE Alone(Order)'
  <2>1. PICK r \in Running \cup {Idle} :
          h' = [h EXCEPT ![s] = r] /\ (r # Idle => r.order = h[s].order)
    BY <1>1, HandlerAdvance DEF Advance, Advances
  <2> QED
    BY <1>1, <2>1, ContinueBusy DEF Alone, TypeOK, HandlerTypeOK
<1>2. ASSUME NEW s \in Slot, Crash(s) PROVE Alone(Order)'
  BY <1>2, Crashed DEF Alone, TypeOK, HandlerTypeOK
<1>3. ASSUME NEW s \in Slot, NEW o \in Order, NEW r \in Running, Begun(s, o, r)
      PROVE  Alone(Order)'
  <2>1. \A x \in Slot : h'[x] = IF x = s THEN r ELSE h[x]
    BY <1>3 DEF Begun, TypeOK, HandlerTypeOK
  <2>2. \A x \in Slot : ~ (h[x] # Idle /\ h[x].order = o)
    <3> DEFINE S == {x \in Slot : h[x] # Idle /\ h[x].order = o}
    <3>1. IsFiniteSet(S)
      BY LifecycleAssumption, FS_Subset DEF LifecycleAssumption
    <3>2. Cardinality(S) < 1 /\ Cardinality(S) \in Nat
      BY <1>3, <3>1, FS_CardinalityType DEF Begun
    <3>3. Cardinality(S) = 0
      BY <3>2
    <3>4. S = {}
      BY <3>1, <3>3, FS_EmptySet
    <3> QED
      BY <3>4
  <2> QED
    BY <1>3, <2>1, <2>2 DEF Alone, Begun
<1>4. ASSUME NEW s \in Slot, NEW o \in Order, Start(s, o) PROVE Alone(Order)'
  <2>1. CASE UNCHANGED h
    BY <2>1 DEF Alone
  <2> QED
    BY <1>3, <1>4, <2>1, Started
<1>5. CASE UNCHANGED h
  BY <1>5 DEF Alone
<1> QED
  BY <1>1, <1>2, <1>4, <1>5, Quiet DEF Next

-----------------------------------------------------------------------------
(* Handlers that saw an order waiting for payment and are about to decide it *)

DecidingAt(a) ==
    /\ a # Idle
    /\ \/ a.op \in {"cancel", "expire"}
       \/ a.at = "commit" /\ a.op \in {"success"} \cup DOMAIN StatusOf

(* At no time do two handlers both mean to decide order o. *)
LoneDecider(o) ==
    \A s, x \in Slot : /\ DecidingAt(h[s]) /\ h[s].order = o
                       /\ DecidingAt(h[x]) /\ h[x].order = o => s = x

(* What a step of the handler in slot s decides, and who decides next. *)
LEMMA DecidingContinue ==
    ASSUME TypeOK, NEW s \in Slot, Continue(s), Cart(h[s].order) # {}
    PROVE  /\ DecidingAt(h'[s]) => /\ UNCHANGED status
                                   /\ DecidingAt(h[s]) \/ status[h[s].order] = "PENDING_PAYMENT"
           /\ \/ UNCHANGED status
              \/ DecidingAt(h[s])
              \/ EarlyAt(h[s]) /\ status'[h[s].order] = "PENDING_PAYMENT"
<1> DEFINE o == h[s].order
<1>1. h[s] # Idle
  BY ContinueBusy
<1>2. h[s] \in Running /\ h \in [Slot -> Running \cup {Idle}] /\ o \in Order
  BY <1>1, BusySlot DEF TypeOK, HandlerTypeOK
<1>3. CASE ReadSeeds(s) \/ SeedKeys(s) \/ JudgeReplies(s) \/ CountReserved(s) \/ OpenUrl(s)
           \/ CallGateway(s)
  BY <1>2, <1>3 DEF ReadSeeds, SeedKeys, JudgeReplies, CountReserved, OpenUrl, CallGateway,
     At, Go, End, Running, DecidingAt, StatusOf, rowVars
<1>4. ASSUME NEW t \in TicketType, ReserveItem(s, t)
      PROVE  UNCHANGED <<status, h>>
  BY <1>4 DEF ReserveItem, rowVars
<1>5. CASE RollBackItem(s)
  BY <1>2, <1>5 DEF RollBackItem, End, DecidingAt, rowVars
<1>6. CASE PersistOrder(s)
  BY <1>2, <1>6 DEF PersistOrder, At, Go, Running, DecidingAt, StatusOf, EarlyAt, rowVars,
     TypeOK, RowTypeOK
<1>7. CASE ScheduleExpire(s) \/ AbortSettle(s) \/ ForgetHold(s) \/ EnqueueIssue(s) \/ AckIssue(s)
  BY <1>2, <1>7 DEF ScheduleExpire, AbortSettle, ForgetHold, EnqueueIssue, AckIssue, End,
     DecidingAt, rowVars
<1>8. CASE DeleteOrder(s)
  <2>1. UNCHANGED status
    BY <1>2, <1>8 DEF DeleteOrder, TypeOK, RowTypeOK
  <2> QED
    BY <1>2, <1>8, <2>1 DEF DeleteOrder, End, DecidingAt
<1>9. CASE ReleaseHold(s)
  <2>1. AfterRelease[h[s].op] \in {"counters", "delete", "end"} /\ h[s].at = "release"
    BY <1>2, <1>9 DEF AfterRelease, Running, ReleaseHold
  <2> QED
    BY <1>2, <1>9, <2>1 DEF ReleaseHold, End, Running, DecidingAt, StatusOf, rowVars
<1>10. CASE DropUserCounters(s) \/ DropTypeCounters(s)
  BY <1>2, <1>10 DEF DropUserCounters, DropTypeCounters, Running, DecidingAt, rowVars
<1>11. CASE CloseOrder(s)
  BY <1>2, <1>11 DEF CloseOrder, Go, End, Running, DecidingAt
<1>12. CASE CommitSuccess(s)
  BY <1>2, <1>12 DEF CommitSuccess, At, Go, Running, DecidingAt, StatusOf
<1>13. CASE Recheck(s)
  BY <1>2, <1>13 DEF Recheck, Go, Running, DecidingAt, rowVars
<1>14. CASE CommitVerdict(s)
  BY <1>2, <1>14 DEF CommitVerdict, Go, Running, DecidingAt, StatusOf
<1>15. CASE TallyTickets(s) \/ CommitIssue(s)
  BY <1>2, <1>15 DEF TallyTickets, CommitIssue, At, Go, End, Running, DecidingAt, StatusOf,
     rowVars
<1> QED
  BY <1>3, <1>4, <1>5, <1>6, <1>7, <1>8, <1>9, <1>10, <1>11, <1>12, <1>13, <1>14, <1>15
     DEF Continue, Create, Settle

(* A handler that begins found the status it acts on. *)
LEMMA DecidingStart ==
    ASSUME TypeOK, NEW s \in Slot, NEW o \in Order, Start(s, o)
    PROVE  /\ UNCHANGED status
           /\ \A x \in Slot : DecidingAt(h'[x]) =>
                \/ h'[x] = h[x]
                \/ h'[x].order = o /\ status[o] = "PENDING_PAYMENT"
<1>1. UNCHANGED status
  BY Started
<1>2. ASSUME NEW r \in Running, Begun(s, o, r), NEW x \in Slot, DecidingAt(h'[x])
      PROVE  \/ h'[x] = h[x]
             \/ h'[x].order = o /\ status[o] = "PENDING_PAYMENT"
  <2>1. h'[x] = IF x = s THEN r ELSE h[x]
    BY <1>2 DEF Begun, TypeOK, HandlerTypeOK
  <2>2. CASE x = s
    <3>1. r.op # "create" /\ r.op # "issue" /\ (r.at = "forget" => r.op # "success")
      BY <1>2, <2>1, <2>2 DEF DecidingAt, Begun, StatusOf
    <3>2. StatusAt(r) = {status[o]} /\ ~ EarlyAt(r) /\ r.order = o
      BY <1>2, <3>1 DEF Begun
    <3>3. StatusAt(r) = {"PENDING_PAYMENT"}
      BY <1>2, <2>1, <2>2, <3>1, <3>2 DEF StatusAt, DecidingAt, StatusOf
    <3> QED
      BY <2>1, <2>2, <3>2, <3>3
  <2> QED
    BY <2>1, <2>2
<1> QED
  BY <1>1, <1>2, Started

(***************************************************************************)
(* Who is about to decide an order of D found it undecided, and nobody has *)
(* decided it since.                                                       *)
(***************************************************************************)
Open(D) ==
    \A s \in Slot : DecidingAt(h[s]) /\ h[s].order \in D => status[h[s].order] \notin Decided

LEMMA OpenStep ==
    ASSUME TypeOK, Fresh, NEW D \in SUBSET Order, Open(D), \A o \in D : LoneDecider(o),
           \A o \in Order : Cart(o) # {}, [Next]_vars
    PROVE  /\ Open(D)'
           /\ \A o \in D : status[o] \in Decided => status'[o] = status[o]
<1>1. ASSUME NEW s \in Slot, Continue(s)
      PROVE  /\ Open(D)'
             /\ \A o \in D : status[o] \in Decided => status'[o] = status[o]
  <2> DEFINE o == h[s].order
  <2>1. h[s] # Idle /\ o \in Order
    BY <1>1, ContinueBusy, BusySlot DEF TypeOK
  <2>2. PICK r \in Running \cup {Idle}, w \in Status :
          /\ h' = [h EXCEPT ![s] = r]
          /\ status' = [status EXCEPT ![o] = w]
          /\ r # Idle => r.order = o
    BY <1>1, HandlerAdvance DEF Advance, Advances
  <2>3. \A x \in Slot : h'[x] = IF x = s THEN r ELSE h[x]
    BY <2>2 DEF TypeOK, HandlerTypeOK
  <2>4. \A x \in Order : status'[x] = IF x = o THEN w ELSE status[x]
    BY <2>2 DEF TypeOK, RowTypeOK
  <2>5. /\ DecidingAt(r) => /\ UNCHANGED status
                            /\ DecidingAt(h[s]) \/ status[o] = "PENDING_PAYMENT"
        /\ \/ UNCHANGED status
           \/ DecidingAt(h[s])
           \/ EarlyAt(h[s]) /\ w = "PENDING_PAYMENT"
    BY <1>1, <2>1, <2>3, <2>4, DecidingContinue
  <2>6. EarlyAt(h[s]) => status[o] = "NONE"
    BY <2>1 DEF Fresh
  <2>7. "NONE" \notin Decided /\ "PENDING_PAYMENT" \notin Decided
    BY DEF Decided
  <2>8. \A x \in D : status[x] \in Decided => status'[x] = status[x]
    BY <2>1, <2>4, <2>5, <2>6, <2>7 DEF Open
  <2>9. ASSUME NEW x \in Slot, DecidingAt(h'[x]), h'[x].order \in D
        PROVE  status'[h'[x].order] \notin Decided
    <3>1. CASE x = s
      BY <2>1, <2>2, <2>3, <2>5, <2>7, <2>9, <3>1 DEF Open, DecidingAt
    <3>2. CASE x # s /\ h[x].order = o
      <4>1. h'[x] = h[x] /\ DecidingAt(h[x]) /\ o \in D
        BY <2>3, <2>9, <3>2
      <4>2. ~ DecidingAt(h[s])
        BY <3>2, <4>1 DEF LoneDecider
      <4> QED
        BY <2>1, <2>4, <2>5, <2>7, <3>2, <4>1, <4>2 DEF Open
    <3>3. CASE x # s /\ h[x].order # o
      BY <2>3, <2>4, <2>9, <3>3 DEF Open
    <3> QED
      BY <3>1, <3>2, <3>3
  <2> QED
    BY <2>8, <2>9 DEF Open
<1>2. ASSUME NEW s \in Slot, Crash(s) PROVE Open(D)' /\ UNCHANGED status
  BY <1>2, Crashed DEF Open, DecidingAt, TypeOK, HandlerTypeOK
<1>3. ASSUME NEW s \in Slot, NEW o \in Order, Start(s, o) PROVE Open(D)' /\ UNCHANGED status
  BY <1>3, DecidingStart DEF Open, Decided
<1>4. CASE UNCHANGED <<h, status>>
  BY <1>4 DEF Open, DecidingAt
<1> QED
  BY <1>1, <1>2, <1>3, <1>4, Quiet DEF Next

LEMMA OpenInit == ASSUME NEW D \in SUBSET Order PROVE Init => Fresh /\ Open(D)
<1>1. ASSUME Init PROVE Fresh
  BY <1>1, LoneInit
<1> QED
  BY <1>1 DEF Init, Open, DecidingAt

(***************************************************************************)
(* Whatever else overlaps, fails, stops or is delivered again, for any     *)
(* number of orders, tickets and handlers: an order of D, at each moment   *)
(* wanted by at most one handler that has seen it waiting for payment and  *)
(* is about to decide it, is decided once.  The other orders may be        *)
(* decided by any number of handlers at a time.                            *)
(***************************************************************************)
THEOREM DecidedApart ==
    ASSUME NEW D \in SUBSET Order, \A o \in Order : Cart(o) # {}
    PROVE  Spec /\ [](\A o \in D : LoneDecider(o))
             => [][\A o \in D : status[o] \in Decided => status'[o] = status[o]]_vars
<1> DEFINE Apart == \A o \in D : LoneDecider(o)
           Once  == \A o \in D : status[o] \in Decided => status'[o] = status[o]
<1>1. Init => Fresh /\ Open(D)
  BY OpenInit
<1>2. TypeOK /\ Fresh /\ Open(D) /\ Apart /\ [Next]_vars => Fresh' /\ Open(D)' /\ [Once]_vars
  BY FreshStep, OpenStep
<1> QED
  BY <1>1, <1>2, TypeCorrect, PTL DEF Spec

(***************************************************************************)
(* Two overlapping deciders of one order (a second webhook, the cron, the  *)
(* expire job, a cancellation) are the only way to decide an order twice.  *)
(***************************************************************************)
THEOREM DecidedOnce ==
    ASSUME \A o \in Order : Cart(o) # {}
    PROVE  Spec /\ [](\A o \in Order : LoneDecider(o)) => DecisionsFinal
<1> DEFINE Apart == \A o \in Order : LoneDecider(o)
           Once  == \A o \in Order : status[o] \in Decided => status'[o] = status[o]
<1>1. Init => Fresh /\ Open(Order)
  BY OpenInit
<1>2. TypeOK /\ Fresh /\ Open(Order) /\ Apart /\ [Next]_vars
        => Fresh' /\ Open(Order)' /\ [Once]_vars
  BY FreshStep, OpenStep
<1> QED
  BY <1>1, <1>2, TypeCorrect, PTL DEF Spec, DecisionsFinal

LEMMA StrandedFinite == IsFiniteSet(Stranded) /\ IsFiniteSet(Stranded')
<1>1. Stranded \subseteq Order /\ Stranded' \subseteq Order
  BY DEF Stranded
<1> QED
  BY <1>1, LifecycleAssumption, FS_Subset DEF LifecycleAssumption

LEMMA StrandedStep ==
    ASSUME TypeOK, Fresh, Lone(Order), Alone(Order)', \A o \in Order : Cart(o) # {},
           Cardinality(Stranded) <= crashes, [Next]_vars
    PROVE  Cardinality(Stranded') <= crashes'
<1>1. /\ Cardinality(Stranded) \in Nat /\ Cardinality(Stranded') \in Nat
      /\ crashes \in Nat
  BY StrandedFinite, FS_CardinalityType DEF TypeOK, HandlerTypeOK
<1>2. ASSUME Stranded' \subseteq Stranded
      PROVE  Cardinality(Stranded') <= Cardinality(Stranded)
  BY <1>2, StrandedFinite, FS_Subset
<1>3. ASSUME NEW s \in Slot, Crash(s) PROVE Cardinality(Stranded') <= crashes'
  <2> DEFINE S == Stranded \cup {h[s].order}
  <2>1. Stranded' \subseteq S /\ crashes' = crashes + 1
    BY <1>3, LoneCrash
  <2>2. IsFiniteSet(S) /\ Cardinality(S) <= Cardinality(Stranded) + 1
    <3> DEFINE o == h[s].order
    <3>1. IsFiniteSet(Stranded)
      BY StrandedFinite
    <3> HIDE DEF o
    <3>2. /\ IsFiniteSet(Stranded \cup {o})
          /\ Cardinality(Stranded \cup {o})
               = IF o \in Stranded THEN Cardinality(Stranded) ELSE Cardinality(Stranded) + 1
      BY ONLY <3>1, FS_AddElement
    <3> QED
      BY <1>1, <3>2 DEF o
  <2>3. Cardinality(Stranded') <= Cardinality(S) /\ Cardinality(S) \in Nat
    BY <2>1, <2>2, FS_Subset, FS_CardinalityType
  <2> HIDE DEF S
  <2> QED
    BY <1>1, <2>1, <2>2, <2>3
<1>4. ASSUME NEW s \in Slot, Continue(s) PROVE Cardinality(Stranded') <= crashes'
  <2>1. Stranded' \subseteq Stranded
    BY <1>4, LoneContinue, ContinueBusy, BusySlot DEF TypeOK
  <2>2. UNCHANGED crashes
    BY <1>4 DEF Continue, Create, Settle, ReadSeeds, SeedKeys, JudgeReplies, RollBackItem,
       ReserveItem, PersistOrder, CountReserved, OpenUrl, CallGateway, ScheduleExpire,
       DeleteOrder, ReleaseHold, DropUserCounters, DropTypeCounters, AbortSettle,
       CloseOrder, CommitSuccess, ForgetHold, Recheck, CommitVerdict, EnqueueIssue,
       TallyTickets, CommitIssue, AckIssue, budget
  <2> QED
    BY <1>1, <1>2, <2>1, <2>2
<1>5. ASSUME NEW s \in Slot, NEW o \in Order, Start(s, o)
      PROVE  Cardinality(Stranded') <= crashes'
  <2>1. Stranded' \subseteq Stranded
    BY <1>5, LoneStart
  <2>2. UNCHANGED crashes
    BY <1>5 DEF Start, Cron, StartCreate, StartRepay, StartCancel, StartExpire,
       StartCron, StartIssue, StartWebhook, budget
  <2> QED
    BY <1>1, <1>2, <2>1, <2>2
<1>6. CASE UNCHANGED <<h, status, issued, issueJobs, crashes>>
  BY <1>6, LoneQuiet
<1> QED
  BY <1>3, <1>4, <1>5, <1>6, Quiet DEF Next

(***************************************************************************)
(* Cron and ticket-issue job under crashes and redelivery, one handler at  *)
(* a time on an order: an order's tickets are created once, and each stop  *)
(* strands at most one paid order.  The job of an order without items      *)
(* fails for good, so requests must ask for something.                     *)
(***************************************************************************)
THEOREM IssuedOnceHolds ==
    ASSUME PerOrder = 1, \A o \in Order : Cart(o) # {}
    PROVE  Spec => []IssuedOnce
<1> DEFINE Counted == Cardinality(Stranded) <= crashes
<1>1. Init => Fresh /\ Lone(Order) /\ Counted
  <2>1. Init => Stranded = {} /\ crashes = 0
    BY DEF Init, Stranded
  <2> QED
    BY <2>1, LoneInit, FS_EmptySet
<1>2. TypeOK /\ Fresh /\ Lone(Order) /\ Counted /\ [Next]_vars
        => Fresh' /\ Lone(Order)' /\ Counted'
  <2>1. Lone(Order) => Alone(Order)
    BY DEF Lone
  <2> QED
    BY <2>1, FreshStep, OneEachOrder, LoneStep, StrandedStep
<1>3. Lone(Order) /\ Counted => IssuedOnce
  BY DEF Lone, PaidIfIssued, IssuedOnce
<1> QED
  BY <1>1, <1>2, <1>3, TypeCorrect, PTL DEF Spec

-----------------------------------------------------------------------------
(* Which reservation keys an order's handlers know of *)

OneType(o) == \A t, u \in Cart(o) : t = u
HeldIn(K, o) == \E k \in K : k.order = o

(***************************************************************************)
(* What a handler that stands at a.at knows of the key of its order, if K  *)
(* are the keys and p the replies of the reserve script to its request.    *)
(***************************************************************************)
HeldAt(a, K, p) ==
    LET o == a.order IN
    /\ a.op = "undoPersist" => a.at = "release"
    /\ a.op = "create" /\ a.at \in {"ensure", "seed"} => ~ HeldIn(K, o) /\ p = NoReply
    /\ a.op = "create" /\ a.at = "reserve" =>
         \A t \in Cart(o) : p[t] # "back" /\ (HoldOf(o, t) \in K <=> p[t] = "ok")
    /\ a.op = "create" /\ a.at = "rollback" =>
         /\ \E t \in Cart(o) : p[t] = "no"
         /\ \A t \in Cart(o) : HoldOf(o, t) \in K => p[t] = "ok"
    /\ ~ (a.op = "create" /\ a.at \in {"ensure", "seed", "reserve", "rollback"}) => OneType(o)
    /\ a.at \in {"counters", "delete"} => ~ HeldIn(K, o)

OneEach(K) == \A k, l \in K : k.order = l.order => k = l
OfCart(K)  == \A k \in K : \E t \in Cart(k.order) : k = HoldOf(k.order, t)

HoldsKnown ==
    /\ OneEach(reservation) /\ OfCart(reservation)
    /\ \A o \in Order : phase[o] = "new" => ~ HeldIn(reservation, o) /\ reply[o] = NoReply
    /\ \A o \in Order : status[o] # "NONE" => OneType(o)
    /\ \A s \in Slot : h[s] # Idle => HeldAt(h[s], reservation, reply[h[s].order])

(* K and L have the same keys but for those of order o. *)
SameBut(K, L, o) == \A k : k.order # o => (k \in K <=> k \in L)

(* A handler's step on the key of its order alone. *)
LEMMA HeldFrame ==
    ASSUME TypeOK, Fresh, HoldsKnown, NEW s \in Slot, h[s] # Idle,
           NEW o \in Order, h[s].order = o,
           NEW r \in Running \cup {Idle}, h' = [h EXCEPT ![s] = r],
           r # Idle => r.order = o /\ HeldAt(r, reservation', reply'[o]),
           UNCHANGED phase,
           \A x \in Order \ {o} : reply'[x] = reply[x] /\ status'[x] = status[x],
           SameBut(reservation, reservation', o),
           EarlyAt(h[s]) \/ reservation' \subseteq reservation,
           OneEach(reservation'), OfCart(reservation'),
           status'[o] # "NONE" => OneType(o)
    PROVE  HoldsKnown'
<1>4. \A x \in Order : phase'[x] = "new" => ~ HeldIn(reservation', x) /\ reply'[x] = NoReply
  <2>1. \A x \in Order : phase[x] = "new" => x # o
    BY DEF Fresh, Busy
  <2> QED
    BY <2>1 DEF HoldsKnown, HeldIn, SameBut
<1>5. \A x \in Order : status'[x] # "NONE" => OneType(x)
  BY DEF HoldsKnown
<1>6. ASSUME NEW x \in Slot, h'[x] # Idle
      PROVE  HeldAt(h'[x], reservation', reply'[h'[x].order])
  <2>1. CASE x = s
    BY <1>6, <2>1 DEF TypeOK, HandlerTypeOK
  <2>2. CASE x # s
    <3>1. /\ h'[x] = h[x] /\ h[x] # Idle /\ h[x].order \in Order
          /\ HeldAt(h[x], reservation, reply[h[x].order])
      BY <1>6, <2>2, BusySlot DEF TypeOK, HandlerTypeOK, HoldsKnown
    <3> DEFINE a == h[x]
               y == h[x].order
    <3>2. CASE y # o
      <4>1. reply'[y] = reply[y]
        BY <3>1, <3>2
      <4>2. \A t : HoldOf(y, t) \in reservation' <=> HoldOf(y, t) \in reservation
        BY <3>2 DEF HoldOf, SameBut
      <4>3. HeldIn(reservation', y) <=> HeldIn(reservation, y)
        BY <3>2 DEF HeldIn, SameBut
      <4>4. HeldAt(a, reservation', reply'[y])
        BY <3>1, <4>1, <4>2, <4>3 DEF HeldAt
      <4> QED
        BY <3>1, <4>4
    <3>3. CASE y = o
      <4>1. ~ EarlyAt(a) /\ ~ EarlyAt(h[s])
        BY <2>2, <3>1, <3>3 DEF Fresh
      <4>2. HeldIn(reservation', y) => HeldIn(reservation, y)
        BY <4>1 DEF HeldIn
      <4>3. HeldAt(a, reservation', reply'[y])
        BY <3>1, <4>1, <4>2 DEF HeldAt, EarlyAt
      <4> QED
        BY <3>1, <4>3
    <3> QED
      BY <3>2, <3>3
  <2> QED
    BY <2>1, <2>2
<1> QED
  BY <1>4, <1>5, <1>6 DEF HoldsKnown

(* A step that changes neither keys nor replies. *)
LEMMA HeldStill ==
    ASSUME TypeOK, Fresh, HoldsKnown, NEW s \in Slot, h[s] # Idle,
           NEW r \in Running \cup {Idle}, h' = [h EXCEPT ![s] = r],
           r # Idle => /\ r.order = h[s].order
                       /\ HeldAt(r, reservation, reply[h[s].order]),
           UNCHANGED <<phase, reservation, reply>>,
           \A x \in Order \ {h[s].order} : status'[x] = status[x],
           status'[h[s].order] # "NONE" => OneType(h[s].order)
    PROVE  HoldsKnown'
<1>1. PICK o \in Order : h[s].order = o
  BY BusySlot DEF TypeOK
<1>2. SameBut(reservation, reservation', o) /\ OneEach(reservation') /\ OfCart(reservation')
  BY DEF SameBut, HoldsKnown
<1>3. /\ UNCHANGED phase /\ reservation' \subseteq reservation
      /\ \A x \in Order \ {o} : reply'[x] = reply[x] /\ status'[x] = status[x]
      /\ r # Idle => r.order = o /\ HeldAt(r, reservation', reply'[o])
      /\ status'[o] # "NONE" => OneType(o)
  BY <1>1
<1> QED
  BY <1>1, <1>2, <1>3, HeldFrame

(* What the release script and DEL leave of the keys. *)
LEMMA Released ==
    ASSUME NEW o \in Order, NEW K, NEW k \in K, k.order = o, OneEach(K), OfCart(K)
    PROVE  /\ OneEach(K \ {k}) /\ OfCart(K \ {k}) /\ SameBut(K, K \ {k}, o)
           /\ ~ HeldIn(K \ {k}, o)
BY DEF OneEach, OfCart, SameBut, HeldIn

LEMMA ReleaseAllEffect ==
    ASSUME HoldsKnown, NEW o \in Order, ReleaseAll(o)
    PROVE  /\ OneEach(reservation') /\ OfCart(reservation')
           /\ SameBut(reservation, reservation', o)
           /\ ~ HeldIn(reservation', o) /\ reservation' \subseteq reservation
<1>1. ASSUME NEW t \in Cart(o), Release(HoldOf(o, t))
      PROVE  /\ OneEach(reservation') /\ OfCart(reservation')
             /\ SameBut(reservation, reservation', o)
             /\ ~ HeldIn(reservation', o) /\ reservation' \subseteq reservation
  <2>1. /\ HoldOf(o, t) \in reservation /\ HoldOf(o, t).order = o
        /\ reservation' = reservation \ {HoldOf(o, t)}
    BY <1>1 DEF Release, HoldOf
  <2>2. OneEach(reservation) /\ OfCart(reservation)
    BY DEF HoldsKnown
  <2> QED
    BY <2>1, <2>2, Released
<1>2. CASE (\A t \in Cart(o) : HoldOf(o, t) \notin reservation) /\ UNCHANGED storeVars
  <2>1. reservation' = reservation
    BY <1>2 DEF storeVars
  <2>2. ~ HeldIn(reservation, o)
    BY <1>2 DEF HoldsKnown, OfCart, HeldIn
  <2> QED
    BY <2>1, <2>2 DEF HoldsKnown, SameBut
<1> QED
  BY <1>1, <1>2 DEF ReleaseAll

LEMMA ForgetEffect ==
    ASSUME HoldsKnown, NEW o \in Order, Forget(o)
    PROVE  /\ OneEach(reservation') /\ OfCart(reservation')
           /\ SameBut(reservation, reservation', o)
           /\ ~ HeldIn(reservation', o) /\ reservation' \subseteq reservation
<1>1. OneEach(reservation) /\ OfCart(reservation)
  BY DEF HoldsKnown
<1>2. CASE ~ HasHold(o) /\ UNCHANGED storeVars
  BY <1>1, <1>2 DEF HasHold, storeVars, HeldIn, SameBut
<1>3. ASSUME NEW k \in reservation, k.order = o, reservation' = reservation \ {k}
      PROVE  /\ OneEach(reservation') /\ OfCart(reservation')
             /\ SameBut(reservation, reservation', o)
             /\ ~ HeldIn(reservation', o) /\ reservation' \subseteq reservation
  BY <1>1, <1>3, Released
<1> QED
  BY <1>2, <1>3 DEF Forget

LEMMA SeedHeld ==
    ASSUME TypeOK, Fresh, HoldsKnown, NEW s \in Slot, ReadSeeds(s) \/ SeedKeys(s)
    PROVE  HoldsKnown'
<1>1. PICK o \in Order : h[s] # Idle /\ h[s].order = o
  BY BusySlot DEF ReadSeeds, SeedKeys, At, TypeOK
<1>2. /\ UNCHANGED <<phase, reservation, reply, status>>
      /\ status[o] # "NONE" => OneType(o)
      /\ HeldAt(h[s], reservation, reply[o])
  BY <1>1 DEF ReadSeeds, SeedKeys, Seed, storeVars, rowVars, HoldsKnown
<1>3. ASSUME NEW at \in {"seed", "reserve"}, h[s].op = "create", Go(s, at),
             \/ h[s].at = "ensure" /\ at = "seed"
             \/ h[s].at = "seed" /\ at = "reserve"
      PROVE  HoldsKnown'
  <2>1. at \in Step
    BY DEF Step
  <2>2. PICK r \in Running :
          /\ r # Idle /\ h' = [h EXCEPT ![s] = r]
          /\ r.op = "create" /\ r.order = o /\ r.at = at
    BY <1>1, <1>3, <2>1, HandlersTyped, WithAt
  <2>3. ~ HeldIn(reservation, o) /\ reply[o] = NoReply
    BY <1>1, <1>2, <1>3 DEF HeldAt
  <2>4. \A t \in Cart(o) : /\ NoReply[t] = "none"
                           /\ HoldOf(o, t) \notin reservation
    BY <2>3 DEF NoReply, Cart, HeldIn, HoldOf
  <2>5. HeldAt(r, reservation, reply[o])
    BY <1>3, <2>2, <2>3, <2>4 DEF HeldAt
  <2> QED
    BY <1>1, <1>2, <2>2, <2>5, HeldStill
<1> QED
  BY <1>3 DEF ReadSeeds, SeedKeys, At

LEMMA ReserveItemHeld ==
    ASSUME TypeOK, Fresh, HoldsKnown, NEW s \in Slot, NEW t \in TicketType, ReserveItem(s, t)
    PROVE  HoldsKnown'
<1>1. PICK o \in Order : h[s] # Idle /\ h[s].order = o /\ h[s] \in Running
  BY BusySlot DEF ReserveItem, At, TypeOK
<1>2. /\ h[s].op = "create" /\ h[s].at = "reserve" /\ t \in Cart(o) /\ reply[o][t] = "none"
      /\ UNCHANGED <<phase, status, h>> /\ h' = [h EXCEPT ![s] = h[s]]
      /\ status[o] # "NONE" => OneType(o)
      /\ OneEach(reservation) /\ OfCart(reservation)
      /\ HeldAt(h[s], reservation, reply[o])
  BY <1>1 DEF ReserveItem, At, Unanswered, rowVars, HoldsKnown, TypeOK, HandlerTypeOK
<1>9. \A u \in Cart(o) : /\ reply[o][u] # "back"
                         /\ HoldOf(o, u) \in reservation <=> reply[o][u] = "ok"
  BY <1>1, <1>2 DEF HeldAt
<1>3. HoldOf(o, t) \notin reservation
  BY <1>2, <1>9
<1>4. EarlyAt(h[s])
  BY <1>2 DEF EarlyAt
<1>5. \A u : HoldOf(o, u) = HoldOf(o, t) => u = t
  BY DEF HoldOf
<1>6. reply[o] \in [TicketType -> {"none", "ok", "no", "back"}] /\ Cart(o) \subseteq TicketType
  BY DEF TypeOK, LocalTypeOK, Cart
<1>7. CASE Reserve(HoldOf(o, t)) /\ reply' = [reply EXCEPT ![o][t] = "ok"]
  <2>1. reservation' = reservation \cup {HoldOf(o, t)} /\ ~ HeldIn(reservation, o)
    BY <1>7 DEF Reserve, Reservable, HasHold, HoldOf, HeldIn
  <2>2. HoldOf(o, t).order = o
    BY DEF HoldOf
  <2>3. /\ OneEach(reservation') /\ OfCart(reservation')
        /\ SameBut(reservation, reservation', o)
    BY <1>2, <2>1, <2>2 DEF OneEach, OfCart, SameBut, HeldIn
  <2>4. /\ \A x \in Order \ {o} : reply'[x] = reply[x]
        /\ reply'[o] = [reply[o] EXCEPT ![t] = "ok"]
    BY <1>7 DEF TypeOK, LocalTypeOK
  <2>5. \A u \in Cart(o) : /\ reply'[o][u] # "back"
                           /\ HoldOf(o, u) \in reservation' <=> reply'[o][u] = "ok"
    BY <1>2, <1>5, <1>6, <1>9, <2>1, <2>4
  <2>6. HeldAt(h[s], reservation', reply'[o])
    BY <1>1, <1>2, <2>5 DEF HeldAt
  <2>7. \A x \in Order \ {o} : reply'[x] = reply[x] /\ status'[x] = status[x]
    BY <1>2, <2>4
  <2> QED
    BY <1>1, <1>2, <1>4, <2>3, <2>6, <2>7, HeldFrame
<1>8. CASE Refuse(HoldOf(o, t)) /\ reply' = [reply EXCEPT ![o][t] = "no"]
  <2>1. reservation' = reservation
    BY <1>8 DEF Refuse, storeVars
  <2>3. /\ OneEach(reservation') /\ OfCart(reservation')
        /\ SameBut(reservation, reservation', o)
    BY <1>2, <2>1 DEF SameBut
  <2>4. /\ \A x \in Order \ {o} : reply'[x] = reply[x]
        /\ reply'[o] = [reply[o] EXCEPT ![t] = "no"]
    BY <1>8 DEF TypeOK, LocalTypeOK
  <2>5. \A u \in Cart(o) : /\ reply'[o][u] # "back"
                           /\ HoldOf(o, u) \in reservation' <=> reply'[o][u] = "ok"
    BY <1>2, <1>3, <1>5, <1>6, <1>9, <2>1, <2>4
  <2>6. HeldAt(h[s], reservation', reply'[o])
    BY <1>1, <1>2, <2>5 DEF HeldAt
  <2>7. \A x \in Order \ {o} : reply'[x] = reply[x] /\ status'[x] = status[x]
    BY <1>2, <2>4
  <2> QED
    BY <1>1, <1>2, <1>4, <2>3, <2>6, <2>7, HeldFrame
<1> QED
  BY <1>1, <1>7, <1>8 DEF ReserveItem

(* All items reserved under the one key of the order: it has one type. *)
LEMMA AllReserved ==
    ASSUME TypeOK, NEW o \in Order, NEW K, OneEach(K),
           \A t \in Cart(o) : HoldOf(o, t) \in K
    PROVE  OneType(o)
<1> SUFFICES ASSUME NEW t \in Cart(o), NEW u \in Cart(o) PROVE t = u
  BY DEF OneType
<1>1. HoldOf(o, t).order = HoldOf(o, u).order
  BY DEF HoldOf
<1>2. HoldOf(o, t) = HoldOf(o, u)
  BY <1>1 DEF OneEach
<1>3. HoldOf(o, t).type = HoldOf(o, u).type
  BY <1>2
<1> QED
  BY <1>3 DEF HoldOf

LEMMA JudgeRepliesHeld ==
    ASSUME TypeOK, Fresh, HoldsKnown, NEW s \in Slot, JudgeReplies(s)
    PROVE  HoldsKnown'
<1>1. PICK o \in Order : h[s] # Idle /\ h[s].order = o
  BY BusySlot DEF JudgeReplies, At, TypeOK
<1>2. /\ h[s].op = "create" /\ h[s].at = "reserve" /\ Unanswered(o) = {}
      /\ UNCHANGED <<phase, status, reservation>>
      /\ status[o] # "NONE" => OneType(o)
      /\ OneEach(reservation) /\ OfCart(reservation)
      /\ HeldAt(h[s], reservation, reply[o]) /\ EarlyAt(h[s])
  BY <1>1 DEF JudgeReplies, At, rowVars, storeVars, HoldsKnown, EarlyAt
<1>3. "persist" \in Step /\ "rollback" \in Step
  BY DEF Step
<1>4. reply[o] \in [TicketType -> {"none", "ok", "no", "back"}] /\ Cart(o) \subseteq TicketType
  BY DEF TypeOK, LocalTypeOK, Cart
<1>5. CASE Refused(o) = {} /\ Go(s, "persist") /\ reply' = [reply EXCEPT ![o] = NoReply]
  <2>1. PICK r \in Running :
          /\ r # Idle /\ h' = [h EXCEPT ![s] = r]
          /\ r.op = "create" /\ r.order = o /\ r.at = "persist"
    BY <1>1, <1>2, <1>3, <1>5, HandlersTyped, WithAt
  <2>2. \A t \in Cart(o) : reply[o][t] # "none" /\ reply[o][t] # "no" /\ reply[o][t] # "back"
    BY <1>1, <1>2, <1>5 DEF Refused, Unanswered, HeldAt
  <2>3. \A t \in Cart(o) : reply[o][t] = "ok"
    BY <1>4, <2>2
  <2>4. \A t \in Cart(o) : HoldOf(o, t) \in reservation
    BY <1>1, <1>2, <2>3 DEF HeldAt
  <2>5. OneType(o)
    BY <1>2, <2>4, AllReserved
  <2>6. HeldAt(r, reservation', reply'[o])
    BY <2>1, <2>5 DEF HeldAt
  <2>7. \A x \in Order \ {o} : reply'[x] = reply[x] /\ status'[x] = status[x]
    BY <1>2, <1>5 DEF TypeOK, LocalTypeOK
  <2>8. SameBut(reservation, reservation', o) /\ OneEach(reservation') /\ OfCart(reservation')
    BY <1>2 DEF SameBut
  <2> QED
    BY <1>1, <1>2, <2>1, <2>6, <2>7, <2>8, HeldFrame
<1>6. CASE Refused(o) # {} /\ Go(s, "rollback") /\ UNCHANGED reply
  <2>1. PICK r \in Running :
          /\ r # Idle /\ h' = [h EXCEPT ![s] = r]
          /\ r.op = "create" /\ r.order = o /\ r.at = "rollback"
    BY <1>1, <1>2, <1>3, <1>6, HandlersTyped, WithAt
  <2>2. \E t \in Cart(o) : reply[o][t] = "no"
    BY <1>6 DEF Refused
  <2>3. HeldAt(r, reservation, reply[o])
    BY <1>1, <1>2, <2>1, <2>2 DEF HeldAt
  <2>4. UNCHANGED <<phase, reservation, reply>>
    BY <1>2, <1>6
  <2> QED
    BY <1>1, <1>2, <2>1, <2>3, <2>4, HeldStill
<1> QED
  BY <1>1, <1>5, <1>6 DEF JudgeReplies

LEMMA RollBackItemHeld ==
    ASSUME TypeOK, Fresh, HoldsKnown, NEW s \in Slot, RollBackItem(s)
    PROVE  HoldsKnown'
<1>1. PICK o \in Order : h[s] # Idle /\ h[s].order = o /\ h[s] \in Running
  BY BusySlot DEF RollBackItem, At, TypeOK
<1>2. /\ h[s].op = "create" /\ h[s].at = "rollback"
      /\ UNCHANGED <<phase, status>>
      /\ status[o] # "NONE" => OneType(o)
      /\ OneEach(reservation) /\ OfCart(reservation)
      /\ HeldAt(h[s], reservation, reply[o]) /\ EarlyAt(h[s])
  BY <1>1 DEF RollBackItem, At, rowVars, HoldsKnown, EarlyAt
<1>3. reply[o] \in [TicketType -> {"none", "ok", "no", "back"}] /\ Cart(o) \subseteq TicketType
  BY DEF TypeOK, LocalTypeOK, Cart
<1>4. ASSUME NEW t \in ToRollBack(o), Release(HoldOf(o, t)) \/ ReleaseNothing(HoldOf(o, t)),
             reply' = [reply EXCEPT ![o][t] = "back"], UNCHANGED h
      PROVE  HoldsKnown'
  <2>1. reservation' = reservation \ {HoldOf(o, t)}
    BY <1>4 DEF Release, ReleaseNothing, storeVars
  <2>2. t \in Cart(o) /\ reply[o][t] = "ok" /\ HoldOf(o, t).order = o
    BY DEF ToRollBack, HoldOf
  <2>3. /\ OneEach(reservation') /\ OfCart(reservation')
        /\ SameBut(reservation, reservation', o)
    BY <1>2, <2>1, <2>2 DEF OneEach, OfCart, SameBut
  <2>4. /\ \A x \in Order \ {o} : reply'[x] = reply[x]
        /\ reply'[o] = [reply[o] EXCEPT ![t] = "back"]
    BY <1>4 DEF TypeOK, LocalTypeOK
  <2>5. \E u \in Cart(o) : reply'[o][u] = "no"
    <3>1. PICK u \in Cart(o) : reply[o][u] = "no"
      BY <1>1, <1>2 DEF HeldAt
    <3>2. reply'[o][u] = "no"
      BY <1>3, <2>2, <2>4, <3>1
    <3> QED
      BY <3>2
  <2>6. \A u \in Cart(o) : HoldOf(o, u) \in reservation' => reply'[o][u] = "ok"
    BY <1>1, <1>2, <1>3, <2>1, <2>4 DEF HeldAt
  <2>7. HeldAt(h[s], reservation', reply'[o])
    BY <1>1, <1>2, <2>5, <2>6 DEF HeldAt
  <2>8. \A x \in Order \ {o} : reply'[x] = reply[x] /\ status'[x] = status[x]
    BY <1>2, <2>4
  <2>9. h' = [h EXCEPT ![s] = h[s]]
    BY <1>4 DEF TypeOK, HandlerTypeOK
  <2> QED
    BY <1>1, <1>2, <2>3, <2>7, <2>8, <2>9, HeldFrame
<1>5. CASE reply' = [reply EXCEPT ![o] = NoReply] /\ End(s) /\ UNCHANGED storeVars
  <2>1. h' = [h EXCEPT ![s] = Idle] /\ reservation' = reservation
    BY <1>5 DEF End, storeVars
  <2>2. /\ OneEach(reservation') /\ OfCart(reservation')
        /\ SameBut(reservation, reservation', o)
    BY <1>2, <2>1 DEF SameBut
  <2>3. \A x \in Order \ {o} : reply'[x] = reply[x] /\ status'[x] = status[x]
    BY <1>2, <1>5 DEF TypeOK, LocalTypeOK
  <2> QED
    BY <1>1, <1>2, <2>1, <2>2, <2>3, HeldFrame
<1> QED
  BY <1>1, <1>4, <1>5 DEF RollBackItem

LEMMA PersistOrderHeld ==
    ASSUME TypeOK, Fresh, HoldsKnown, NEW s \in Slot, PersistOrder(s)
    PROVE  HoldsKnown'
<1>1. PICK o \in Order : h[s] # Idle /\ h[s].order = o
  BY BusySlot DEF PersistOrder, At, TypeOK
<1>2. /\ h[s].op = "create" /\ h[s].at = "persist"
      /\ UNCHANGED <<phase, reservation, reply>>
      /\ HeldAt(h[s], reservation, reply[o])
  BY <1>1 DEF PersistOrder, At, storeVars, localVars, HoldsKnown
<1>3. OneType(o)
  BY <1>1, <1>2 DEF HeldAt
<1>4. /\ "count" \in Step /\ "release" \in Step /\ "undoPersist" \in Op
  BY DEF Step, Op
<1>5. CASE Go(s, "count") /\ status' = [status EXCEPT ![o] = "PENDING_PAYMENT"]
  <2>1. PICK r \in Running :
          /\ r # Idle /\ h' = [h EXCEPT ![s] = r]
          /\ r.op = "create" /\ r.order = o /\ r.at = "count"
    BY <1>1, <1>2, <1>4, <1>5, HandlersTyped, WithAt
  <2>2. HeldAt(r, reservation, reply[o])
    BY <1>3, <2>1 DEF HeldAt
  <2>3. \A x \in Order \ {o} : status'[x] = status[x]
    BY <1>5 DEF TypeOK, RowTypeOK
  <2> QED
    BY <1>1, <1>2, <1>3, <2>1, <2>2, <2>3, HeldStill
<1>6. CASE Turn(s, "undoPersist", "release") /\ UNCHANGED status
  <2>1. PICK r \in Running :
          /\ r # Idle /\ h' = [h EXCEPT ![s] = r]
          /\ r.op = "undoPersist" /\ r.order = o /\ r.at = "release"
    BY <1>1, <1>4, <1>6, HandlersTyped, WithOpAt
  <2>2. HeldAt(r, reservation, reply[o])
    BY <1>3, <2>1 DEF HeldAt
  <2> QED
    BY <1>1, <1>2, <1>3, <1>6, <2>1, <2>2, HeldStill
<1> QED
  BY <1>1, <1>5, <1>6 DEF PersistOrder, Turn

LEMMA ReleaseHoldHeld ==
    ASSUME TypeOK, Fresh, HoldsKnown, NEW s \in Slot, ReleaseHold(s)
    PROVE  /\ HoldsKnown' /\ ~ HeldIn(reservation', h[s].order)
           /\ reservation' \subseteq reservation
<1>1. PICK o \in Order : h[s] # Idle /\ h[s].order = o /\ h[s].op \in Op
  BY BusySlot DEF ReleaseHold, TypeOK
<1>2. /\ h[s].at = "release" /\ ReleaseAll(o)
      /\ UNCHANGED <<phase, status, reply>>
      /\ HeldAt(h[s], reservation, reply[o])
  BY <1>1 DEF ReleaseHold, localVars, rowVars, HoldsKnown
<1>3. OneType(o)
  BY <1>1, <1>2 DEF HeldAt
<1>4. /\ OneEach(reservation') /\ OfCart(reservation')
      /\ SameBut(reservation, reservation', o)
      /\ ~ HeldIn(reservation', o) /\ reservation' \subseteq reservation
  BY <1>2, ReleaseAllEffect
<1>5. CASE End(s)
  <2>1. h' = [h EXCEPT ![s] = Idle]
    BY <1>5 DEF End
  <2> QED
    BY <1>1, <1>2, <1>3, <1>4, <2>1, HeldFrame
<1>6. ASSUME NEW at \in {"counters", "delete"}, NEW todo \in SUBSET {"types", "users"},
             h[s].op # "undoPersist", GoWith(s, at, todo)
      PROVE  HoldsKnown'
  <2>1. at \in Step /\ todo \in SUBSET {"types", "users", "row", "error"}
    BY DEF Step
  <2>2. PICK r \in Running :
          /\ r # Idle /\ h' = [h EXCEPT ![s] = r]
          /\ r.op = h[s].op /\ r.order = o /\ r.at = at
    BY <1>1, <1>6, <2>1, HandlersTyped, WithAtTodo
  <2>3. HeldAt(r, reservation', reply'[o])
    BY <1>3, <1>4, <1>6, <2>2 DEF HeldAt
  <2> QED
    BY <1>1, <1>2, <1>3, <1>4, <2>2, <2>3, HeldFrame
<1>7. CASE AfterRelease[h[s].op] = "end"
  BY <1>1, <1>4, <1>5, <1>7 DEF ReleaseHold
<1>8. CASE AfterRelease[h[s].op] = "counters"
  <2>1. h[s].op # "undoPersist"
    BY <1>1, <1>8 DEF AfterRelease
  <2>2. GoWith(s, "counters", {"types", "users"})
    BY <1>8 DEF ReleaseHold, GoWith
  <2> QED
    BY <1>1, <1>4, <1>6, <2>1, <2>2
<1>9. CASE AfterRelease[h[s].op] = "delete"
  <2>1. h[s].op # "undoPersist"
    BY <1>1, <1>9 DEF AfterRelease
  <2>2. GoWith(s, "delete", {})
    BY <1>9 DEF ReleaseHold, GoWith
  <2> QED
    BY <1>1, <1>4, <1>6, <2>1, <2>2
<1>10. AfterRelease[h[s].op] \in {"end", "counters", "delete"}
  BY <1>1 DEF AfterRelease
<1> QED
  BY <1>7, <1>8, <1>9, <1>10

LEMMA ForgetHoldHeld ==
    ASSUME TypeOK, Fresh, HoldsKnown, NEW s \in Slot, ForgetHold(s)
    PROVE  /\ HoldsKnown' /\ ~ HeldIn(reservation', h[s].order)
           /\ reservation' \subseteq reservation
<1>1. PICK o \in Order : h[s] # Idle /\ h[s].order = o
  BY BusySlot DEF ForgetHold, At, TypeOK
<1>2. /\ h[s].op = "success" /\ h[s].at = "forget" /\ Forget(o)
      /\ UNCHANGED <<phase, status, reply>> /\ h' = [h EXCEPT ![s] = Idle]
      /\ HeldAt(h[s], reservation, reply[o])
  BY <1>1 DEF ForgetHold, At, End, localVars, rowVars, HoldsKnown
<1>3. OneType(o)
  BY <1>1, <1>2 DEF HeldAt
<1>4. /\ OneEach(reservation') /\ OfCart(reservation')
      /\ SameBut(reservation, reservation', o)
      /\ ~ HeldIn(reservation', o) /\ reservation' \subseteq reservation
  BY <1>2, ForgetEffect
<1> QED
  BY <1>1, <1>2, <1>3, <1>4, HeldFrame

(***************************************************************************)
(* A handler that still answers for the key of order o.  The cron's PAID   *)
(* verdict leaves the key to its TTL, so no handler of it does.            *)
(***************************************************************************)
Owes(a, o) ==
    /\ a # Idle /\ a.order = o
    /\ \/ a.at = "release"
       \/ a.op = "success" /\ a.at = "forget"
       \/ a.op = "create" /\ a.at \in {"reserve", "rollback", "persist"}

(* The steps that touch neither keys nor replies. *)
Rest(s) ==
    \/ CountReserved(s) \/ OpenUrl(s) \/ CallGateway(s) \/ ScheduleExpire(s)
    \/ DeleteOrder(s) \/ DropUserCounters(s) \/ DropTypeCounters(s) \/ AbortSettle(s)
    \/ CloseOrder(s) \/ CommitSuccess(s) \/ Recheck(s) \/ CommitVerdict(s)
    \/ EnqueueIssue(s) \/ TallyTickets(s) \/ CommitIssue(s) \/ AckIssue(s)

LEMMA RestFrame ==
    ASSUME NEW s \in Slot, Rest(s)
    PROVE  /\ UNCHANGED <<reservation, reply, phase>> /\ h[s] # Idle
           /\ ~ EarlyAt(h[s]) \/ h[s].op = "undoPersist"
           /\ ~ Owes(h[s], h[s].order)
BY DEF Rest, CountReserved, OpenUrl, CallGateway, ScheduleExpire, DeleteOrder,
   DropUserCounters, DropTypeCounters, AbortSettle, CloseOrder, CommitSuccess, Recheck,
   CommitVerdict, EnqueueIssue, TallyTickets, CommitIssue, AckIssue, At, storeVars,
   localVars, EarlyAt, Owes

LEMMA RestTarget ==
    ASSUME TypeOK, NEW s \in Slot, Rest(s), h'[s] # Idle
    PROVE  /\ h'[s].at \in {"counters", "delete"} => h[s].at \in {"counters", "delete"}
           /\ h'[s].op = "cronPaid" => h[s].op = "cronPaid"
<1>1. h[s] \in Running /\ h \in [Slot -> Running \cup {Idle}]
  BY BusySlot, RestFrame DEF TypeOK, HandlerTypeOK
<1>2. CASE CountReserved(s)
  BY <1>1, <1>2 DEF CountReserved, Go, At, Running
<1>3. CASE OpenUrl(s)
  BY <1>1, <1>3 DEF OpenUrl, At, Running
<1>4. CASE CallGateway(s)
  BY <1>1, <1>4 DEF CallGateway, Go, End, At, Running
<1>5. CASE ScheduleExpire(s) \/ DeleteOrder(s) \/ AbortSettle(s) \/ EnqueueIssue(s) \/ AckIssue(s)
  BY <1>1, <1>5 DEF ScheduleExpire, DeleteOrder, AbortSettle, EnqueueIssue, AckIssue, End
<1>6. CASE DropUserCounters(s)
  BY <1>1, <1>6 DEF DropUserCounters, Running
<1>7. CASE DropTypeCounters(s)
  BY <1>1, <1>7 DEF DropTypeCounters, Running
<1>8. CASE CloseOrder(s)
  BY <1>1, <1>8 DEF CloseOrder, Go, End, Running
<1>9. CASE CommitSuccess(s)
  BY <1>1, <1>9 DEF CommitSuccess, Go, Running
<1>10. CASE Recheck(s)
  BY <1>1, <1>10 DEF Recheck, Go, Running
<1>11. CASE CommitVerdict(s)
  BY <1>1, <1>11 DEF CommitVerdict, Go, Running
<1>12. CASE TallyTickets(s)
  BY <1>1, <1>12 DEF TallyTickets, Go, End, Running
<1>13. CASE CommitIssue(s)
  BY <1>1, <1>13 DEF CommitIssue, Go, Running
<1> QED
  BY <1>2, <1>3, <1>4, <1>5, <1>6, <1>7, <1>8, <1>9, <1>10, <1>11, <1>12, <1>13 DEF Rest

LEMMA RestHeld ==
    ASSUME TypeOK, Fresh, HoldsKnown, NEW s \in Slot, Rest(s), Continue(s)
    PROVE  HoldsKnown'
<1>1. PICK o \in Order : h[s] # Idle /\ h[s].order = o
  BY BusySlot, RestFrame DEF TypeOK
<1>2. /\ UNCHANGED <<phase, reservation, reply>> /\ HeldAt(h[s], reservation, reply[o])
  BY <1>1, RestFrame DEF HoldsKnown
<1>3. ~ EarlyAt(h[s])
  <2>1. h[s].op = "undoPersist" => h[s].at = "release"
    BY <1>1, <1>2 DEF HeldAt
  <2> QED
    BY <1>1, <2>1, RestFrame DEF Owes
<1>4. OneType(o)
  BY <1>1, <1>2, <1>3 DEF HeldAt, EarlyAt
<1>5. PICK r \in Running \cup {Idle}, w \in Status :
        /\ h' = [h EXCEPT ![s] = r]
        /\ status' = [status EXCEPT ![o] = w]
        /\ r # Idle => r.order = o
        /\ r # Idle /\ EarlyAt(r) => EarlyAt(h[s])
  BY <1>1, HandlerAdvance DEF Advance, Advances
<1>6. h'[s] = r
  BY <1>5 DEF TypeOK, HandlerTypeOK
<1>7. ASSUME r # Idle PROVE HeldAt(r, reservation, reply[o])
  <2>1. ~ EarlyAt(r) /\ r.order = o
    BY <1>3, <1>5, <1>7
  <2>2. r.at \in {"counters", "delete"} => ~ HeldIn(reservation, o)
    BY <1>1, <1>2, <1>6, <1>7, RestTarget DEF HeldAt
  <2> QED
    BY <1>4, <2>1, <2>2 DEF HeldAt, EarlyAt
<1>8. \A x \in Order \ {o} : status'[x] = status[x]
  BY <1>5 DEF TypeOK, RowTypeOK
<1> QED
  BY <1>1, <1>2, <1>4, <1>5, <1>7, <1>8, HeldStill

LEMMA ContinueCases ==
    ASSUME NEW s \in Slot, Continue(s)
    PROVE  \/ ReadSeeds(s) \/ SeedKeys(s) \/ JudgeReplies(s) \/ RollBackItem(s)
           \/ \E t \in TicketType : ReserveItem(s, t)
           \/ PersistOrder(s) \/ ReleaseHold(s) \/ ForgetHold(s) \/ Rest(s)
BY DEF Continue, Create, Settle, Rest

LEMMA HeldContinue ==
    ASSUME TypeOK, Fresh, HoldsKnown, NEW s \in Slot, Continue(s)
    PROVE  HoldsKnown'
BY ContinueCases, SeedHeld, JudgeRepliesHeld, RollBackItemHeld, ReserveItemHeld,
   PersistOrderHeld, ReleaseHoldHeld, ForgetHoldHeld, RestHeld

LEMMA CrashHeld ==
    ASSUME TypeOK, Fresh, HoldsKnown, NEW s \in Slot, Crash(s)
    PROVE  HoldsKnown'
<1>1. PICK o \in Order : h[s] # Idle /\ h[s].order = o
  BY BusySlot DEF Crash, TypeOK
<1>2. /\ h' = [h EXCEPT ![s] = Idle]
      /\ UNCHANGED <<status, phase, reservation>>
      /\ reply' = [reply EXCEPT ![o] = IF h[s].op = "create" THEN NoReply ELSE @]
  BY <1>1, Crashed DEF Crash, storeVars
<1>3. /\ OneEach(reservation') /\ OfCart(reservation')
      /\ SameBut(reservation, reservation', o) /\ reservation' \subseteq reservation
      /\ status'[o] # "NONE" => OneType(o)
  BY <1>2 DEF HoldsKnown, SameBut
<1>4. \A x \in Order \ {o} : reply'[x] = reply[x] /\ status'[x] = status[x]
  BY <1>2 DEF TypeOK, LocalTypeOK
<1> QED
  BY <1>1, <1>2, <1>3, <1>4, HeldFrame

LEMMA StartFrame ==
    ASSUME NEW s \in Slot, NEW o \in Order, Start(s, o)
    PROVE  UNCHANGED <<reservation, reply, crashes>>
BY DEF Start, Cron, StartCreate, StartRepay, StartCancel, StartExpire, StartCron,
   StartIssue, StartWebhook, storeVars, localVars, budget

(* A handler that has just begun. *)
LEMMA StartTarget ==
    ASSUME TypeOK, NEW s \in Slot, NEW o \in Order, Start(s, o)
    PROVE  \/ UNCHANGED h
           \/ /\ h'[s].at \notin {"counters", "delete"}
              /\ h'[s].op = "cronPaid" => "cronPaid" \in Calls
<1>1. h \in [Slot -> Running \cup {Idle}]
  BY DEF TypeOK, HandlerTypeOK
<1>2. CASE StartCreate(s, o) \/ StartRepay(s, o) \/ StartCancel(s, o)
  BY <1>1, <1>2 DEF StartCreate, StartRepay, StartCancel, Begin
<1>3. CASE StartExpire(s, o) \/ StartIssue(s, o)
  BY <1>1, <1>3 DEF StartExpire, StartIssue, Begin
<1>4. CASE Cron(s, o)
  BY <1>1, <1>4 DEF Cron, StartCron, Begin
<1>5. ASSUME NEW result \in {"success", "failed"}, StartWebhook(s, o, result)
      PROVE  /\ h'[s].at \notin {"counters", "delete"}
             /\ h'[s].op = "cronPaid" => "cronPaid" \in Calls
  BY <1>1, <1>5 DEF StartWebhook, Begin
<1> QED
  BY <1>2, <1>3, <1>4, <1>5 DEF Start

LEMMA StartHeld ==
    ASSUME TypeOK, Fresh, HoldsKnown, NEW s \in Slot, NEW o \in Order, Start(s, o)
    PROVE  HoldsKnown'
<1>1. UNCHANGED <<reservation, reply, status>>
  BY StartFrame, Started
<1>2. CASE UNCHANGED <<h, phase>>
  BY <1>1, <1>2 DEF HoldsKnown
<1>3. ASSUME NEW r \in Running, Begun(s, o, r) PROVE HoldsKnown'
  <2>1. \A x \in Slot : h'[x] = IF x = s THEN r ELSE h[x]
    BY <1>3 DEF Begun, TypeOK, HandlerTypeOK
  <2>2. r # Idle /\ r.order = o
    BY <1>3 DEF Begun
  <2>3. HeldAt(r, reservation, reply[o])
    <3>1. CASE phase[o] = "new" /\ r.op = "create" /\ r.at = "ensure"
      BY <2>2, <3>1 DEF HoldsKnown, HeldAt
    <3>2. CASE ~ EarlyAt(r) /\ status[o] \in {"PENDING_PAYMENT", "PAID"}
      <4>1. OneType(o)
        BY <3>2 DEF HoldsKnown
      <4>2. r.at \notin {"counters", "delete"}
        BY <1>3, <2>1, <2>2, StartTarget DEF Begun
      <4> QED
        BY <2>2, <3>2, <4>1, <4>2 DEF HeldAt, EarlyAt
    <3> QED
      BY <1>3, <3>1, <3>2 DEF Begun
  <2>4. \A x \in Order : phase'[x] = "new" => phase[x] = "new"
    BY <1>3 DEF Begun, TypeOK, HandlerTypeOK
  <2> QED
    BY <1>1, <2>1, <2>2, <2>3, <2>4 DEF HoldsKnown
<1> QED
  BY <1>2, <1>3, Started

LEMMA QuietHeld ==
    ASSUME TypeOK, Fresh, HoldsKnown,
           \/ \E o \in Order : Elapse(o)
           \/ \E o \in Order, result \in DOMAIN PaymentOf : RecordWebhook(o, result)
           \/ UNCHANGED vars
    PROVE  HoldsKnown' /\ reservation' \subseteq reservation
<1>1. /\ UNCHANGED <<h, status>>
      /\ \A o \in Order : phase'[o] = "new" => phase[o] = "new"
  BY Quiet
<1>2. CASE UNCHANGED <<reservation, reply>>
  BY <1>1, <1>2 DEF HoldsKnown
<1>3. ASSUME NEW o \in Order, HoldLapses(o)
      PROVE  HoldsKnown' /\ reservation' \subseteq reservation
  <2>1. UNCHANGED reply /\ Forget(o)
        /\ \A x \in Slot : h[x] # Idle /\ h[x].order = o /\ h[x].op = "create"
                             => h[x].at \notin {"ensure", "seed", "reserve"}
    BY <1>3 DEF HoldLapses, localVars
  <2>2. /\ OneEach(reservation') /\ OfCart(reservation')
        /\ SameBut(reservation, reservation', o) /\ reservation' \subseteq reservation
    BY <2>1, ForgetEffect
  <2>3. \A x \in Order : HeldIn(reservation', x) => HeldIn(reservation, x)
    BY <2>2 DEF HeldIn
  <2>4. ASSUME NEW x \in Slot, h[x] # Idle
        PROVE  HeldAt(h[x], reservation', reply[h[x].order])
    <3>1. HeldAt(h[x], reservation, reply[h[x].order]) /\ h[x].order \in Order
      BY <2>4, BusySlot DEF HoldsKnown, TypeOK
    <3> DEFINE y == h[x].order
    <3>2. CASE y = o
      BY <2>1, <2>2, <2>3, <2>4, <3>1, <3>2 DEF HeldAt
    <3>3. CASE y # o
      <4>1. \A t : HoldOf(y, t) \in reservation' <=> HoldOf(y, t) \in reservation
        BY <2>2, <3>3 DEF HoldOf, SameBut
      <4> QED
        BY <2>3, <3>1, <4>1 DEF HeldAt
    <3> QED
      BY <3>2, <3>3
  <2> QED
    BY <1>1, <2>1, <2>2, <2>3, <2>4 DEF HoldsKnown
<1>4. (\E o \in Order : ExpiresAtPasses(o)) => UNCHANGED <<reservation, reply>>
  BY DEF ExpiresAtPasses, storeVars, localVars
<1>5. ASSUME NEW o \in Order, NEW result, RecordWebhook(o, result)
      PROVE  UNCHANGED <<reservation, reply>>
  BY <1>5 DEF RecordWebhook, storeVars, localVars
<1>6. CASE UNCHANGED vars
  BY <1>2, <1>6 DEF vars, storeVars, localVars
<1> QED
  BY <1>2, <1>3, <1>4, <1>5, <1>6 DEF Elapse

LEMMA HeldInit == Init => HoldsKnown
BY DEF Init, HoldsKnown, OneEach, OfCart, HeldIn

LEMMA HeldStep ==
    ASSUME TypeOK, Fresh, HoldsKnown, [Next]_vars
    PROVE  HoldsKnown'
BY HeldContinue, CrashHeld, StartHeld, QuietHeld DEF Next

LEMMA FewTypes ==
    ASSUME NEW o \in Order, OneType(o)
    PROVE  Cardinality(Cart(o)) <= 1
<1>1. CASE Cart(o) = {}
  BY <1>1, FS_EmptySet
<1>2. ASSUME NEW t \in Cart(o) PROVE Cardinality(Cart(o)) <= 1
  <2>1. Cart(o) = {t}
    BY <1>2 DEF OneType
  <2>2. Cardinality({t}) = 1
    BY FS_Singleton
  <2> QED
    BY ONLY <2>1, <2>2
<1> QED
  BY <1>1, <1>2

LEMMA HeldAlways == Spec => [](TypeOK /\ Fresh /\ HoldsKnown)
<1>1. Init => Fresh /\ HoldsKnown
  BY LoneInit, HeldInit
<1>2. TypeOK /\ Fresh /\ HoldsKnown /\ [Next]_vars => Fresh' /\ HoldsKnown'
  BY FreshStep, HeldStep
<1> QED
  BY <1>1, <1>2, TypeCorrect, PTL DEF Spec

(***************************************************************************)
(* Checkpoint 5 of the reserve script and the key per order, together: in  *)
(* every behaviour, whatever fails and however handlers overlap, an order  *)
(* row is only ever written for a request for at most one ticket type.     *)
(***************************************************************************)
THEOREM OneTypeHolds == Spec => []OneTypePerOrder
<1>1. HoldsKnown => OneTypePerOrder
  BY FewTypes DEF HoldsKnown, OneTypePerOrder
<1> QED
  BY <1>1, HeldAlways, PTL

-----------------------------------------------------------------------------
(* Whoever ends an order gives its key back *)

(* Every key has a PENDING order or a handler that will deal with it. *)
Answered ==
    /\ \A k \in reservation :
         status[k.order] = "PENDING_PAYMENT" \/ \E x \in Slot : Owes(h[x], k.order)
    /\ \A x \in Slot : h[x] # Idle => h[x].op # "cronPaid"

(* A step that leaves other orders alone and answers for its own. *)
LEMMA AnsweredFrame ==
    ASSUME TypeOK, Answered, NEW s \in Slot, NEW o \in Order, h[s] # Idle => h[s].order = o,
           NEW r \in Running \cup {Idle}, h' = [h EXCEPT ![s] = r],
           r # Idle => r.op # "cronPaid",
           \A x \in Order \ {o} : status'[x] = status[x],
           SameBut(reservation, reservation', o),
           HeldIn(reservation', o) =>
             \/ status'[o] = "PENDING_PAYMENT" \/ Owes(r, o)
             \/ \E x \in Slot \ {s} : Owes(h[x], o)
    PROVE  Answered'
<1>1. \A x \in Slot : h'[x] = IF x = s THEN r ELSE h[x]
  BY DEF TypeOK, HandlerTypeOK
<1>2. ASSUME NEW k \in reservation'
      PROVE  status'[k.order] = "PENDING_PAYMENT" \/ \E x \in Slot : Owes(h'[x], k.order)
  <2>1. CASE k.order = o
    <3>1. HeldIn(reservation', o)
      BY <1>2, <2>1 DEF HeldIn
    <3> QED
      BY <1>1, <2>1, <3>1
  <2>2. CASE k.order # o
    <3>1. k \in reservation /\ k.order \in Order
      BY <2>2 DEF SameBut, TypeOK, StoreTypeOK, Hold
    <3>2. \A x \in Slot : Owes(h[x], k.order) => x # s
      BY <2>2 DEF Owes
    <3> QED
      BY <1>1, <2>2, <3>1, <3>2 DEF Answered
  <2> QED
    BY <2>1, <2>2
<1>3. \A x \in Slot : h'[x] # Idle => h'[x].op # "cronPaid"
  BY <1>1 DEF Answered
<1> QED
  BY <1>2, <1>3 DEF Answered

(* What such a step may rely on. *)
LEMMA AnsweredNow ==
    ASSUME TypeOK, Answered, NEW o \in Order, HeldIn(reservation, o)
    PROVE  status[o] = "PENDING_PAYMENT" \/ \E x \in Slot : Owes(h[x], o)
BY DEF Answered, HeldIn

(* Who makes an order leave PENDING_PAYMENT. *)
LEMMA RestStatus ==
    ASSUME TypeOK, NEW s \in Slot, Rest(s), h[s].op # "cronPaid"
    PROVE  \/ UNCHANGED status
           \/ h[s].at \in {"counters", "delete"}
           \/ Owes(h'[s], h[s].order)
<1>1. h[s] \in Running /\ h \in [Slot -> Running \cup {Idle}] /\ h[s] # Idle
  BY BusySlot, RestFrame DEF TypeOK, HandlerTypeOK
<1>2. CASE \/ CountReserved(s) \/ OpenUrl(s) \/ CallGateway(s) \/ ScheduleExpire(s)
           \/ DropUserCounters(s) \/ DropTypeCounters(s) \/ AbortSettle(s)
           \/ Recheck(s) \/ EnqueueIssue(s) \/ TallyTickets(s) \/ CommitIssue(s)
           \/ AckIssue(s)
  BY <1>2 DEF CountReserved, OpenUrl, CallGateway, ScheduleExpire, DropUserCounters,
     DropTypeCounters, AbortSettle, Recheck, EnqueueIssue, TallyTickets, CommitIssue,
     AckIssue, rowVars
<1>3. CASE DeleteOrder(s) \/ CloseOrder(s)
  BY <1>3 DEF DeleteOrder, CloseOrder, At
<1>4. CASE CommitSuccess(s)
  <2>1. "forget" \in Step
    BY DEF Step
  <2>2. h[s].op = "success" /\ Go(s, "forget")
    BY <1>4 DEF CommitSuccess, At
  <2>3. \E r \in Running : /\ r # Idle /\ h' = [h EXCEPT ![s] = r]
                           /\ r.op = "success" /\ r.order = h[s].order /\ r.at = "forget"
    BY <1>1, <2>1, <2>2, HandlersTyped, WithAt
  <2> QED
    BY <1>1, <2>3 DEF Owes
<1>5. CASE CommitVerdict(s)
  <2>1. "release" \in Step
    BY DEF Step
  <2>2. Go(s, "release")
    BY <1>5 DEF CommitVerdict
  <2>3. \E r \in Running : /\ r # Idle /\ h' = [h EXCEPT ![s] = r]
                           /\ r.op = h[s].op /\ r.order = h[s].order /\ r.at = "release"
    BY <1>1, <2>1, <2>2, HandlersTyped, WithAt
  <2> QED
    BY <1>1, <2>3 DEF Owes
<1> QED
  BY <1>2, <1>3, <1>4, <1>5 DEF Rest

LEMMA RestAnswered ==
    ASSUME TypeOK, HoldsKnown, Answered, NEW s \in Slot, Rest(s), Continue(s)
    PROVE  Answered'
<1>1. PICK o \in Order : h[s] # Idle /\ h[s].order = o
  BY BusySlot, RestFrame DEF TypeOK
<1>2. UNCHANGED reservation /\ ~ Owes(h[s], o) /\ h[s].op # "cronPaid"
  BY <1>1, RestFrame DEF Answered
<1>3. PICK r \in Running \cup {Idle}, w \in Status :
        h' = [h EXCEPT ![s] = r] /\ status' = [status EXCEPT ![o] = w]
  BY <1>1, HandlerAdvance DEF Advance
<1>4. h'[s] = r
  BY <1>3 DEF TypeOK, HandlerTypeOK
<1>5. r # Idle => r.op # "cronPaid"
  BY <1>2, <1>4, RestTarget
<1>6. \A x \in Order \ {o} : status'[x] = status[x]
  BY <1>3 DEF TypeOK, RowTypeOK
<1>7. SameBut(reservation, reservation', o)
  BY <1>2 DEF SameBut
<1>8. ASSUME HeldIn(reservation', o)
      PROVE  \/ status'[o] = "PENDING_PAYMENT" \/ Owes(r, o)
             \/ \E x \in Slot \ {s} : Owes(h[x], o)
  <2>1. HeldIn(reservation, o)
    BY <1>2, <1>8
  <2>2. status[o] = "PENDING_PAYMENT" \/ \E x \in Slot \ {s} : Owes(h[x], o)
    BY <1>2, <2>1, AnsweredNow
  <2>3. h[s].at \notin {"counters", "delete"}
    BY <1>1, <2>1 DEF HoldsKnown, HeldAt
  <2>4. UNCHANGED status \/ Owes(r, o)
    BY <1>1, <1>2, <1>4, <2>3, RestStatus
  <2> QED
    BY <2>2, <2>4
<1> QED
  BY <1>1, <1>3, <1>5, <1>6, <1>7, <1>8, AnsweredFrame

(* The handlers of createOrder that go on to another step with the key. *)
LEMMA CreateAnswered ==
    ASSUME TypeOK, Answered, NEW s \in Slot, h[s] # Idle, h[s].op = "create",
           NEW at \in {"seed", "reserve", "rollback", "persist"}, Go(s, at),
           UNCHANGED <<status, reservation>>,
           at = "seed" => ~ HeldIn(reservation, h[s].order)
    PROVE  Answered'
<1>1. PICK o \in Order : h[s].order = o
  BY BusySlot DEF TypeOK
<1>2. at \in Step
  BY DEF Step
<1>3. PICK r \in Running :
        /\ r # Idle /\ h' = [h EXCEPT ![s] = r]
        /\ r.op = "create" /\ r.order = o /\ r.at = at
  BY <1>1, <1>2, HandlersTyped, WithAt
<1>4. HeldIn(reservation', o) => Owes(r, o)
  BY <1>1, <1>3 DEF Owes
<1>5. SameBut(reservation, reservation', o)
  BY DEF SameBut
<1> QED
  BY <1>1, <1>3, <1>4, <1>5, AnsweredFrame

LEMMA SeedAnswered ==
    ASSUME TypeOK, HoldsKnown, Answered, NEW s \in Slot,
           ReadSeeds(s) \/ SeedKeys(s) \/ JudgeReplies(s)
    PROVE  Answered'
<1>1. /\ UNCHANGED <<status, reservation>> /\ h[s] # Idle /\ h[s].op = "create"
      /\ \/ h[s].at = "ensure" /\ Go(s, "seed")
         \/ \E at \in {"reserve", "persist", "rollback"} : Go(s, at)
  BY DEF ReadSeeds, SeedKeys, JudgeReplies, Seed, At, storeVars, rowVars
<1>2. h[s].at = "ensure" => ~ HeldIn(reservation, h[s].order)
  BY <1>1 DEF HoldsKnown, HeldAt
<1> QED
  BY <1>1, <1>2, CreateAnswered

LEMMA ReserveItemAnswered ==
    ASSUME TypeOK, Answered, NEW s \in Slot, NEW t \in TicketType, ReserveItem(s, t)
    PROVE  Answered'
<1>1. PICK o \in Order : h[s] # Idle /\ h[s].order = o /\ h[s] \in Running
  BY BusySlot DEF ReserveItem, At, TypeOK
<1>2. /\ h[s].op = "create" /\ h[s].at = "reserve"
      /\ UNCHANGED status /\ h' = [h EXCEPT ![s] = h[s]]
      /\ reservation' \in {reservation, reservation \cup {HoldOf(o, t)}}
  BY <1>1 DEF ReserveItem, At, rowVars, Reserve, Refuse, storeVars, TypeOK, HandlerTypeOK
<1>3. SameBut(reservation, reservation', o)
  BY <1>2 DEF SameBut, HoldOf
<1>4. Owes(h[s], o) /\ h[s].op # "cronPaid"
  BY <1>1, <1>2 DEF Owes
<1> QED
  BY <1>1, <1>2, <1>3, <1>4, AnsweredFrame

LEMMA RollBackItemAnswered ==
    ASSUME TypeOK, HoldsKnown, Answered, NEW s \in Slot, RollBackItem(s),
           \A o \in Order : OneType(o)
    PROVE  Answered'
<1>1. PICK o \in Order : h[s] # Idle /\ h[s].order = o /\ h[s] \in Running
  BY BusySlot DEF RollBackItem, At, TypeOK
<1>2. /\ h[s].op = "create" /\ h[s].at = "rollback" /\ UNCHANGED status
      /\ HeldAt(h[s], reservation, reply[o])
  BY <1>1 DEF RollBackItem, At, rowVars, HoldsKnown
<1>3. ~ HeldIn(reservation, o)
  <2>1. PICK t \in Cart(o) : reply[o][t] = "no"
    BY <1>1, <1>2 DEF HeldAt
  <2>2. HoldOf(o, t) \notin reservation
    BY <1>1, <1>2, <2>1 DEF HeldAt
  <2>3. \A u \in Cart(o) : u = t
    BY DEF OneType
  <2> QED
    BY <2>2, <2>3 DEF HoldsKnown, OfCart, HeldIn
<1>4. CASE UNCHANGED h /\ \E t \in ToRollBack(o) : Release(HoldOf(o, t)) \/ ReleaseNothing(HoldOf(o, t))
  <2>1. SameBut(reservation, reservation', o) /\ h' = [h EXCEPT ![s] = h[s]]
    BY <1>4 DEF Release, ReleaseNothing, storeVars, HoldOf, SameBut, TypeOK, HandlerTypeOK
  <2>2. Owes(h[s], o) /\ h[s].op # "cronPaid"
    BY <1>1, <1>2 DEF Owes
  <2> QED
    BY <1>1, <1>2, <2>1, <2>2, AnsweredFrame
<1>5. CASE End(s) /\ UNCHANGED storeVars
  <2>1. SameBut(reservation, reservation', o) /\ ~ HeldIn(reservation', o)
    BY <1>3, <1>5 DEF storeVars, SameBut
  <2>2. h' = [h EXCEPT ![s] = Idle]
    BY <1>5 DEF End
  <2> QED
    BY <1>1, <1>2, <2>1, <2>2, AnsweredFrame
<1> QED
  BY <1>1, <1>4, <1>5 DEF RollBackItem

LEMMA PersistOrderAnswered ==
    ASSUME TypeOK, Answered, NEW s \in Slot, PersistOrder(s)
    PROVE  Answered'
<1>1. PICK o \in Order : h[s] # Idle /\ h[s].order = o
  BY BusySlot DEF PersistOrder, At, TypeOK
<1>2. h[s].op = "create" /\ UNCHANGED reservation /\ SameBut(reservation, reservation', o)
  BY DEF PersistOrder, At, storeVars, SameBut
<1>3. /\ "count" \in Step /\ "release" \in Step /\ "undoPersist" \in Op
  BY DEF Step, Op
<1>4. CASE Go(s, "count") /\ status' = [status EXCEPT ![o] = "PENDING_PAYMENT"]
  <2>1. PICK r \in Running : r # Idle /\ h' = [h EXCEPT ![s] = r] /\ r.op = "create"
    BY <1>1, <1>2, <1>3, <1>4, HandlersTyped, WithAt
  <2>2. status'[o] = "PENDING_PAYMENT" /\ \A x \in Order \ {o} : status'[x] = status[x]
    BY <1>4 DEF TypeOK, RowTypeOK
  <2> QED
    BY <1>1, <1>2, <2>1, <2>2, AnsweredFrame
<1>5. CASE Turn(s, "undoPersist", "release") /\ UNCHANGED status
  <2>1. PICK r \in Running :
          /\ r # Idle /\ h' = [h EXCEPT ![s] = r]
          /\ r.op = "undoPersist" /\ r.order = o /\ r.at = "release"
    BY <1>1, <1>3, <1>5, HandlersTyped, WithOpAt
  <2>2. Owes(r, o)
    BY <2>1 DEF Owes
  <2> QED
    BY <1>1, <1>2, <1>5, <2>1, <2>2, AnsweredFrame
<1> QED
  BY <1>1, <1>4, <1>5 DEF PersistOrder, Turn

LEMMA ReleaseAnswered ==
    ASSUME TypeOK, Fresh, HoldsKnown, Answered, NEW s \in Slot,
           ReleaseHold(s) \/ ForgetHold(s)
    PROVE  Answered'
<1>1. PICK o \in Order : h[s] # Idle /\ h[s].order = o
  BY BusySlot DEF ReleaseHold, ForgetHold, At, TypeOK
<1>2. PICK r \in Running \cup {Idle} : h' = [h EXCEPT ![s] = r]
  BY HandlerAdvance DEF Advance, Continue, Settle
<1>3. /\ ~ HeldIn(reservation', o) /\ UNCHANGED status
      /\ SameBut(reservation, reservation', o)
  <2>1. UNCHANGED status /\ ~ HeldIn(reservation', o)
    BY <1>1, ReleaseHoldHeld, ForgetHoldHeld DEF ReleaseHold, ForgetHold, rowVars
  <2>2. ReleaseAll(o) \/ Forget(o)
    BY <1>1 DEF ReleaseHold, ForgetHold
  <2>3. SameBut(reservation, reservation', o)
    BY <2>2, ReleaseAllEffect, ForgetEffect
  <2> QED
    BY <2>1, <2>3
<1>4. r # Idle => r.op # "cronPaid"
  <2>1. h'[s] = r
    BY <1>2 DEF TypeOK, HandlerTypeOK
  <2>2. h[s] \in Running /\ h[s].op # "cronPaid"
    BY <1>1, BusySlot DEF TypeOK, Answered
  <2>3. CASE ForgetHold(s)
    BY <2>1, <2>3 DEF ForgetHold, End, TypeOK, HandlerTypeOK
  <2>4. CASE ReleaseHold(s)
    BY <2>1, <2>2, <2>4 DEF ReleaseHold, End, TypeOK, HandlerTypeOK, Running
  <2> QED
    BY <2>3, <2>4
<1> QED
  BY <1>1, <1>2, <1>3, <1>4, AnsweredFrame

LEMMA AnsweredContinue ==
    ASSUME TypeOK, Fresh, HoldsKnown, Answered, \A o \in Order : OneType(o),
           NEW s \in Slot, Continue(s)
    PROVE  Answered'
BY ContinueCases, SeedAnswered, ReserveItemAnswered, RollBackItemAnswered,
   PersistOrderAnswered, ReleaseAnswered, RestAnswered

LEMMA AnsweredStart ==
    ASSUME TypeOK, Answered, "cronPaid" \notin Calls, NEW s \in Slot, NEW o \in Order,
           Start(s, o)
    PROVE  Answered'
<1>1. UNCHANGED <<reservation, status>>
  BY StartFrame, Started
<1>2. CASE UNCHANGED h
  BY <1>1, <1>2 DEF Answered
<1>3. ASSUME NEW r \in Running, Begun(s, o, r) PROVE Answered'
  <2>1. h[s] = Idle /\ \A x \in Slot : h'[x] = IF x = s THEN r ELSE h[x]
    BY <1>3 DEF Begun, TypeOK, HandlerTypeOK
  <2>2. \A x \in Slot, y \in Order : Owes(h[x], y) => Owes(h'[x], y)
    BY <2>1 DEF Owes
  <2>3. r # Idle => r.op # "cronPaid"
    BY <1>2, <2>1, StartTarget DEF Begun, Answered
  <2>4. \A k \in reservation : k.order \in Order
    BY DEF TypeOK, StoreTypeOK, Hold
  <2> QED
    BY <1>1, <2>1, <2>2, <2>3, <2>4 DEF Answered
<1> QED
  BY <1>2, <1>3, Started

LEMMA AnsweredStep ==
    ASSUME TypeOK, Fresh, HoldsKnown, Answered, [Next]_vars,
           MaxCrashes = 0, "cronPaid" \notin Calls, \A o \in Order : OneType(o)
    PROVE  Answered'
<1>1. ASSUME NEW s \in Slot, Crash(s) PROVE FALSE
  BY <1>1 DEF Crash, TypeOK, HandlerTypeOK
<1>2. CASE UNCHANGED <<h, status>> /\ reservation' \subseteq reservation
  BY <1>2 DEF Answered
<1> QED
  BY <1>1, <1>2, AnsweredContinue, AnsweredStart, Quiet, QuietHeld DEF Next

(***************************************************************************)
(* However the handlers of an order overlap, and whatever the gateway and  *)
(* PostgreSQL refuse, its key does not outlive it: for any number of       *)
(* orders, types, handlers and calls.  What the proof needs is that no     *)
(* handler is stopped half-way, that requests are for one ticket type (the *)
(* rollback of a request for several may leave a key behind), and that the *)
(* cron finds no order paid (it leaves the key to its TTL).                *)
(***************************************************************************)
THEOREM KeysReturned ==
    ASSUME MaxCrashes = 0, "cronPaid" \notin Calls, \A o \in Order : OneType(o)
    PROVE  Spec => []NoOrphanHold
<1>1. Init => Answered
  BY DEF Init, Answered
<1>2. TypeOK /\ Fresh /\ HoldsKnown /\ Answered /\ [Next]_vars => Answered'
  BY AnsweredStep
<1>3. Answered => NoOrphanHold
  BY DEF Answered, NoOrphanHold, Owes, Busy
<1> QED
  BY <1>1, <1>2, <1>3, HeldAlways, PTL DEF Spec

-----------------------------------------------------------------------------
(* Orders that are handled one call at a time, and to the end *)

(***************************************************************************)
(* The creation of an order of D is never undone after its row was         *)
(* written: PostgreSQL has the tickets Redis reserved, and the gateway     *)
(* makes a payment URL.                                                    *)
(***************************************************************************)
NothingUndone(D) ==
    \A s \in Slot : h[s] # Idle /\ h[s].order \in D
                      => h[s].op \notin {"undoCount", "undoGateway"}

(* Who stops half-way between the counters of an order stops outside D. *)
StopsOutside(D) ==
    \A s \in Slot : Crash(s) /\ h[s].at \in {"count", "counters"} => h[s].order \notin D

ClearAt(a) ==
    /\ a.at = "counters" => a.op \in {"cancel", "expire"} /\ "error" \notin a.todo
    /\ a.at = "release" => a.op \in {"cancel", "expire", "failed", "cronFailed",
                                     "cronExpired", "undoPersist"}

(* A createOrder is about to count its tickets: the counter rows may not be there yet. *)
Counting(o) ==
    \E s \in Slot : /\ h[s] # Idle /\ h[s].order = o
                    /\ h[s].op = "create" /\ h[s].at = "count"

(***************************************************************************)
(* An order of D has its counter rows, so that no decrement throws and who *)
(* has released its key goes on to close it.                               *)
(***************************************************************************)
Clear(D) ==
    /\ \A s \in Slot : h[s] # Idle /\ h[s].order \in D => ClearAt(h[s])
    /\ \A o \in D : status[o] # "NONE" /\ ~ Counting(o) => RowsOf(o) \subseteq counterRows

(* What a handler of an order of D knows when it goes on. *)
Sound(D) ==
    /\ D \in SUBSET Order
    /\ TypeOK /\ Fresh /\ Lone(D) /\ HoldsKnown /\ Clear(D)
    /\ NothingUndone(D) /\ NothingUndone(D)'

LEMMA RunningNotIdle ==
    ASSUME NEW a \in Running
    PROVE  a # Idle /\ a.at # "idle"
<1>1. "op" \in DOMAIN a /\ "op" \notin DOMAIN Idle
  BY DEF Running, Idle
<1>2. "idle" \notin Step /\ a.at \in Step
  BY DEF Step, Running
<1> QED
  BY <1>1, <1>2

(* A handler that goes on with order o of D. *)
Ready(s, o, D) ==
    /\ Sound(D) /\ Continue(s) /\ o \in D
    /\ h[s].order = o /\ h[s] \in Running /\ h \in [Slot -> Running \cup {Idle}]
    /\ StageAt(h[s], status[o], issued[o]) /\ PaidIfIssued(status[o], issued[o])
    /\ issued[o] \in Nat /\ status \in [Order -> Status] /\ ClearAt(h[s])
    /\ h[s].op \notin {"undoCount", "undoGateway"}
    /\ h'[s] # Idle => h'[s].order = o /\ h'[s].op \notin {"undoCount", "undoGateway"}
    /\ \A x \in Slot : h[x] # Idle /\ h[x].order = o => x = s

LEMMA GetsReady ==
    ASSUME NEW D, Sound(D), NEW s \in Slot, Continue(s), h[s].order \in D
    PROVE  Ready(s, h[s].order, D)
<1>1. h[s] # Idle
  BY ContinueBusy
<1>2. /\ h[s] \in Running /\ h[s].order \in Order
      /\ h \in [Slot -> Running \cup {Idle}]
      /\ issued[h[s].order] \in Nat /\ status \in [Order -> Status]
  BY <1>1, BusySlot DEF Sound, TypeOK, HandlerTypeOK, RowTypeOK, CounterTypeOK
<1>3. /\ StageAt(h[s], status[h[s].order], issued[h[s].order])
      /\ PaidIfIssued(status[h[s].order], issued[h[s].order])
      /\ ClearAt(h[s])
      /\ \A x \in Slot : h[x] # Idle /\ h[x].order = h[s].order => x = s
  BY <1>1, <1>2 DEF Sound, Lone, Alone, Clear
<1>4. h'[s] # Idle => h'[s].order = h[s].order
  <2>1. PICK r \in Running \cup {Idle} :
          h' = [h EXCEPT ![s] = r] /\ (r # Idle => r.order = h[s].order)
    BY HandlerAdvance DEF Advance, Advances, Sound
  <2> QED
    BY <1>2, <2>1
<1>5. /\ h[s].op \notin {"undoCount", "undoGateway"}
      /\ h'[s] # Idle => h'[s].op \notin {"undoCount", "undoGateway"}
  BY <1>1, <1>4 DEF Sound, NothingUndone
<1> QED
  BY <1>2, <1>3, <1>4, <1>5 DEF Ready

(* A handler that drops the counters finds their rows. *)
LEMMA AtCounters ==
    ASSUME NEW D, NEW s \in Slot, NEW o, Ready(s, o, D), h[s].at = "counters"
    PROVE  /\ status[o] = "PENDING_PAYMENT" /\ issued[o] = 0
           /\ h[s].op \in {"cancel", "expire"} /\ "error" \notin h[s].todo
           /\ RowsOf(o) \subseteq counterRows
<1>1. h[s].op \in {"cancel", "expire"} /\ "error" \notin h[s].todo
  BY DEF Ready, ClearAt
<1>2. status[o] = "PENDING_PAYMENT" /\ issued[o] = 0
  BY <1>1 DEF Ready, StageAt, StatusAt, EarlyAt, PaidIfIssued
<1>3. ~ Counting(o)
  BY DEF Counting, Ready
<1> QED
  BY <1>1, <1>2, <1>3 DEF Ready, Sound, Clear

LEMMA StartClear ==
    ASSUME TypeOK, NEW s \in Slot, NEW o \in Order, Start(s, o)
    PROVE  /\ UNCHANGED counterRows
           /\ \/ UNCHANGED h
              \/ /\ h'[s].at \notin {"counters", "count", "persist"}
                 /\ h'[s].at = "release" => h'[s].op \in {"cancel", "expire"}
<1>1. h \in [Slot -> Running \cup {Idle}]
  BY DEF TypeOK, HandlerTypeOK
<1>2. CASE StartCreate(s, o) \/ StartRepay(s, o) \/ StartCancel(s, o)
  BY <1>1, <1>2 DEF StartCreate, StartRepay, StartCancel, Begin, counterVars
<1>3. CASE StartExpire(s, o) \/ StartIssue(s, o)
  BY <1>1, <1>3 DEF StartExpire, StartIssue, Begin, counterVars
<1>4. CASE Cron(s, o)
  BY <1>1, <1>4 DEF Cron, StartCron, Begin, counterVars
<1>5. ASSUME NEW result \in {"success", "failed"}, StartWebhook(s, o, result)
      PROVE  /\ h'[s].at \notin {"counters", "count", "persist"}
             /\ h'[s].at = "release" => h'[s].op \in {"cancel", "expire"}
             /\ UNCHANGED counterRows
  BY <1>1, <1>5 DEF StartWebhook, Begin, counterVars
<1> QED
  BY <1>2, <1>3, <1>4, <1>5 DEF Start

(* No handler deletes a counter row. *)
LEMMA RowsStay ==
    ASSUME NEW s \in Slot, Continue(s)
    PROVE  counterRows \subseteq counterRows'
BY DEF Continue, Create, Settle, ReadSeeds, SeedKeys, JudgeReplies, RollBackItem, ReserveItem,
   PersistOrder, CountReserved, OpenUrl, CallGateway, ScheduleExpire, DeleteOrder,
   ReleaseHold, DropUserCounters, DropTypeCounters, AbortSettle, CloseOrder, CommitSuccess,
   ForgetHold, Recheck, CommitVerdict, EnqueueIssue, TallyTickets, CommitIssue, AckIssue,
   IssueTickets, counterVars

(* Where a handler of an order of D goes next. *)
LEMMA ReadyClear ==
    ASSUME NEW D, NEW s \in Slot, NEW o, Ready(s, o, D)
    PROVE  /\ h'[s] # Idle => ClearAt(h'[s])
           /\ \/ status'[o] = "NONE" \/ status[o] # "NONE"
              \/ h'[s] # Idle /\ h'[s].op = "create" /\ h'[s].at = "count"
           /\ h[s].op = "create" /\ h[s].at = "count" => RowsOf(o) \subseteq counterRows'
<1>1. /\ h[s] \in Running /\ h \in [Slot -> Running \cup {Idle}] /\ h[s].order = o
      /\ StageAt(h[s], status[o], issued[o]) /\ ClearAt(h[s]) /\ o \in Order
      /\ h[s].op \notin {"undoCount", "undoGateway"}
      /\ h'[s] # Idle => h'[s].op \notin {"undoCount", "undoGateway"}
      /\ status \in [Order -> Status] /\ Continue(s)
  BY DEF Ready, Sound
<1> DEFINE Counts == h[s].op = "create" /\ h[s].at = "count"
           Goal == /\ h'[s] # Idle => ClearAt(h'[s])
                   /\ \/ status'[o] = "NONE" \/ status[o] # "NONE"
                      \/ h'[s] # Idle /\ h'[s].op = "create" /\ h'[s].at = "count"
                   /\ Counts => RowsOf(o) \subseteq counterRows'
<1>2. CASE ReadSeeds(s) \/ SeedKeys(s) \/ JudgeReplies(s)
  BY <1>1, <1>2 DEF ReadSeeds, SeedKeys, JudgeReplies, At, Go, Running, ClearAt, rowVars
<1>3. ASSUME NEW t \in TicketType, ReserveItem(s, t) PROVE Goal
  BY <1>1, <1>3 DEF ReserveItem, At, rowVars
<1>4. CASE RollBackItem(s)
  BY <1>1, <1>4 DEF RollBackItem, At, End, ClearAt, rowVars
<1>5. CASE PersistOrder(s)
  <2>1. CASE Go(s, "count")
    <3>1. h'[s] = [h[s] EXCEPT !.at = "count"]
      BY <1>1, <2>1 DEF Go
    <3>2. h'[s] \in Running /\ h'[s].at = "count" /\ h'[s].op = "create"
      BY <1>1, <1>5, <3>1 DEF Running, Step, PersistOrder, At
    <3> QED
      BY <1>5, <3>2, RunningNotIdle DEF PersistOrder, At, ClearAt
  <2>2. CASE h' = [h EXCEPT ![s].op = "undoPersist", ![s].at = "release"] /\ status' = status
    BY <1>1, <1>5, <2>2 DEF PersistOrder, At, Running, ClearAt
  <2> QED
    BY <1>5, <2>1, <2>2 DEF PersistOrder
<1>6. CASE CountReserved(s)
  <2>1. CASE Go(s, "openUrl") /\ counterRows' = counterRows \cup RowsOf(o)
    BY <1>1, <1>6, <2>1 DEF CountReserved, Go, Running, ClearAt, rowVars
  <2>2. CASE h' = [h EXCEPT ![s].op = "undoCount", ![s].at = "release"]
    <3>1. h'[s] = [h[s] EXCEPT !.op = "undoCount", !.at = "release"]
      BY <1>1, <2>2
    <3>2. h'[s] \in Running /\ h'[s].op = "undoCount"
      BY <1>1, <3>1 DEF Running, Op, Step
    <3> QED
      BY <1>1, <3>2, RunningNotIdle
  <2> QED
    BY <1>1, <1>6, <2>1, <2>2 DEF CountReserved
<1>7. CASE OpenUrl(s) \/ CallGateway(s)
  <2>1. /\ \/ h'[s] = Idle
           \/ h'[s].at \in {"gateway", "schedule"}
           \/ h' = [h EXCEPT ![s].op = "undoGateway", ![s].at = "release"]
        /\ ~ Counts /\ status' = status
    BY <1>1, <1>7 DEF OpenUrl, CallGateway, At, Go, End, Running, rowVars
  <2>2. CASE h' = [h EXCEPT ![s].op = "undoGateway", ![s].at = "release"]
    <3>1. h'[s] = [h[s] EXCEPT !.op = "undoGateway", !.at = "release"]
      BY <1>1, <2>2
    <3>2. h'[s] \in Running /\ h'[s].op = "undoGateway"
      BY <1>1, <3>1 DEF Running, Op, Step
    <3> QED
      BY <1>1, <3>2, RunningNotIdle
  <2>3. CASE h'[s] = Idle \/ h'[s].at \in {"gateway", "schedule"}
    BY <2>1, <2>3 DEF ClearAt
  <2> QED
    BY <2>1, <2>2, <2>3
<1>8. CASE ScheduleExpire(s) \/ AbortSettle(s) \/ ForgetHold(s) \/ EnqueueIssue(s) \/ AckIssue(s)
  BY <1>1, <1>8 DEF ScheduleExpire, AbortSettle, ForgetHold, EnqueueIssue, AckIssue, At, End,
     rowVars
<1>9. ~ DeleteOrder(s)
  BY <1>1 DEF DeleteOrder, At
<1>10. CASE ReleaseHold(s)
  <2>1. AfterRelease[h[s].op] = IF h[s].op \in {"cancel", "expire"} THEN "counters" ELSE "end"
    BY <1>1, <1>10 DEF AfterRelease, Op, AllCalls, ReleaseHold, ClearAt
  <2>2. ~ Counts /\ status' = status
    BY <1>10 DEF ReleaseHold, rowVars
  <2>3. h'[s] = Idle \/ h'[s] = [h[s] EXCEPT !.at = "counters", !.todo = {"types", "users"}]
    BY <1>1, <1>10, <2>1 DEF ReleaseHold, End
  <2>4. h[s].op \in {"cancel", "expire"} \/ h'[s] = Idle
    BY <1>1, <1>10, <2>1 DEF ReleaseHold, End
  <2>5. h'[s] # Idle => h'[s].at = "counters" /\ h'[s].op = h[s].op /\ "error" \notin h'[s].todo
    <3> DEFINE q == [h[s] EXCEPT !.at = "counters"]
               q2 == [q EXCEPT !.todo = {"types", "users"}]
    <3>1. q \in Running /\ q.op = h[s].op /\ q.at = "counters"
      BY <1>1 DEF Running, Step
    <3>2. q2.op = q.op /\ q2.at = q.at /\ q2.todo = {"types", "users"}
      BY <3>1 DEF Running
    <3>3. h'[s] = Idle \/ h'[s] = q2
      BY <2>3
    <3> HIDE DEF q2
    <3> QED
      BY <3>1, <3>2, <3>3
  <2> QED
    BY <2>2, <2>4, <2>5 DEF ClearAt
<1>11. CASE DropUserCounters(s) \/ DropTypeCounters(s)
  <2>1. /\ status[o] = "PENDING_PAYMENT" /\ h[s].at = "counters" /\ RowsOf(o) \subseteq counterRows
        /\ h[s].op \in {"cancel", "expire"} /\ "error" \notin h[s].todo
    BY <1>11, AtCounters DEF DropUserCounters, DropTypeCounters
  <2>2. \E X \in {{"users"}, {"types"}} : h' = [h EXCEPT ![s].todo = @ \ X]
    BY <1>1, <1>11, <2>1 DEF DropUserCounters, DropTypeCounters
  <2>3. /\ h'[s].at = h[s].at /\ h'[s].op = h[s].op /\ h'[s].todo \subseteq h[s].todo
    BY <1>1, <2>2 DEF Running
  <2> QED
    BY <2>1, <2>3 DEF ClearAt
<1>12. CASE CloseOrder(s)
  <2>1. status[o] = "PENDING_PAYMENT" /\ h[s].op \in {"cancel", "expire"}
    BY <1>12, AtCounters DEF CloseOrder
  <2> QED
    BY <1>1, <1>12, <2>1 DEF CloseOrder, End
<1>13. CASE CommitSuccess(s)
  <2>1. status[o] # "NONE"
    BY <1>1, <1>13 DEF CommitSuccess, At, StageAt, StatusAt, EarlyAt
  <2> QED
    BY <1>1, <1>13, <2>1 DEF CommitSuccess, At, Go, Running, ClearAt
<1>14. CASE Recheck(s)
  <2>1. status[o] = "PENDING_PAYMENT"
    BY <1>1, <1>14 DEF Recheck, StageAt, StatusAt, EarlyAt, Ready, Sound, HoldsKnown, HeldAt
  <2> QED
    BY <1>1, <1>14, <2>1 DEF Recheck, Go, Running, ClearAt, rowVars
<1>15. CASE CommitVerdict(s)
  <2>1. h[s].op \in {"failed", "cronFailed", "cronExpired", "cronPaid"} /\ status[o] # "NONE"
    BY <1>1, <1>15 DEF CommitVerdict, StatusOf, StageAt, StatusAt, EarlyAt
  <2> QED
    BY <1>1, <1>15, <2>1 DEF CommitVerdict, Go, Running, ClearAt
<1>16. CASE TallyTickets(s) \/ CommitIssue(s)
  BY <1>1, <1>16 DEF TallyTickets, CommitIssue, At, Go, End, Running, ClearAt, rowVars
<1> QED
  BY <1>1, <1>2, <1>3, <1>4, <1>5, <1>6, <1>7, <1>8, <1>9, <1>10, <1>11, <1>12, <1>13, <1>14,
     <1>15, <1>16 DEF Continue, Create, Settle

LEMMA ClearContinue ==
    ASSUME NEW D, Sound(D), NEW s \in Slot, Continue(s)
    PROVE  Clear(D)'
<1> DEFINE o == h[s].order
<1>0. TypeOK /\ Clear(D) /\ D \subseteq Order
  BY DEF Sound
<1>1. h[s] # Idle /\ o \in Order /\ counterRows \subseteq counterRows'
  BY <1>0, ContinueBusy, RowsStay, BusySlot DEF TypeOK
<1>2. PICK r \in Running \cup {Idle}, w \in Status :
        /\ h' = [h EXCEPT ![s] = r]
        /\ status' = [status EXCEPT ![o] = w]
        /\ r # Idle => r.order = o
  BY <1>0, HandlerAdvance DEF Advance, Advances
<1>3. \A x \in Slot : h'[x] = IF x = s THEN r ELSE h[x]
  BY <1>0, <1>2 DEF TypeOK, HandlerTypeOK
<1>4. \A x \in Order : status'[x] = IF x = o THEN w ELSE status[x]
  BY <1>0, <1>2 DEF TypeOK, RowTypeOK
<1>5. ASSUME NEW x \in Slot, h'[x] # Idle, h'[x].order \in D
      PROVE  ClearAt(h'[x])
  <2>1. CASE x = s
    <3>1. o \in D
      BY <1>2, <1>3, <1>5, <2>1
    <3>2. Ready(s, o, D)
      BY <3>1, GetsReady
    <3> QED
      BY <1>5, <2>1, <3>2, ReadyClear
  <2>2. CASE x # s
    BY <1>0, <1>3, <1>5, <2>2 DEF Clear
  <2> QED
    BY <2>1, <2>2
<1>6. ASSUME NEW x \in D, status'[x] # "NONE", ~ Counting(x)'
      PROVE  RowsOf(x) \subseteq counterRows'
  <2>1. \A y \in Slot : ~ (h'[y] # Idle /\ h'[y].order = x /\ h'[y].op = "create" /\ h'[y].at = "count")
    BY <1>6 DEF Counting
  <2>2. CASE x # o
    <3>1. ~ Counting(x)
      BY <1>3, <2>1, <2>2 DEF Counting
    <3> QED
      BY <1>0, <1>1, <1>4, <1>6, <2>2, <3>1 DEF Clear
  <2>3. CASE x = o
    <3>1. Ready(s, o, D)
      BY <2>3, GetsReady
    <3>2. h[s].op = "create" /\ h[s].at = "count" => RowsOf(o) \subseteq counterRows'
      BY <3>1, ReadyClear
    <3>3. status[o] # "NONE"
      BY <1>2, <1>6, <2>1, <2>3, <3>1, ReadyClear DEF Ready
    <3>4. ~ (h[s].op = "create" /\ h[s].at = "count") => ~ Counting(o)
      BY <3>1 DEF Ready, Counting
    <3> QED
      BY <1>0, <1>1, <2>3, <3>2, <3>3, <3>4 DEF Clear
  <2> QED
    BY <2>2, <2>3
<1> QED
  BY <1>5, <1>6 DEF Clear, RowsOf

LEMMA ClearStart ==
    ASSUME TypeOK, NEW D \in SUBSET Order, Clear(D), NEW s \in Slot, NEW o \in Order, Start(s, o)
    PROVE  Clear(D)'
<1>1. UNCHANGED <<status, counterRows>>
  BY Started, StartClear
<1>2. CASE UNCHANGED h
  BY <1>1, <1>2 DEF Clear, Counting, RowsOf
<1>3. ASSUME NEW r \in Running, Begun(s, o, r), ~ UNCHANGED h
      PROVE  Clear(D)'
  <2>1. h[s] = Idle /\ \A x \in Slot : h'[x] = IF x = s THEN r ELSE h[x]
    BY <1>3 DEF Begun, TypeOK, HandlerTypeOK
  <2>2. r.at \notin {"counters", "count"} /\ (r.at = "release" => r.op \in {"cancel", "expire"})
    BY <1>3, <2>1, StartClear
  <2>3. \A x \in Order : Counting(x)' <=> Counting(x)
    BY <2>1, <2>2 DEF Counting
  <2>4. ClearAt(r)
    BY <2>2 DEF ClearAt
  <2> QED
    BY <1>1, <2>1, <2>3, <2>4 DEF Clear, RowsOf
<1> QED
  BY <1>2, <1>3, Started

LEMMA ClearStep ==
    ASSUME NEW D, Sound(D), [StopsOutside(D)]_vars, [Next]_vars
    PROVE  Clear(D)'
<1>0. TypeOK /\ Clear(D) /\ D \in SUBSET Order
  BY DEF Sound
<1>1. CASE UNCHANGED vars
  BY <1>0, <1>1 DEF Clear, Counting, RowsOf, vars, rowVars, counterVars
<1>2. ASSUME NEW s \in Slot, Crash(s), StopsOutside(D) PROVE Clear(D)'
  <2>1. /\ h[s] # Idle /\ h' = [h EXCEPT ![s] = Idle] /\ UNCHANGED <<status, counterRows>>
    BY <1>0, <1>2, Crashed DEF Crash, counterVars
  <2>2. \A x \in Slot : h'[x] = IF x = s THEN Idle ELSE h[x]
    BY <1>0, <2>1 DEF TypeOK, HandlerTypeOK
  <2>3. \A x \in D : Counting(x) => Counting(x)'
    BY <1>2, <2>2 DEF Counting, StopsOutside
  <2> QED
    BY <1>0, <2>1, <2>2, <2>3 DEF Clear, RowsOf
<1>3. ASSUME NEW o \in Order, Elapse(o) PROVE Clear(D)'
  <2>1. UNCHANGED <<h, status, counterRows>>
    BY <1>0, <1>3, Quiet DEF Elapse, ExpiresAtPasses, HoldLapses, counterVars
  <2> QED
    BY <1>0, <2>1 DEF Clear, Counting, RowsOf
<1>4. ASSUME NEW o \in Order, NEW result \in DOMAIN PaymentOf, RecordWebhook(o, result)
      PROVE  Clear(D)'
  BY <1>0, <1>4 DEF Clear, Counting, RowsOf, RecordWebhook, counterVars
<1> QED
  BY <1>0, <1>1, <1>2, <1>3, <1>4, ClearContinue, ClearStart DEF Next

LEMMA ClearInit == ASSUME NEW D \in SUBSET Order PROVE Init => Clear(D)
BY DEF Init, Clear

-----------------------------------------------------------------------------
(* Lazy seeding *)

(* Past the seeding of its keys; an order that a handler has brought there. *)
Past(a) == ~ (a.op = "create" /\ a.at \in {"ensure", "seed"})
Opened(o) == status[o] # "NONE" \/ \E s \in Slot : h[s] # Idle /\ h[s].order = o /\ Past(h[s])

(* A handler that has read the counters its keys will be seeded with. *)
Seeding(s) == h[s] # Idle /\ h[s].op = "create" /\ h[s].at = "seed"

(***************************************************************************)
(* A key is there before PostgreSQL counts anything under it, so that what *)
(* a request has read still holds when it sets a key that is missing.      *)
(***************************************************************************)
SeedsFresh ==
    /\ \A o \in Order : Opened(o) => Cart(o) \subseteq stockKeys /\ RowsOf(o) \subseteq limitKeys
    /\ \A t \in TicketType : /\ t \in stockKeys => supply[t] = Total[t]
                             /\ t \notin stockKeys => supply[t] = 0 /\ sold[t] = 0 /\ reserved[t] = 0
    /\ \A u \in User, t \in TicketType :
         /\ base[u][t] = 0
         /\ <<u, t>> \notin limitKeys => userPaid[u][t] = 0 /\ userReserved[u][t] = 0
    /\ \A s \in Slot : Seeding(s) => \A t \in TicketType :
         /\ t \in stockKeys \/ seen[h[s].order][t].avail = Total[t]
         /\ <<Owner[h[s].order], t>> \in limitKeys \/ seen[h[s].order][t].count = 0

(* No order is opened and no handler reads by this step. *)
NoneOpened ==
    /\ \A x \in Order : Opened(x)' => Opened(x)
    /\ \A s \in Slot : Seeding(s)' => /\ Seeding(s) /\ h'[s].order = h[s].order
                                      /\ seen'[h[s].order] = seen[h[s].order]

(* A step that changes no key, and no counter but those of o's items. *)
Touches(o) ==
    /\ UNCHANGED <<stockKeys, limitKeys, supply, base>>
    /\ \A t \in TicketType \ Cart(o) : sold'[t] = sold[t] /\ reserved'[t] = reserved[t]
    /\ \A u \in User, t \in TicketType : <<u, t>> \notin RowsOf(o) =>
         userPaid'[u][t] = userPaid[u][t] /\ userReserved'[u][t] = userReserved[u][t]

LEMMA SeedsKept ==
    ASSUME SeedsFresh, NoneOpened, NEW o \in Order, Opened(o), Touches(o)
    PROVE  SeedsFresh'
<1>1. Cart(o) \subseteq stockKeys /\ RowsOf(o) \subseteq limitKeys
  BY DEF SeedsFresh
<1>2. \A x \in Order : Opened(x)' => Cart(x) \subseteq stockKeys' /\ RowsOf(x) \subseteq limitKeys'
  BY DEF SeedsFresh, NoneOpened, Touches
<1>3. ASSUME NEW t \in TicketType
      PROVE  /\ t \in stockKeys' => supply'[t] = Total[t]
             /\ t \notin stockKeys' => supply'[t] = 0 /\ sold'[t] = 0 /\ reserved'[t] = 0
  BY <1>1 DEF SeedsFresh, Touches
<1>4. ASSUME NEW u \in User, NEW t \in TicketType
      PROVE  /\ base'[u][t] = 0
             /\ <<u, t>> \notin limitKeys' => userPaid'[u][t] = 0 /\ userReserved'[u][t] = 0
  BY <1>1 DEF SeedsFresh, Touches
<1>5. ASSUME NEW s \in Slot, Seeding(s)', NEW t \in TicketType
      PROVE  /\ t \in stockKeys' \/ seen'[h'[s].order][t].avail = Total[t]
             /\ <<Owner[h'[s].order], t>> \in limitKeys' \/ seen'[h'[s].order][t].count = 0
  BY <1>5 DEF SeedsFresh, NoneOpened, Touches
<1> QED
  BY <1>2, <1>3, <1>4, <1>5 DEF SeedsFresh, RowsOf, Cart

LEMMA SeedsStill ==
    ASSUME SeedsFresh, NoneOpened,
           UNCHANGED <<stockKeys, limitKeys, supply, base, sold, reserved, userPaid, userReserved>>
    PROVE  SeedsFresh'
<1>1. \A x \in Order : Opened(x)' => Cart(x) \subseteq stockKeys' /\ RowsOf(x) \subseteq limitKeys'
  BY DEF SeedsFresh, NoneOpened
<1>2. ASSUME NEW s \in Slot, Seeding(s)', NEW t \in TicketType
      PROVE  /\ t \in stockKeys' \/ seen'[h'[s].order][t].avail = Total[t]
             /\ <<Owner[h'[s].order], t>> \in limitKeys' \/ seen'[h'[s].order][t].count = 0
  BY <1>2 DEF SeedsFresh, NoneOpened
<1> QED
  BY <1>1, <1>2 DEF SeedsFresh, RowsOf, Cart

(* The steps of a handler that is past the seeding of its keys. *)
Later(s) == Continue(s) /\ ~ ReadSeeds(s) /\ ~ SeedKeys(s)

LEMMA LaterRest ==
    ASSUME TypeOK, NEW s \in Slot, Rest(s)
    PROVE  /\ UNCHANGED storeVars /\ seen' = seen
           /\ h'[s] # Idle => h'[s].at # "seed"
<1>1. h[s] \in Running /\ h \in [Slot -> Running \cup {Idle}] /\ h[s] # Idle
  BY RestFrame, BusySlot DEF TypeOK, HandlerTypeOK
<1>2. UNCHANGED storeVars /\ seen' = seen
  BY DEF Rest, CountReserved, OpenUrl, CallGateway, ScheduleExpire, DeleteOrder,
     DropUserCounters, DropTypeCounters, AbortSettle, CloseOrder, CommitSuccess, Recheck,
     CommitVerdict, EnqueueIssue, TallyTickets, CommitIssue, AckIssue, localVars
<1>3. CASE CountReserved(s)
  BY <1>1, <1>2, <1>3 DEF CountReserved, Go, Running
<1>4. CASE OpenUrl(s) \/ CallGateway(s)
  BY <1>1, <1>2, <1>4 DEF OpenUrl, CallGateway, Go, End, Running
<1>5. CASE ScheduleExpire(s) \/ DeleteOrder(s) \/ AbortSettle(s) \/ EnqueueIssue(s) \/ AckIssue(s)
  BY <1>1, <1>2, <1>5 DEF ScheduleExpire, DeleteOrder, AbortSettle, EnqueueIssue, AckIssue, End
<1>6. CASE DropUserCounters(s) \/ DropTypeCounters(s)
  BY <1>1, <1>2, <1>6 DEF DropUserCounters, DropTypeCounters, Running
<1>7. CASE CloseOrder(s) \/ Recheck(s) \/ CommitVerdict(s)
  BY <1>1, <1>2, <1>7 DEF CloseOrder, Recheck, CommitVerdict, Go, End, Running
<1>8. CASE CommitSuccess(s) \/ TallyTickets(s) \/ CommitIssue(s)
  BY <1>1, <1>2, <1>8 DEF CommitSuccess, TallyTickets, CommitIssue, Go, End, Running
<1> QED
  BY <1>2, <1>3, <1>4, <1>5, <1>6, <1>7, <1>8 DEF Rest

LEMMA LaterTarget ==
    ASSUME TypeOK, NEW s \in Slot, Later(s)
    PROVE  seen' = seen /\ (h'[s] # Idle => h'[s].at # "seed") /\ Past(h[s])
<1>1. h[s] # Idle
  BY ContinueBusy DEF Later
<1>2. h[s] \in Running /\ h \in [Slot -> Running \cup {Idle}]
  BY <1>1, BusySlot DEF TypeOK, HandlerTypeOK
<1>3. CASE Rest(s)
  <2>1. Past(h[s])
    <3>1. ~ EarlyAt(h[s]) \/ h[s].op = "undoPersist"
      BY <1>3, RestFrame
    <3> QED
      BY <3>1 DEF EarlyAt, Past
  <2> QED
    BY <1>3, <2>1, LaterRest
<1>4. CASE JudgeReplies(s)
  BY <1>2, <1>4 DEF JudgeReplies, At, Go, Running, Past
<1>5. CASE RollBackItem(s)
  <2>1. h[s].at = "rollback" /\ (UNCHANGED h \/ End(s)) /\ seen' = seen
    BY <1>5 DEF RollBackItem, At
  <2> QED
    BY <1>2, <2>1 DEF End, Past
<1>6. ASSUME NEW t \in TicketType, ReserveItem(s, t)
      PROVE  seen' = seen /\ h'[s].at # "seed" /\ Past(h[s])
  BY <1>6 DEF ReserveItem, At, Past
<1>7. CASE PersistOrder(s)
  BY <1>2, <1>7 DEF PersistOrder, At, Go, Running, Past, localVars
<1>8. CASE ReleaseHold(s)
  <2>1. h[s].at = "release" /\ seen' = seen
    BY <1>8 DEF ReleaseHold, localVars
  <2>2. AfterRelease[h[s].op] \in {"counters", "delete", "end"}
    BY <1>2 DEF AfterRelease, Running
  <2>3. h'[s] # Idle => h'[s].at # "seed"
    BY <1>2, <1>8, <2>2 DEF ReleaseHold, End, Running
  <2> QED
    BY <2>1, <2>3 DEF Past
<1>9. CASE ForgetHold(s)
  BY <1>2, <1>9 DEF ForgetHold, At, End, Past, localVars
<1> QED
  BY <1>3, <1>4, <1>5, <1>6, <1>7, <1>8, <1>9, ContinueCases DEF Later

LEMMA LaterOpens ==
    ASSUME TypeOK, NEW s \in Slot, Later(s)
    PROVE  NoneOpened /\ Opened(h[s].order)
<1>1. PICK o \in Order : h[s] # Idle /\ h[s].order = o
  BY ContinueBusy, BusySlot DEF Later, TypeOK
<1>2. PICK r \in Running \cup {Idle}, w \in Status :
        /\ h' = [h EXCEPT ![s] = r]
        /\ status' = [status EXCEPT ![o] = w]
        /\ r # Idle => r.order = o
  BY <1>1, HandlerAdvance DEF Later, Advance, Advances
<1>3. /\ \A x \in Slot : h'[x] = IF x = s THEN r ELSE h[x]
      /\ \A x \in Order \ {o} : status'[x] = status[x]
  BY <1>2 DEF TypeOK, HandlerTypeOK, RowTypeOK
<1>4. seen' = seen /\ (h'[s] # Idle => h'[s].at # "seed") /\ Past(h[s])
  BY LaterTarget
<1>5. Opened(o)
  BY <1>1, <1>4 DEF Opened
<1>6. ASSUME NEW x \in Order, Opened(x)' PROVE Opened(x)
  <2>1. CASE x = o
    BY <1>5, <2>1
  <2>2. CASE x # o
    BY <1>2, <1>3, <1>6, <2>2 DEF Opened
  <2> QED
    BY <2>1, <2>2
<1>7. ASSUME NEW x \in Slot, Seeding(x)'
      PROVE  Seeding(x) /\ h'[x].order = h[x].order /\ seen'[h[x].order] = seen[h[x].order]
  <2>1. x # s
    BY <1>4, <1>7 DEF Seeding
  <2> QED
    BY <1>3, <1>4, <1>7, <2>1 DEF Seeding
<1> QED
  BY <1>1, <1>5, <1>6, <1>7 DEF NoneOpened

(* What a settled quantity leaves alone: the types the order did not ask for. *)
LEMMA OutsideCart ==
    ASSUME NEW o \in Order, NEW t \in TicketType, t \notin Cart(o), NEW f, f[t] \in Int
    PROVE  /\ Plus(f, 1, o)[t] = f[t] /\ Plus(f, -1, o)[t] = f[t]
           /\ PlusIfEnough(f, o)[t] = f[t]
<1>1. Items[o][t] = 0
  BY ItemsNat DEF Cart
<1> QED
  BY <1>1 DEF Plus, PlusIfEnough

LEMMA OutsideRows ==
    ASSUME CounterTypeOK, NEW o \in Order, NEW u \in User, NEW t \in TicketType,
           <<u, t>> \notin RowsOf(o)
    PROVE  /\ UserDropped(o)[u][t] = userReserved[u][t]
           /\ [userReserved EXCEPT ![Owner[o]] = Plus(@, 1, o)][u][t] = userReserved[u][t]
           /\ [userReserved EXCEPT ![Owner[o]] = PlusIfEnough(@, o)][u][t] = userReserved[u][t]
           /\ [userPaid EXCEPT ![Owner[o]] = Plus(@, 1, o)][u][t] = userPaid[u][t]
<1>1. u # Owner[o] \/ t \notin Cart(o)
  BY DEF RowsOf
<1>2. userReserved[u][t] \in Int /\ userPaid[u][t] \in Int
  BY DEF CounterTypeOK
<1>3. CASE u # Owner[o]
  BY <1>3 DEF CounterTypeOK, UserDropped
<1>4. CASE u = Owner[o] /\ t \notin Cart(o)
  <2>1. Items[o][t] = 0
    BY <1>4, ItemsNat DEF Cart
  <2>2. UserDropped(o)[u][t] = userReserved[u][t]
    BY <1>2, <1>4, <2>1 DEF UserDropped, CounterTypeOK
  <2>3. /\ [userReserved EXCEPT ![Owner[o]] = Plus(@, 1, o)][u] = Plus(userReserved[u], 1, o)
        /\ [userReserved EXCEPT ![Owner[o]] = PlusIfEnough(@, o)][u] = PlusIfEnough(userReserved[u], o)
        /\ [userPaid EXCEPT ![Owner[o]] = Plus(@, 1, o)][u] = Plus(userPaid[u], 1, o)
    BY <1>4 DEF CounterTypeOK
  <2> QED
    BY <1>2, <1>4, <2>2, <2>3, OutsideCart
<1> QED
  BY <1>1, <1>3, <1>4

(* No handler's step but the seeding adds a key. *)
LEMMA LaterKeys ==
    ASSUME TypeOK, SeedsFresh, NEW s \in Slot, Later(s), NEW o \in Order, h[s].order = o
    PROVE  UNCHANGED <<stockKeys, limitKeys, supply, base>>
<1>1. Cart(o) \subseteq stockKeys /\ RowsOf(o) \subseteq limitKeys
  BY LaterOpens DEF SeedsFresh
<1>2. ASSUME NEW t \in Cart(o), Release(HoldOf(o, t)) \/ Reserve(HoldOf(o, t))
      PROVE  UNCHANGED <<stockKeys, limitKeys, supply, base>>
  <2>1. t \in stockKeys /\ <<Owner[o], t>> \in limitKeys
    BY <1>1 DEF RowsOf
  <2>2. /\ stockKeys \cup {HoldOf(o, t).type} = stockKeys
        /\ limitKeys \cup {<<HoldOf(o, t).user, HoldOf(o, t).type>>} = limitKeys
    BY <2>1 DEF HoldOf
  <2>3. CASE Release(HoldOf(o, t))
    BY <2>2, <2>3 DEF Release
  <2>4. CASE Reserve(HoldOf(o, t))
    BY <2>2, <2>4 DEF Reserve
  <2> QED
    BY <1>2, <2>3, <2>4
<1>3. CASE UNCHANGED storeVars
  BY <1>3 DEF storeVars
<1>4. ASSUME NEW t \in TicketType, ReserveItem(s, t)
      PROVE  UNCHANGED <<stockKeys, limitKeys, supply, base>>
  BY <1>2, <1>3, <1>4 DEF ReserveItem, Refuse, Unanswered
<1>5. CASE RollBackItem(s)
  BY <1>2, <1>3, <1>5 DEF RollBackItem, ReleaseNothing, ToRollBack
<1>6. CASE ReleaseHold(s)
  BY <1>2, <1>3, <1>6 DEF ReleaseHold, ReleaseAll
<1>7. CASE ForgetHold(s)
  BY <1>3, <1>7 DEF ForgetHold, Forget
<1>8. CASE JudgeReplies(s) \/ PersistOrder(s)
  BY <1>3, <1>8 DEF JudgeReplies, PersistOrder
<1>9. CASE Rest(s)
  BY <1>3, <1>9, LaterRest
<1> QED
  BY <1>4, <1>5, <1>6, <1>7, <1>8, <1>9, ContinueCases DEF Later

LEMMA LaterCounters ==
    ASSUME TypeOK, NEW s \in Slot, Later(s), NEW o \in Order, h[s].order = o
    PROVE  \/ UNCHANGED <<sold, reserved, userPaid, userReserved>>
           \/ /\ sold' \in {sold, Plus(sold, 1, o)}
              /\ reserved' \in {reserved, Plus(reserved, 1, o), Plus(reserved, -1, o),
                                PlusIfEnough(reserved, o)}
              /\ userPaid' \in {userPaid, [userPaid EXCEPT ![Owner[o]] = Plus(@, 1, o)]}
              /\ userReserved' \in {userReserved, UserDropped(o),
                                    [userReserved EXCEPT ![Owner[o]] = Plus(@, 1, o)],
                                    [userReserved EXCEPT ![Owner[o]] = PlusIfEnough(@, o)]}
<1>1. CASE JudgeReplies(s) \/ RollBackItem(s) \/ PersistOrder(s) \/ ReleaseHold(s) \/ ForgetHold(s)
  BY <1>1 DEF JudgeReplies, RollBackItem, PersistOrder, ReleaseHold, ForgetHold, counterVars
<1>2. ASSUME NEW t \in TicketType, ReserveItem(s, t)
      PROVE  UNCHANGED <<sold, reserved, userPaid, userReserved>>
  BY <1>2 DEF ReserveItem, counterVars
<1>3. CASE CountReserved(s)
  BY <1>3 DEF CountReserved
<1>4. CASE OpenUrl(s) \/ CallGateway(s) \/ ScheduleExpire(s) \/ DeleteOrder(s)
  BY <1>4 DEF OpenUrl, CallGateway, ScheduleExpire, DeleteOrder, counterVars
<1>5. CASE DropUserCounters(s) \/ DropTypeCounters(s)
  BY <1>5 DEF DropUserCounters, DropTypeCounters
<1>6. CASE AbortSettle(s) \/ CloseOrder(s) \/ Recheck(s) \/ EnqueueIssue(s) \/ TallyTickets(s) \/ AckIssue(s)
  BY <1>6 DEF AbortSettle, CloseOrder, Recheck, EnqueueIssue, TallyTickets, AckIssue, counterVars
<1>7. CASE CommitSuccess(s) \/ CommitIssue(s)
  BY <1>7 DEF CommitSuccess, CommitIssue, IssueTickets
<1>8. CASE CommitVerdict(s)
  <2>1. /\ UNCHANGED <<sold, userPaid>>
        /\ \/ UNCHANGED <<reserved, userReserved>>
           \/ /\ reserved' = PlusIfEnough(reserved, o)
              /\ userReserved' = [userReserved EXCEPT ![Owner[o]] = PlusIfEnough(@, o)]
    BY <1>8 DEF CommitVerdict
  <2> QED
    BY <2>1
<1> QED
  BY <1>1, <1>2, <1>3, <1>4, <1>5, <1>6, <1>7, <1>8, ContinueCases DEF Later, Rest

LEMMA LaterTouches ==
    ASSUME TypeOK, SeedsFresh, NEW s \in Slot, Later(s), NEW o \in Order, h[s].order = o
    PROVE  Touches(o)
<1>1. ASSUME NEW t \in TicketType \ Cart(o)
      PROVE  sold'[t] = sold[t] /\ reserved'[t] = reserved[t]
  <2>1. sold[t] \in Int /\ reserved[t] \in Int
    BY DEF TypeOK, CounterTypeOK
  <2>2. /\ Plus(sold, 1, o)[t] = sold[t] /\ Plus(reserved, 1, o)[t] = reserved[t]
        /\ Plus(reserved, -1, o)[t] = reserved[t] /\ PlusIfEnough(reserved, o)[t] = reserved[t]
    BY <2>1, OutsideCart
  <2> QED
    BY <2>2, LaterCounters
<1>2. ASSUME NEW u \in User, NEW t \in TicketType, <<u, t>> \notin RowsOf(o)
      PROVE  userPaid'[u][t] = userPaid[u][t] /\ userReserved'[u][t] = userReserved[u][t]
  <2>1. /\ UserDropped(o)[u][t] = userReserved[u][t]
        /\ [userReserved EXCEPT ![Owner[o]] = Plus(@, 1, o)][u][t] = userReserved[u][t]
        /\ [userReserved EXCEPT ![Owner[o]] = PlusIfEnough(@, o)][u][t] = userReserved[u][t]
        /\ [userPaid EXCEPT ![Owner[o]] = Plus(@, 1, o)][u][t] = userPaid[u][t]
    BY <1>2, OutsideRows DEF TypeOK
  <2> QED
    BY <2>1, LaterCounters
<1> QED
  BY <1>1, <1>2, LaterKeys DEF Touches

LEMMA ReadSeedsFresh ==
    ASSUME TypeOK, Fresh, SeedsFresh, NEW s \in Slot, ReadSeeds(s)
    PROVE  SeedsFresh'
<1>1. PICK o \in Order : h[s] # Idle /\ h[s].order = o /\ h[s] \in Running
  BY BusySlot DEF ReadSeeds, At, TypeOK
<1>2. /\ h[s].op = "create" /\ h[s].at = "ensure" /\ Go(s, "seed")
      /\ UNCHANGED <<storeVars, rowVars, counterVars>>
      /\ seen' = [seen EXCEPT ![o] = [t \in TicketType |->
                    [avail |-> Available(t),
                     count |-> userPaid[Owner[o]][t] + userReserved[Owner[o]][t]]]]
  BY <1>1 DEF ReadSeeds, At
<1>3. /\ \A x \in Slot : x # s => h'[x] = h[x]
      /\ h'[s].op = "create" /\ h'[s].at = "seed" /\ h'[s].order = o
  BY <1>1, <1>2 DEF Go, Running, TypeOK, HandlerTypeOK
<1>4. /\ UNCHANGED <<stockKeys, limitKeys, supply, base, sold, reserved, userPaid, userReserved, status>>
  BY <1>2 DEF storeVars, rowVars, counterVars
<1>5. ASSUME NEW x \in Order, Opened(x)' PROVE Opened(x)
  BY <1>2, <1>3, <1>4, <1>5 DEF Opened, Past
<1>6. ASSUME NEW x \in Slot, Seeding(x)', NEW t \in TicketType
      PROVE  /\ t \in stockKeys' \/ seen'[h'[x].order][t].avail = Total[t]
             /\ <<Owner[h'[x].order], t>> \in limitKeys' \/ seen'[h'[x].order][t].count = 0
  <2>1. CASE x = s
    <3>1. /\ seen'[o][t].avail = Available(t)
          /\ seen'[o][t].count = userPaid[Owner[o]][t] + userReserved[Owner[o]][t]
      BY <1>2 DEF TypeOK, LocalTypeOK
    <3>2. t \notin stockKeys => Available(t) = Total[t]
      BY LifecycleAssumption DEF SeedsFresh, Available, LifecycleAssumption
    <3>3. <<Owner[o], t>> \notin limitKeys => userPaid[Owner[o]][t] = 0 /\ userReserved[Owner[o]][t] = 0
      BY LifecycleAssumption DEF SeedsFresh, LifecycleAssumption
    <3> QED
      BY <1>3, <1>4, <2>1, <3>1, <3>2, <3>3
  <2>2. CASE x # s
    <3>1. Seeding(x) /\ h'[x] = h[x] /\ h[x].order \in Order
      BY <1>3, <1>6, <2>2, BusySlot DEF Seeding, TypeOK
    <3>2. h[x].order # o
      BY <1>1, <2>2, <3>1 DEF Fresh, Seeding, EarlyAt
    <3>3. seen'[h[x].order] = seen[h[x].order]
      BY <1>2, <3>1, <3>2 DEF TypeOK, LocalTypeOK
    <3> QED
      BY <1>4, <3>1, <3>3 DEF SeedsFresh
  <2> QED
    BY <2>1, <2>2
<1> QED
  BY <1>4, <1>5, <1>6 DEF SeedsFresh, RowsOf, Cart

LEMMA SeedKeysFresh ==
    ASSUME TypeOK, Fresh, SeedsFresh, NEW s \in Slot, SeedKeys(s)
    PROVE  SeedsFresh'
<1>1. PICK o \in Order : h[s] # Idle /\ h[s].order = o /\ h[s] \in Running /\ Owner[o] \in User
  BY BusySlot DEF SeedKeys, At, TypeOK
<1>2. /\ h[s].op = "create" /\ h[s].at = "seed" /\ Go(s, "reserve")
      /\ UNCHANGED <<rowVars, counterVars>>
      /\ seen' = [seen EXCEPT ![o] = Unseen]
      /\ Seed(Owner[o], Cart(o), [t \in TicketType |-> seen[o][t].avail],
                                 [t \in TicketType |-> seen[o][t].count])
  BY <1>1 DEF SeedKeys, At
<1>3. /\ \A x \in Slot : x # s => h'[x] = h[x]
      /\ h'[s].op = "create" /\ h'[s].at = "reserve" /\ h'[s].order = o
  BY <1>1, <1>2 DEF Go, Running, TypeOK, HandlerTypeOK
<1>4. UNCHANGED <<sold, reserved, userPaid, userReserved, status>>
  BY <1>2 DEF rowVars, counterVars
<1>5. /\ stockKeys' = stockKeys \cup Cart(o) /\ limitKeys' = limitKeys \cup RowsOf(o)
      /\ \A t \in TicketType : supply'[t] = IF t \in Cart(o) \ stockKeys THEN seen[o][t].avail
                                            ELSE supply[t]
  BY <1>2 DEF Seed, RowsOf
<1>6. \A u \in User, t \in TicketType :
        base'[u][t] = IF u = Owner[o] /\ t \in Cart(o) /\ <<u, t>> \notin limitKeys
                      THEN seen[o][t].count ELSE base[u][t]
  BY <1>1, <1>2 DEF Seed, TypeOK, StoreTypeOK
<1>7. \A t \in TicketType :
        /\ t \in stockKeys \/ seen[o][t].avail = Total[t]
        /\ <<Owner[o], t>> \in limitKeys \/ seen[o][t].count = 0
  BY <1>1, <1>2 DEF SeedsFresh, Seeding
<1>8. ASSUME NEW x \in Order, Opened(x)'
      PROVE  Cart(x) \subseteq stockKeys' /\ RowsOf(x) \subseteq limitKeys'
  <2>1. CASE x = o
    BY <1>5, <2>1
  <2>2. CASE x # o
    <3>1. Opened(x)
      BY <1>3, <1>4, <1>8, <2>2 DEF Opened
    <3> QED
      BY <1>5, <3>1 DEF SeedsFresh
  <2> QED
    BY <2>1, <2>2
<1>9. ASSUME NEW t \in TicketType
      PROVE  /\ t \in stockKeys' => supply'[t] = Total[t]
             /\ t \notin stockKeys' => supply'[t] = 0 /\ sold'[t] = 0 /\ reserved'[t] = 0
  BY <1>4, <1>5, <1>7 DEF SeedsFresh
<1>10. ASSUME NEW u \in User, NEW t \in TicketType
       PROVE  /\ base'[u][t] = 0
              /\ <<u, t>> \notin limitKeys' => userPaid'[u][t] = 0 /\ userReserved'[u][t] = 0
  BY <1>4, <1>5, <1>6, <1>7 DEF SeedsFresh
<1>11. ASSUME NEW x \in Slot, Seeding(x)', NEW t \in TicketType
       PROVE  /\ t \in stockKeys' \/ seen'[h'[x].order][t].avail = Total[t]
              /\ <<Owner[h'[x].order], t>> \in limitKeys' \/ seen'[h'[x].order][t].count = 0
  <2>1. x # s
    BY <1>3, <1>11 DEF Seeding
  <2>2. Seeding(x) /\ h'[x] = h[x] /\ h[x].order \in Order
    BY <1>3, <1>11, <2>1, BusySlot DEF Seeding, TypeOK
  <2>3. h[x].order # o
    BY <1>1, <2>1, <2>2 DEF Fresh, Seeding, EarlyAt
  <2>4. seen'[h[x].order] = seen[h[x].order]
    BY <1>2, <2>2, <2>3 DEF TypeOK, LocalTypeOK
  <2> QED
    BY <1>5, <2>2, <2>4 DEF SeedsFresh
<1> QED
  BY <1>8, <1>9, <1>10, <1>11 DEF SeedsFresh, RowsOf, Cart

(* Beginnings, failures and the clock open no order and touch no key. *)
LEMMA StartFresh ==
    ASSUME TypeOK, SeedsFresh, NEW s \in Slot, NEW o \in Order, Start(s, o)
    PROVE  SeedsFresh'
<1>1. UNCHANGED <<stockKeys, limitKeys, supply, base, sold, reserved, userPaid, userReserved, seen>>
  BY DEF Start, Cron, StartCreate, StartRepay, StartCancel, StartExpire, StartCron,
     StartIssue, StartWebhook, storeVars, counterVars, localVars
<1>2. UNCHANGED status
  BY Started
<1>3. NoneOpened
  <2>1. CASE UNCHANGED h
    BY <1>1, <1>2, <2>1 DEF NoneOpened, Opened, Seeding
  <2>2. ASSUME NEW r \in Running, Begun(s, o, r) PROVE NoneOpened
    <3>1. \A x \in Slot : h'[x] = IF x = s THEN r ELSE h[x]
      BY <2>2 DEF Begun, TypeOK, HandlerTypeOK
    <3>2. \/ r.op = "create" /\ r.at = "ensure"
          \/ status[o] # "NONE" /\ ~ EarlyAt(r)
      BY <2>2 DEF Begun
    <3>3. r.order = o
      BY <2>2 DEF Begun
    <3>4. ASSUME NEW x \in Order, Opened(x)' PROVE Opened(x)
      BY <1>2, <3>1, <3>2, <3>3, <3>4 DEF Opened, Past
    <3>5. ASSUME NEW x \in Slot, Seeding(x)'
          PROVE  Seeding(x) /\ h'[x].order = h[x].order /\ seen'[h[x].order] = seen[h[x].order]
      BY <1>1, <3>1, <3>2, <3>5 DEF Seeding, EarlyAt
    <3> QED
      BY <3>4, <3>5 DEF NoneOpened
  <2> QED
    BY <2>1, <2>2, Started
<1> QED
  BY <1>1, <1>3, SeedsStill

LEMMA CrashFresh ==
    ASSUME TypeOK, Fresh, SeedsFresh, NEW s \in Slot, Crash(s)
    PROVE  SeedsFresh'
<1>1. PICK o \in Order : h[s] # Idle /\ h[s].order = o
  BY BusySlot DEF Crash, TypeOK
<1>2. /\ UNCHANGED <<stockKeys, limitKeys, supply, base, sold, reserved, userPaid, userReserved, status>>
      /\ seen' = [seen EXCEPT ![o] = IF h[s].op = "create" THEN Unseen ELSE @]
      /\ \A x \in Slot : h'[x] = IF x = s THEN Idle ELSE h[x]
  BY <1>1 DEF Crash, End, storeVars, counterVars, rowVars, TypeOK, HandlerTypeOK
<1>3. \A x \in Order : Opened(x)' => Opened(x)
  BY <1>2 DEF Opened
<1>4. ASSUME NEW x \in Slot, Seeding(x)'
      PROVE  Seeding(x) /\ h'[x].order = h[x].order /\ seen'[h[x].order] = seen[h[x].order]
  <2>1. x # s /\ Seeding(x) /\ h'[x] = h[x] /\ h[x].order \in Order
    BY <1>2, <1>4, BusySlot DEF Seeding, TypeOK
  <2>2. h[x].order # o
    BY <1>1, <2>1 DEF Fresh, Seeding, EarlyAt
  <2> QED
    BY <1>2, <2>1, <2>2 DEF TypeOK, LocalTypeOK
<1> QED
  BY <1>2, <1>3, <1>4, SeedsStill DEF NoneOpened

LEMMA QuietFresh ==
    ASSUME TypeOK, SeedsFresh,
           \/ \E o \in Order : Elapse(o)
           \/ \E o \in Order, result \in DOMAIN PaymentOf : RecordWebhook(o, result)
           \/ UNCHANGED vars
    PROVE  SeedsFresh'
<1>1. UNCHANGED <<h, status>>
  BY Quiet
<1>2. UNCHANGED <<stockKeys, limitKeys, supply, base, sold, reserved, userPaid, userReserved, seen>>
  <2>1. ASSUME NEW o \in Order, Elapse(o)
        PROVE  UNCHANGED <<stockKeys, limitKeys, supply, base, sold, reserved, userPaid, userReserved, seen>>
    BY <2>1 DEF Elapse, ExpiresAtPasses, HoldLapses, Forget, storeVars, counterVars, localVars
  <2>2. ASSUME NEW o \in Order, NEW result, RecordWebhook(o, result)
        PROVE  UNCHANGED <<stockKeys, limitKeys, supply, base, sold, reserved, userPaid, userReserved, seen>>
    BY <2>2 DEF RecordWebhook, storeVars, counterVars, localVars
  <2>3. CASE UNCHANGED vars
    BY <2>3 DEF vars, storeVars, counterVars, localVars
  <2> QED
    BY <2>1, <2>2, <2>3
<1>3. NoneOpened
  BY <1>1, <1>2 DEF NoneOpened, Opened, Seeding
<1> QED
  BY <1>2, <1>3, SeedsStill

LEMMA SeedsStep ==
    ASSUME TypeOK, Fresh, SeedsFresh, [Next]_vars
    PROVE  SeedsFresh'
<1>1. ASSUME NEW s \in Slot, Later(s) PROVE SeedsFresh'
  <2>1. PICK o \in Order : h[s].order = o
    BY <1>1, ContinueBusy, BusySlot DEF Later, TypeOK
  <2>2. NoneOpened /\ Opened(o) /\ Touches(o)
    BY <1>1, <2>1, LaterOpens, LaterTouches
  <2> QED
    BY <2>2, SeedsKept
<1> QED
  BY <1>1, ReadSeedsFresh, SeedKeysFresh, StartFresh, CrashFresh, QuietFresh DEF Next, Later

LEMMA SeedsInit == Init => SeedsFresh
<1> SUFFICES ASSUME Init PROVE SeedsFresh
  OBVIOUS
<1>1. /\ stockKeys \in {{}, TicketType}
      /\ supply = [t \in TicketType |-> IF t \in stockKeys THEN Total[t] ELSE 0]
      /\ base = [u \in User |-> [t \in TicketType |-> 0]]
      /\ userPaid = base /\ userReserved = base
      /\ sold = [t \in TicketType |-> 0] /\ reserved = sold
      /\ \A s \in Slot : h[s] = Idle
      /\ \A o \in Order : status[o] = "NONE"
  BY DEF Init
<1>2. \A o \in Order : ~ Opened(o)
  BY <1>1 DEF Opened
<1>3. \A s \in Slot : ~ Seeding(s)
  BY <1>1 DEF Seeding
<1> QED
  BY <1>1, <1>2, <1>3 DEF SeedsFresh

(***************************************************************************)
(* Lazy seeding reads PostgreSQL at one await and sends SET NX at a later  *)
(* one.  Whatever the handlers of other orders do in between, a stock key  *)
(* is only ever seeded with the full totalQty and a user_limit key with 0: *)
(* nothing is counted, reserved or sold under a key that is not there yet. *)
(***************************************************************************)
THEOREM SeededInFull ==
    Spec => [](/\ \A t \in TicketType : supply[t] = IF t \in stockKeys THEN Total[t] ELSE 0
               /\ \A u \in User, t \in TicketType : base[u][t] = 0)
<1>1. TypeOK /\ Fresh /\ SeedsFresh /\ [Next]_vars => SeedsFresh'
  BY SeedsStep
<1>2. SeedsFresh => /\ \A t \in TicketType : supply[t] = IF t \in stockKeys THEN Total[t] ELSE 0
                    /\ \A u \in User, t \in TicketType : base[u][t] = 0
  BY DEF SeedsFresh
<1> QED
  BY <1>1, <1>2, SeedsInit, HeldAlways, PTL DEF Spec

-----------------------------------------------------------------------------
(* Tickets in Redis and tickets in PostgreSQL *)

(* An order with status v and n issues may still be paid, is paid, or will be: *)
(* its reservation key, if it is gone, is missed.                              *)
KeptIn(H, v, n, o) ==
    LET On == {s \in Slot : H[s] # Idle /\ H[s].order = o} IN
    \/ n > 0 \/ v = "PAID"
    \/ v = "PENDING_PAYMENT" /\ \A s \in On : H[s].at # "counters"
    \/ \E s \in On : H[s].op = "create" /\ H[s].at = "persist"

KeptNow(o) == KeptIn(h, status[o], issued[o], o)

(* The order whose only handler is a, and the order without a handler. *)
KeptAt(a, v, n) ==
    \/ n > 0 \/ v = "PAID"
    \/ v = "PENDING_PAYMENT" /\ a.at # "counters"
    \/ a.op = "create" /\ a.at = "persist"
KeptOfRow(v, n) == n > 0 \/ v \in {"PAID", "PENDING_PAYMENT"}

LEMMA KeptAlone ==
    ASSUME NEW H, NEW s \in Slot, NEW o, NEW v, NEW n, H[s] # Idle, H[s].order = o,
           \A x \in Slot : H[x] # Idle /\ H[x].order = o => x = s
    PROVE  KeptIn(H, v, n, o) <=> KeptAt(H[s], v, n)
BY DEF KeptIn, KeptAt

LEMMA KeptFree ==
    ASSUME NEW H, NEW o, NEW v, NEW n, \A x \in Slot : ~ (H[x] # Idle /\ H[x].order = o)
    PROVE  KeptIn(H, v, n, o) <=> KeptOfRow(v, n)
BY DEF KeptIn, KeptOfRow

LEMMA KeptFrame ==
    ASSUME NEW H, NEW G, NEW o, NEW v, NEW n,
           \A y \in Slot : (H[y] # Idle /\ H[y].order = o) <=> (G[y] # Idle /\ G[y].order = o),
           \A y \in Slot : G[y] # Idle /\ G[y].order = o => H[y] = G[y]
    PROVE  KeptIn(H, v, n, o) <=> KeptIn(G, v, n, o)
<1>1. {y \in Slot : H[y] # Idle /\ H[y].order = o} = {y \in Slot : G[y] # Idle /\ G[y].order = o}
  OBVIOUS
<1>2. \A y \in {y \in Slot : G[y] # Idle /\ G[y].order = o} : H[y] = G[y]
  OBVIOUS
<1> QED
  BY <1>1, <1>2 DEF KeptIn

LEMMA KeptPrime ==
    ASSUME NEW o
    PROVE  KeptNow(o)' <=> KeptIn(h', status'[o], issued'[o], o)
BY DEF KeptNow, KeptIn

(* A handler's step leaves the other orders kept or not kept. *)
LEMMA KeptOthers ==
    ASSUME TypeOK, NEW s \in Slot, Continue(s)
    PROVE  \A x \in Order \ {h[s].order} : /\ KeptNow(x)' <=> KeptNow(x)
                                           /\ issued'[x] = issued[x]
<1> DEFINE o == h[s].order
<1>1. PICK r \in Running \cup {Idle}, w \in Status, m \in Nat :
        /\ h' = [h EXCEPT ![s] = r]
        /\ status' = [status EXCEPT ![o] = w]
        /\ issued' = [issued EXCEPT ![o] = m]
        /\ r # Idle => r.order = o
  BY HandlerAdvance DEF Advance, Advances
<1>2. h[s] # Idle
  BY ContinueBusy
<1>3. \A x \in Slot : h'[x] = IF x = s THEN r ELSE h[x]
  BY <1>1 DEF TypeOK, HandlerTypeOK
<1>4. ASSUME NEW x \in Order \ {o}
      PROVE  (KeptNow(x)' <=> KeptNow(x)) /\ issued'[x] = issued[x]
  <2>1. status'[x] = status[x] /\ issued'[x] = issued[x]
    BY <1>1 DEF TypeOK, RowTypeOK, CounterTypeOK
  <2>2. \A y \in Slot : (h'[y] # Idle /\ h'[y].order = x) <=> (h[y] # Idle /\ h[y].order = x)
    BY <1>1, <1>2, <1>3
  <2>3. \A y \in Slot : h[y] # Idle /\ h[y].order = x => h'[y] = h[y]
    BY <1>2, <1>3
  <2>4. KeptIn(h', status'[x], issued'[x], x) <=> KeptIn(h, status[x], issued[x], x)
    BY <2>1, <2>2, <2>3, KeptFrame
  <2> QED
    BY <2>1, <2>4, KeptPrime DEF KeptNow
<1> QED
  BY <1>4

(* Whether an order of D is kept before and after a step of its handler. *)
LEMMA KeptMoves ==
    ASSUME NEW D, NEW s \in Slot, NEW o, Ready(s, o, D)
    PROVE  /\ KeptNow(o) <=> KeptAt(h[s], status[o], issued[o])
           /\ KeptNow(o)' <=> IF h'[s] = Idle THEN KeptOfRow(status'[o], issued'[o])
                              ELSE KeptAt(h'[s], status'[o], issued'[o])
<1>1. TypeOK /\ Continue(s) /\ h[s].order = o
  BY DEF Ready, Sound
<1>2. h[s] # Idle /\ \A x \in Slot : h[x] # Idle /\ h[x].order = o => x = s
  BY <1>1, ContinueBusy DEF Ready
<1>3. PICK r : \A x \in Slot : h'[x] = IF x = s THEN r ELSE h[x]
  BY <1>1, HandlerAdvance DEF Advance, TypeOK, HandlerTypeOK
<1>4. KeptNow(o) <=> KeptAt(h[s], status[o], issued[o])
  <2>1. KeptIn(h, status[o], issued[o], o) <=> KeptAt(h[s], status[o], issued[o])
    BY <1>1, <1>2, KeptAlone
  <2> QED
    BY <2>1 DEF KeptNow
<1>5. CASE h'[s] = Idle
  <2>1. \A x \in Slot : ~ (h'[x] # Idle /\ h'[x].order = o)
    BY <1>2, <1>3, <1>5
  <2>2. KeptIn(h', status'[o], issued'[o], o) <=> KeptOfRow(status'[o], issued'[o])
    BY <2>1, KeptFree
  <2> QED
    BY <1>4, <1>5, <2>2, KeptPrime
<1>6. CASE h'[s] # Idle
  <2>1. h'[s].order = o /\ \A x \in Slot : h'[x] # Idle /\ h'[x].order = o => x = s
    BY <1>2, <1>3, <1>6 DEF Ready
  <2>2. KeptIn(h', status'[o], issued'[o], o) <=> KeptAt(h'[s], status'[o], issued'[o])
    BY <1>6, <2>1, KeptAlone
  <2> QED
    BY <1>4, <1>6, <2>2, KeptPrime
<1> QED
  BY <1>5, <1>6

(* The tickets of type t of each kept order of D whose key is gone. *)
Lost(t, D) == [o \in Order |-> IF o \in D /\ KeptNow(o) /\ HoldOf(o, t) \notin reservation
                               THEN Items[o][t] ELSE 0]
OrdersOf(U) == {o \in Order : Owner[o] \in U}
GoneBy(t) == [u \in User |-> gone[u][t]]

(***************************************************************************)
(* Kept orders of D miss no more tickets than went away with a key, for    *)
(* any group of customers; and while no key has lapsed, of orders that     *)
(* have their tickets, and just as many if D is every order.               *)
(***************************************************************************)
KeptInv(D) ==
    /\ \A U \in SUBSET User, t \in TicketType :
         SumFunctionOnSet(Lost(t, D), OrdersOf(U)) <= SumFunctionOnSet(GoneBy(t), U)
    /\ D = Order /\ (\A o \in Order : phase[o] # "lapsed") => \A t \in TicketType :
         SumFunctionOnSet(Lost(t, D), OrdersOf(User)) = SumFunctionOnSet(GoneBy(t), User)
    /\ \A o \in Order, t \in TicketType :
         phase[o] # "lapsed" /\ Lost(t, D)[o] > 0 => issued[o] > 0

(***************************************************************************)
(* A step for order o, as far as lost tickets go: it loses no more than    *)
(* goes away with o's key, and exactly that unless the key lapses.         *)
(***************************************************************************)
LosesFor(o, D) ==
    /\ \A x \in Order : phase[x] = "lapsed" => phase'[x] = "lapsed"
    /\ \A x \in Order \ {o} : issued'[x] = issued[x]
    /\ \A x \in Order \ {o}, t \in TicketType : Lost(t, D)'[x] = Lost(t, D)[x]
    /\ \A u \in User \ {Owner[o]}, t \in TicketType : gone'[u][t] = gone[u][t]
    /\ \A t \in TicketType :
         /\ Lost(t, D)'[o] - Lost(t, D)[o] <= gone'[Owner[o]][t] - gone[Owner[o]][t]
         /\ phase'[o] # "lapsed" =>
              /\ D = Order =>
                   Lost(t, D)'[o] - Lost(t, D)[o] = gone'[Owner[o]][t] - gone[Owner[o]][t]
              /\ Lost(t, D)'[o] > 0 => issued'[o] > 0

LEMMA LostType ==
    ASSUME NEW D, NEW t \in TicketType, NEW o \in Order
    PROVE  /\ Lost(t, D)[o] = IF o \in D /\ KeptNow(o) /\ HoldOf(o, t) \notin reservation
                              THEN Items[o][t] ELSE 0
           /\ Lost(t, D)'[o] = IF o \in D /\ KeptNow(o)' /\ HoldOf(o, t) \notin reservation'
                               THEN Items[o][t] ELSE 0
           /\ Lost(t, D)[o] \in Nat /\ Lost(t, D)'[o] \in Nat
BY ItemsNat DEF Lost, HoldOf

LEMMA GoneType ==
    ASSUME StoreTypeOK, StoreTypeOK', NEW t \in TicketType, NEW u \in User
    PROVE  /\ GoneBy(t)[u] = gone[u][t] /\ GoneBy(t)'[u] = gone'[u][t]
           /\ GoneBy(t)[u] \in Nat /\ GoneBy(t)'[u] \in Nat
BY DEF GoneBy, StoreTypeOK

LEMMA KeptSums ==
    ASSUME TypeOK, TypeOK', NEW D, NEW o \in Order, LosesFor(o, D), NEW U \in SUBSET User,
           NEW t \in TicketType
    PROVE  /\ SumFunctionOnSet(Lost(t, D)', OrdersOf(U)) - SumFunctionOnSet(Lost(t, D), OrdersOf(U))
                <= SumFunctionOnSet(GoneBy(t)', U) - SumFunctionOnSet(GoneBy(t), U)
           /\ D = Order /\ phase'[o] # "lapsed" =>
                SumFunctionOnSet(Lost(t, D)', OrdersOf(U)) - SumFunctionOnSet(Lost(t, D), OrdersOf(U))
                  = SumFunctionOnSet(GoneBy(t)', U) - SumFunctionOnSet(GoneBy(t), U)
<1> DEFINE f == Lost(t, D)
           k == Lost(t, D)'
           a == GoneBy(t)
           b == GoneBy(t)'
           S == OrdersOf(U)
           c == Owner[o]
<1>1. IsFiniteSet(S) /\ S \subseteq Order /\ IsFiniteSet(U) /\ (o \in S <=> c \in U) /\ c \in User
  <2>1. S \subseteq Order /\ (o \in S <=> c \in U)
    BY DEF OrdersOf
  <2> QED
    BY <2>1, LifecycleAssumption, StoreAssumption, FS_Subset DEF LifecycleAssumption, StoreAssumption
<1>2. \A x \in Order : f[x] \in Int /\ k[x] \in Int
  BY LostType
<1>3. \A u \in User : a[u] \in Int /\ b[u] \in Int
  BY GoneType DEF TypeOK
<1>4. \A x \in Order \ {o} : k[x] = f[x]
  BY DEF LosesFor
<1>5. \A u \in User \ {c} : b[u] = a[u]
  BY GoneType DEF LosesFor, TypeOK
<1>6. /\ k[o] - f[o] <= b[c] - a[c]
      /\ D = Order /\ phase'[o] # "lapsed" => k[o] - f[o] = b[c] - a[c]
  <2>1. a[c] = gone[c][t] /\ b[c] = gone'[c][t]
    BY <1>1, GoneType DEF TypeOK
  <2> QED
    BY <2>1 DEF LosesFor
<1> HIDE DEF f, k, a, b, S, c
<1>7. CASE c \in U
  <2>1. SumFunctionOnSet(k, S) = SumFunctionOnSet(f, S) - f[o] + k[o]
    <3>1. \A x \in S : f[x] \in Int /\ k[x] \in Int
      BY <1>1, <1>2
    <3>2. \A x \in S \ {o} : k[x] = f[x]
      BY <1>1, <1>4
    <3> QED
      BY <1>1, <1>7, <3>1, <3>2, SumChange
  <2>2. SumFunctionOnSet(b, U) = SumFunctionOnSet(a, U) - a[c] + b[c]
    <3>1. \A x \in U : a[x] \in Int /\ b[x] \in Int
      BY <1>3
    <3>2. \A x \in U \ {c} : b[x] = a[x]
      BY <1>5
    <3> QED
      BY <1>1, <1>7, <3>1, <3>2, SumChange
  <2>3. SumFunctionOnSet(f, S) \in Int /\ SumFunctionOnSet(a, U) \in Int
    BY <1>1, <1>2, <1>3, SumIn
  <2>4. f[o] \in Int /\ k[o] \in Int /\ a[c] \in Int /\ b[c] \in Int
    BY <1>1, <1>2, <1>3
  <2>5. /\ SumFunctionOnSet(k, S) - SumFunctionOnSet(f, S) = k[o] - f[o]
        /\ SumFunctionOnSet(b, U) - SumFunctionOnSet(a, U) = b[c] - a[c]
    BY <2>1, <2>2, <2>3, <2>4
  <2> QED
    BY <1>6, <2>5 DEF f, k, a, b, S
<1>8. CASE c \notin U
  <2>1. SumFunctionOnSet(k, S) = SumFunctionOnSet(f, S)
    <3>1. \A x \in S : k[x] = f[x]
      BY <1>1, <1>4, <1>8
    <3> QED
      BY <1>1, <3>1, SumSame
  <2>2. SumFunctionOnSet(b, U) = SumFunctionOnSet(a, U)
    <3>1. \A x \in U : b[x] = a[x]
      BY <1>5, <1>8
    <3> QED
      BY <1>1, <3>1, SumSame
  <2>3. SumFunctionOnSet(f, S) \in Int /\ SumFunctionOnSet(a, U) \in Int
    BY <1>1, <1>2, <1>3, SumIn
  <2>4. /\ SumFunctionOnSet(k, S) - SumFunctionOnSet(f, S) = 0
        /\ SumFunctionOnSet(b, U) - SumFunctionOnSet(a, U) = 0
    BY <2>1, <2>2, <2>3
  <2> QED
    BY <2>4 DEF f, k, a, b, S
<1> QED
  BY <1>7, <1>8

LEMMA KeptStep ==
    ASSUME TypeOK, TypeOK', NEW D, KeptInv(D), NEW o \in Order, LosesFor(o, D)
    PROVE  KeptInv(D)'
<1>1. ASSUME NEW U \in SUBSET User, NEW t \in TicketType
      PROVE  /\ SumFunctionOnSet(Lost(t, D), OrdersOf(U)) \in Int
             /\ SumFunctionOnSet(Lost(t, D)', OrdersOf(U)) \in Int
             /\ SumFunctionOnSet(GoneBy(t), U) \in Int
             /\ SumFunctionOnSet(GoneBy(t)', U) \in Int
  <2>1. IsFiniteSet(OrdersOf(U)) /\ OrdersOf(U) \subseteq Order /\ IsFiniteSet(U)
    BY LifecycleAssumption, StoreAssumption, FS_Subset
       DEF OrdersOf, LifecycleAssumption, StoreAssumption
  <2>2. /\ \A x \in OrdersOf(U) : Lost(t, D)[x] \in Int /\ Lost(t, D)'[x] \in Int
        /\ \A u \in U : GoneBy(t)[u] \in Int /\ GoneBy(t)'[u] \in Int
    BY <2>1, LostType, GoneType DEF TypeOK
  <2> QED
    BY <2>1, <2>2, SumIn
<1>2. ASSUME NEW U \in SUBSET User, NEW t \in TicketType
      PROVE  SumFunctionOnSet(Lost(t, D)', OrdersOf(U)) <= SumFunctionOnSet(GoneBy(t)', U)
  <2>1. SumFunctionOnSet(Lost(t, D), OrdersOf(U)) <= SumFunctionOnSet(GoneBy(t), U)
    BY DEF KeptInv
  <2>2. SumFunctionOnSet(Lost(t, D)', OrdersOf(U)) - SumFunctionOnSet(Lost(t, D), OrdersOf(U))
          <= SumFunctionOnSet(GoneBy(t)', U) - SumFunctionOnSet(GoneBy(t), U)
    BY KeptSums
  <2> QED
    BY <1>1, <2>1, <2>2
<1>3. ASSUME D = Order, \A x \in Order : phase'[x] # "lapsed", NEW t \in TicketType
      PROVE  SumFunctionOnSet(Lost(t, D)', OrdersOf(User)) = SumFunctionOnSet(GoneBy(t)', User)
  <2>1. SumFunctionOnSet(Lost(t, D), OrdersOf(User)) = SumFunctionOnSet(GoneBy(t), User)
    BY <1>3 DEF KeptInv, LosesFor
  <2>2. SumFunctionOnSet(Lost(t, D)', OrdersOf(User)) - SumFunctionOnSet(Lost(t, D), OrdersOf(User))
          = SumFunctionOnSet(GoneBy(t)', User) - SumFunctionOnSet(GoneBy(t), User)
    BY <1>3, KeptSums
  <2> QED
    BY <1>1, <2>1, <2>2
<1>4. ASSUME NEW x \in Order, NEW t \in TicketType, phase'[x] # "lapsed", Lost(t, D)'[x] > 0
      PROVE  issued'[x] > 0
  BY <1>4 DEF KeptInv, LosesFor
<1>5. /\ \A U \in SUBSET User, t \in TicketType :
           SumFunctionOnSet(Lost(t, D)', OrdersOf(U)) <= SumFunctionOnSet(GoneBy(t)', U)
      /\ D = Order /\ (\A x \in Order : phase'[x] # "lapsed") => \A t \in TicketType :
           SumFunctionOnSet(Lost(t, D)', OrdersOf(User)) = SumFunctionOnSet(GoneBy(t)', User)
  BY <1>2, <1>3
<1> QED
  BY <1>4, <1>5 DEF KeptInv, OrdersOf

(* A step with which no key goes away unreleased: an order of D that is kept *)
(* after it without its key was so before.                                   *)
LEMMA Unmissed ==
    ASSUME TypeOK, NEW D, KeptInv(D), NEW o \in D, o \in Order, UNCHANGED <<gone, phase>>,
           \A x \in Order \ {o} : (KeptNow(x)' <=> KeptNow(x)) /\ issued'[x] = issued[x],
           SameBut(reservation, reservation', o),
           issued[o] > 0 => issued'[o] > 0 /\ reservation' \subseteq reservation,
           \A t \in Cart(o) : KeptNow(o)' /\ HoldOf(o, t) \notin reservation'
                                => KeptNow(o) /\ HoldOf(o, t) \notin reservation
    PROVE  LosesFor(o, D)
<1>1. ASSUME NEW x \in Order \ {o}, NEW t \in TicketType PROVE Lost(t, D)'[x] = Lost(t, D)[x]
  <2>1. HoldOf(x, t) \in reservation' <=> HoldOf(x, t) \in reservation
    BY DEF SameBut, HoldOf
  <2> QED
    BY <2>1, LostType
<1>2. issued'[o] > 0 => KeptNow(o)'
  BY KeptPrime DEF KeptIn
<1>3. ASSUME NEW t \in TicketType
      PROVE  /\ Lost(t, D)'[o] <= Lost(t, D)[o]
             /\ phase'[o] # "lapsed" => /\ Lost(t, D)'[o] = Lost(t, D)[o]
                                        /\ Lost(t, D)'[o] > 0 => issued'[o] > 0
  <2>1. Items[o][t] \in Nat /\ (Items[o][t] = 0 \/ t \in Cart(o))
    BY ItemsNat DEF Cart
  <2>2. /\ Lost(t, D)[o] = IF KeptNow(o) /\ HoldOf(o, t) \notin reservation
                           THEN Items[o][t] ELSE 0
        /\ Lost(t, D)'[o] = IF KeptNow(o)' /\ HoldOf(o, t) \notin reservation'
                            THEN Items[o][t] ELSE 0
    BY LostType
  <2>3. Lost(t, D)'[o] <= Lost(t, D)[o]
    BY <2>1, <2>2
  <2>4. CASE phase[o] # "lapsed" /\ Lost(t, D)[o] > 0
    <3>1. issued[o] > 0
      BY <2>4 DEF KeptInv
    <3>2. HoldOf(o, t) \notin reservation /\ reservation' \subseteq reservation /\ issued'[o] > 0
      BY <2>2, <2>4, <3>1
    <3> QED
      BY <1>2, <2>2, <2>3, <2>4, <3>2
  <2>5. CASE Lost(t, D)[o] = 0
    BY <2>2, <2>3, <2>5, LostType
  <2> QED
    BY <2>3, <2>4, <2>5, LostType
<1>4. gone'[Owner[o]] = gone[Owner[o]] /\ \A t \in TicketType : gone[Owner[o]][t] \in Int
  BY LifecycleAssumption DEF LifecycleAssumption, TypeOK, StoreTypeOK
<1>5. ASSUME NEW t \in TicketType
      PROVE  /\ Lost(t, D)'[o] - Lost(t, D)[o] <= gone'[Owner[o]][t] - gone[Owner[o]][t]
             /\ phase'[o] # "lapsed" =>
                  /\ Lost(t, D)'[o] - Lost(t, D)[o] = gone'[Owner[o]][t] - gone[Owner[o]][t]
                  /\ Lost(t, D)'[o] > 0 => issued'[o] > 0
  BY <1>3, <1>4, LostType
<1> QED
  BY <1>1, <1>5 DEF LosesFor

LEMMA NothingGone ==
    ASSUME NEW D, NEW s \in Slot, NEW o \in Order, Ready(s, o, D), KeptInv(D), UNCHANGED gone,
           SameBut(reservation, reservation', o),
           issued[o] > 0 => issued'[o] > 0 /\ reservation' \subseteq reservation,
           \A t \in Cart(o) : KeptNow(o)' /\ HoldOf(o, t) \notin reservation'
                                => KeptNow(o) /\ HoldOf(o, t) \notin reservation
    PROVE  LosesFor(o, D)
<1>1. TypeOK /\ o \in D /\ Continue(s) /\ h[s].order = o
  BY DEF Ready, Sound
<1>2. UNCHANGED phase
  BY <1>1, HandlerAdvance DEF Advance
<1>3. \A x \in Order \ {o} : (KeptNow(x)' <=> KeptNow(x)) /\ issued'[x] = issued[x]
  BY <1>1, KeptOthers
<1> QED
  BY <1>1, <1>2, <1>3, Unmissed

LEMMA EarlyKept ==
    ASSUME NEW D, NEW s \in Slot, NEW o \in Order, Ready(s, o, D), KeptInv(D),
           \/ ReadSeeds(s) \/ SeedKeys(s) \/ RollBackItem(s)
           \/ \E t \in TicketType : ReserveItem(s, t)
    PROVE  LosesFor(o, D)
<1>1. /\ h[s] \in Running /\ h \in [Slot -> Running \cup {Idle}] /\ h[s].order = o
      /\ TypeOK /\ o \in D /\ Continue(s)
  BY DEF Ready, Sound
<1>2. /\ h[s].op = "create" /\ h[s].at \in {"ensure", "seed", "reserve", "rollback"}
      /\ UNCHANGED <<gone, status, issued>>
      /\ h'[s] = Idle \/ h'[s].at \in {"seed", "reserve", "rollback"}
      /\ SameBut(reservation, reservation', o)
  <2>1. CASE ReadSeeds(s)
    BY <1>1, <2>1 DEF ReadSeeds, At, Go, Running, rowVars, counterVars, storeVars, SameBut
  <2>2. CASE SeedKeys(s)
    BY <1>1, <2>2 DEF SeedKeys, Seed, At, Go, Running, rowVars, counterVars, SameBut
  <2>3. CASE RollBackItem(s)
    <3>1. h[s].op = "create" /\ h[s].at = "rollback" /\ (UNCHANGED h \/ End(s))
          /\ UNCHANGED <<status, issued>>
      BY <2>3 DEF RollBackItem, At, rowVars, counterVars
    <3>2. ASSUME NEW t, Release(HoldOf(o, t))
          PROVE  gone' = gone /\ SameBut(reservation, reservation', o)
      BY <3>2 DEF Release, SameBut, HoldOf
    <3>3. UNCHANGED storeVars => gone' = gone /\ SameBut(reservation, reservation', o)
      BY DEF storeVars, SameBut
    <3>4. gone' = gone /\ SameBut(reservation, reservation', o)
      BY <1>1, <2>3, <3>2, <3>3 DEF RollBackItem, ReleaseNothing
    <3> QED
      BY <1>1, <3>1, <3>4 DEF End
  <2>4. ASSUME NEW t \in TicketType, ReserveItem(s, t)
        PROVE  /\ h[s].op = "create" /\ h[s].at = "reserve" /\ h' = h
               /\ UNCHANGED <<gone, status, issued>>
               /\ SameBut(reservation, reservation', o)
    BY <1>1, <2>4 DEF ReserveItem, Reserve, Refuse, At, rowVars, counterVars, storeVars, SameBut,
       HoldOf
  <2> QED
    BY <2>1, <2>2, <2>3, <2>4
<1>3. status[o] = "NONE" /\ issued[o] = 0
  BY <1>2 DEF Ready, StageAt, StatusAt, EarlyAt, PaidIfIssued
<1>4. ~ KeptNow(o)'
  <2>1. ~ KeptOfRow(status'[o], issued'[o])
    BY <1>2, <1>3 DEF KeptOfRow
  <2>2. h'[s] # Idle => ~ KeptAt(h'[s], status'[o], issued'[o])
    BY <1>2, <1>3 DEF KeptAt
  <2> QED
    BY <1>1, <2>1, <2>2, KeptMoves
<1>5. ~ (issued[o] > 0)
  BY <1>3
<1> QED
  BY <1>2, <1>4, <1>5, NothingGone

(* Once every reply is "ok", every item has its key. *)
LEMMA JudgeKept ==
    ASSUME NEW D, NEW s \in Slot, NEW o \in Order, Ready(s, o, D), KeptInv(D), JudgeReplies(s)
    PROVE  LosesFor(o, D)
<1>1. /\ h[s] \in Running /\ h \in [Slot -> Running \cup {Idle}] /\ h[s].order = o
      /\ TypeOK /\ o \in D /\ Continue(s) /\ HoldsKnown
  BY DEF Ready, Sound
<1>2. /\ h[s].op = "create" /\ h[s].at = "reserve" /\ Unanswered(o) = {}
      /\ UNCHANGED <<gone, status, issued, reservation>>
      /\ \/ Refused(o) = {}
         \/ Go(s, "rollback")
  BY <1>1 DEF JudgeReplies, At, storeVars, rowVars, counterVars
<1>3. status[o] = "NONE" /\ issued[o] = 0
  BY <1>2 DEF Ready, StageAt, StatusAt, EarlyAt, PaidIfIssued
<1>4. CASE Refused(o) = {}
  <2>1. ASSUME NEW t \in Cart(o) PROVE HoldOf(o, t) \in reservation
    <3>1. reply[o][t] \notin {"none", "no", "back"} /\ reply[o][t] \in {"none", "ok", "no", "back"}
      <4>1. HeldAt(h[s], reservation, reply[o]) /\ t \in TicketType
        BY <1>1, RunningNotIdle DEF HoldsKnown, Cart
      <4>2. reply[o][t] # "back"
        BY <1>1, <1>2, <4>1 DEF HeldAt
      <4>3. reply[o][t] # "none" /\ reply[o][t] # "no"
        BY <1>2, <1>4 DEF Unanswered, Refused
      <4>4. reply[o][t] \in {"none", "ok", "no", "back"}
        BY <1>1, <4>1 DEF TypeOK, LocalTypeOK
      <4> QED
        BY <4>2, <4>3, <4>4
    <3>2. HeldAt(h[s], reservation, reply[o])
      BY <1>1, RunningNotIdle DEF HoldsKnown
    <3> QED
      BY <1>1, <1>2, <3>1, <3>2 DEF HeldAt
  <2>2. ~ (issued[o] > 0) /\ SameBut(reservation, reservation', o)
    BY <1>2, <1>3 DEF SameBut
  <2> QED
    BY <1>2, <2>1, <2>2, NothingGone
<1>5. CASE Go(s, "rollback")
  <2>1. h'[s].at = "rollback" /\ h'[s] # Idle
    BY <1>1, <1>5 DEF Go, Running, Idle
  <2>2. ~ KeptAt(h'[s], status'[o], issued'[o])
    BY <1>2, <1>3, <2>1 DEF KeptAt
  <2>3. ~ KeptNow(o)'
    BY <1>1, <2>1, <2>2, KeptMoves
  <2>4. ~ (issued[o] > 0) /\ SameBut(reservation, reservation', o)
    BY <1>2, <1>3 DEF SameBut
  <2> QED
    BY <1>2, <2>3, <2>4, NothingGone
<1> QED
  BY <1>2, <1>4, <1>5

LEMMA ReleaseKept ==
    ASSUME NEW D, NEW s \in Slot, NEW o \in Order, Ready(s, o, D), KeptInv(D), ReleaseHold(s)
    PROVE  LosesFor(o, D)
<1>1. /\ h[s] \in Running /\ h \in [Slot -> Running \cup {Idle}] /\ h[s].order = o
      /\ TypeOK /\ o \in D /\ Continue(s) /\ HoldsKnown
  BY DEF Ready, Sound
<1>2. /\ h[s].at = "release" /\ ReleaseAll(o) /\ UNCHANGED <<status, issued>>
      /\ h[s].op \in {"cancel", "expire", "failed", "cronFailed", "cronExpired", "undoPersist"}
  <2>1. h[s].at = "release" /\ ReleaseAll(o) /\ UNCHANGED <<status, issued>>
    BY <1>1 DEF ReleaseHold, rowVars, counterVars
  <2> QED
    BY <2>1 DEF Ready, ClearAt
<1>3. gone' = gone /\ SameBut(reservation, reservation', o)
  <2>1. gone' = gone
    BY <1>2 DEF ReleaseAll, Release, storeVars
  <2> QED
    BY <1>1, <1>2, <2>1, ReleaseAllEffect
<1>4. issued[o] = 0 /\ status[o] # "PAID"
  BY <1>2 DEF Ready, StageAt, StatusAt, EarlyAt, StatusOf, PaidIfIssued
<1>5. AfterRelease[h[s].op] = IF h[s].op \in {"cancel", "expire"} THEN "counters" ELSE "end"
  BY <1>2 DEF AfterRelease, Op, AllCalls
<1>6. ~ KeptNow(o)'
  <2>1. CASE h[s].op \in {"cancel", "expire"}
    <3>1. h' = [h EXCEPT ![s].at = "counters", ![s].todo = {"types", "users"}]
      BY <1>5, <2>1 DEF ReleaseHold
    <3>2. h'[s].at = "counters" /\ h'[s] # Idle
      BY <1>1, <3>1 DEF Running, Idle
    <3>3. ~ KeptAt(h'[s], status'[o], issued'[o])
      BY <1>2, <1>4, <3>2 DEF KeptAt
    <3> QED
      BY <1>1, <3>2, <3>3, KeptMoves
  <2>2. CASE h[s].op \in {"failed", "cronFailed", "cronExpired", "undoPersist"}
    <3>1. h'[s] = Idle
      BY <1>1, <1>5, <2>2 DEF ReleaseHold, End
    <3>2. status[o] \notin {"PAID", "PENDING_PAYMENT"}
      BY <1>2, <2>2 DEF Ready, StageAt, StatusAt, EarlyAt, StatusOf
    <3>3. ~ KeptOfRow(status'[o], issued'[o])
      BY <1>2, <1>4, <3>2 DEF KeptOfRow
    <3> QED
      BY <1>1, <3>1, <3>3, KeptMoves
  <2> QED
    BY <1>2, <2>1, <2>2
<1>7. ~ (issued[o] > 0)
  BY <1>4
<1> QED
  BY <1>3, <1>6, <1>7, NothingGone

LEMMA PersistKept ==
    ASSUME NEW D, NEW s \in Slot, NEW o \in Order, Ready(s, o, D), KeptInv(D), PersistOrder(s)
    PROVE  LosesFor(o, D)
<1>1. h[s].order = o /\ TypeOK /\ o \in D /\ Continue(s)
  BY DEF Ready, Sound
<1>2. h[s].op = "create" /\ h[s].at = "persist" /\ UNCHANGED <<gone, issued, reservation>>
  BY DEF PersistOrder, At, storeVars, counterVars
<1>3. KeptAt(h[s], status[o], issued[o])
  BY <1>2 DEF KeptAt
<1>4. KeptNow(o)
  BY <1>1, <1>3, KeptMoves
<1> QED
  BY <1>2, <1>4, NothingGone DEF SameBut

(* The steps after the order row is written, but for the keys. *)
LEMMA RestKept ==
    ASSUME NEW D, NEW s \in Slot, NEW o \in Order, Ready(s, o, D), KeptInv(D), Rest(s)
    PROVE  LosesFor(o, D)
<1>1. /\ h[s] \in Running /\ h \in [Slot -> Running \cup {Idle}] /\ h[s].order = o
      /\ TypeOK /\ o \in D /\ Continue(s) /\ HoldsKnown
  BY DEF Ready, Sound
<1>2. UNCHANGED <<gone, reservation>>
  BY <1>1, LaterRest, RestFrame DEF storeVars
<1>3. issued[o] \in Nat /\ issued'[o] \in {issued[o], issued[o] + 1}
  <2>1. issued' = issued \/ IssueTickets(o)
    BY <1>1 DEF Rest, CountReserved, OpenUrl, CallGateway, ScheduleExpire, DeleteOrder,
       DropUserCounters, DropTypeCounters, AbortSettle, CloseOrder, CommitSuccess, Recheck,
       CommitVerdict, EnqueueIssue, TallyTickets, CommitIssue, AckIssue, counterVars
  <2>2. issued \in [Order -> Nat]
    BY <1>1 DEF TypeOK, CounterTypeOK
  <2> QED
    BY <2>1, <2>2 DEF IssueTickets
<1>4. CASE h[s].at # "counters"
  <2>1. h[s].op # "undoPersist" /\ h[s].at # "release"
    <3>1. ~ Owes(h[s], h[s].order) /\ h[s] # Idle
      BY RestFrame
    <3>2. h[s].at # "release"
      BY <3>1 DEF Owes
    <3>3. HeldAt(h[s], reservation, reply[o])
      BY <1>1, <3>1 DEF HoldsKnown
    <3> QED
      BY <3>2, <3>3 DEF HeldAt
  <2>2. ~ EarlyAt(h[s])
    BY <2>1, RestFrame
  <2>3. status[o] \in {"PENDING_PAYMENT", "PAID"}
    BY <2>1, <2>2 DEF Ready, StageAt, StatusAt
  <2>4. KeptAt(h[s], status[o], issued[o])
    BY <1>4, <2>3 DEF KeptAt
  <2>5. KeptNow(o)
    BY <1>1, <2>4, KeptMoves
  <2> QED
    BY <1>2, <1>3, <2>5, NothingGone DEF SameBut
<1>5. CASE h[s].at = "counters"
  <2>1. /\ status[o] = "PENDING_PAYMENT" /\ issued[o] = 0
        /\ h[s].op \in {"cancel", "expire"} /\ "error" \notin h[s].todo
    BY <1>5, AtCounters
  <2>2. DropUserCounters(s) \/ DropTypeCounters(s) \/ CloseOrder(s)
    BY <1>5, <2>1 DEF Rest, CountReserved, OpenUrl, CallGateway, ScheduleExpire, DeleteOrder,
       AbortSettle, CommitSuccess, Recheck, CommitVerdict, EnqueueIssue, TallyTickets,
       CommitIssue, AckIssue, At
  <2>3. issued' = issued
    BY <2>2 DEF DropUserCounters, DropTypeCounters, CloseOrder, counterVars
  <2>4. CASE DropUserCounters(s) \/ DropTypeCounters(s)
    <3>1. h'[s].at = "counters" /\ h'[s] # Idle
      BY <1>1, <2>4 DEF DropUserCounters, DropTypeCounters, Running, Idle
    <3>2. status' = status
      BY <2>4 DEF DropUserCounters, DropTypeCounters, rowVars
    <3>3. ~ KeptAt(h'[s], status'[o], issued'[o])
      BY <2>1, <2>3, <3>1, <3>2 DEF KeptAt
    <3>4. ~ KeptNow(o)'
      BY <1>1, <3>1, <3>3, KeptMoves
    <3> QED
      BY <1>2, <2>1, <3>4, NothingGone DEF SameBut
  <2>5. CASE CloseOrder(s)
    <3>1. /\ h'[s] = Idle
          /\ \/ status' = [status EXCEPT ![o] = "CANCELLED"]
             \/ status' = [status EXCEPT ![o] = "EXPIRED"]
      BY <1>1, <2>1, <2>5 DEF CloseOrder, End
    <3>2. status'[o] \in {"CANCELLED", "EXPIRED"}
      BY <1>1, <3>1 DEF TypeOK, RowTypeOK
    <3>3. ~ KeptOfRow(status'[o], issued'[o])
      BY <2>1, <2>3, <3>2 DEF KeptOfRow
    <3>4. ~ KeptNow(o)'
      BY <1>1, <3>1, <3>3, KeptMoves
    <3> QED
      BY <1>2, <2>1, <3>4, NothingGone DEF SameBut
  <2> QED
    BY <2>2, <2>4, <2>5
<1> QED
  BY <1>4, <1>5

(* What DEL and the TTL take from the keys and add to gone. *)
LEMMA KeyForgotten ==
    ASSUME HoldsKnown, StoreTypeOK, NEW o \in Order, Forget(o), NEW t \in TicketType
    PROVE  /\ SameBut(reservation, reservation', o) /\ reservation' \subseteq reservation
           /\ \A u \in User \ {Owner[o]} : gone'[u][t] = gone[u][t]
           /\ gone'[Owner[o]][t] - gone[Owner[o]][t]
                = IF HoldOf(o, t) \in reservation /\ HoldOf(o, t) \notin reservation'
                  THEN Items[o][t] ELSE 0
<1>1. SameBut(reservation, reservation', o) /\ reservation' \subseteq reservation
  BY ForgetEffect
<1>2. Owner[o] \in User /\ gone[Owner[o]][t] \in Int
  BY LifecycleAssumption DEF LifecycleAssumption, StoreTypeOK
<1>3. CASE UNCHANGED storeVars
  BY <1>1, <1>2, <1>3 DEF storeVars
<1>4. ASSUME NEW r \in reservation, r.order = o, reservation' = reservation \ {r},
             gone' = [gone EXCEPT ![r.user][r.type] = @ + r.qty]
      PROVE  /\ \A u \in User \ {Owner[o]} : gone'[u][t] = gone[u][t]
             /\ gone'[Owner[o]][t] - gone[Owner[o]][t]
                  = IF HoldOf(o, t) \in reservation /\ HoldOf(o, t) \notin reservation'
                    THEN Items[o][t] ELSE 0
  <2>1. PICK x \in Cart(o) : r = HoldOf(o, x)
    BY <1>4 DEF HoldsKnown, OfCart
  <2>2. x \in TicketType /\ r.user = Owner[o] /\ r.type = x /\ r.qty = Items[o][x]
    BY <2>1 DEF HoldOf, Cart
  <2>3. Items[o][x] \in Nat
    BY <2>2, ItemsNat
  <2>4. \A u \in User \ {Owner[o]} : gone'[u][t] = gone[u][t]
    BY <1>4, <2>2 DEF StoreTypeOK
  <2>5. CASE t = x
    <3>1. gone'[Owner[o]][t] = gone[Owner[o]][t] + Items[o][t]
      BY <1>2, <1>4, <2>2, <2>5 DEF StoreTypeOK
    <3>2. HoldOf(o, t) \in reservation /\ HoldOf(o, t) \notin reservation'
      BY <1>4, <2>1, <2>5
    <3> QED
      BY <1>2, <2>3, <2>4, <2>5, <3>1, <3>2
  <2>6. CASE t # x
    <3>1. gone'[Owner[o]][t] = gone[Owner[o]][t]
      BY <1>2, <1>4, <2>2, <2>6 DEF StoreTypeOK
    <3>2. HoldOf(o, t) # r
      BY <2>2, <2>6 DEF HoldOf
    <3>3. HoldOf(o, t) \in reservation => HoldOf(o, t) \in reservation'
      BY <1>4, <3>2
    <3> QED
      BY <1>2, <2>4, <3>1, <3>3
  <2> QED
    BY <2>5, <2>6
<1> QED
  BY <1>1, <1>3, <1>4 DEF Forget

(* A key that goes away is missed by its order if the order is kept. *)
LEMMA ForgottenKept ==
    ASSUME TypeOK, HoldsKnown, NEW D, NEW o \in Order, Forget(o), UNCHANGED issued,
           \A x \in Order : KeptNow(x)' <=> KeptNow(x),
           \A x \in Order : phase[x] = "lapsed" => phase'[x] = "lapsed",
           phase'[o] = "lapsed" \/ (KeptNow(o) /\ issued[o] > 0)
    PROVE  LosesFor(o, D)
<1>1. ASSUME NEW x \in Order \ {o}, NEW t \in TicketType PROVE Lost(t, D)'[x] = Lost(t, D)[x]
  <2>1. SameBut(reservation, reservation', o)
    BY ForgetEffect
  <2>2. HoldOf(x, t) \in reservation' <=> HoldOf(x, t) \in reservation
    BY <2>1 DEF SameBut, HoldOf
  <2> QED
    BY <2>2, LostType
<1>2. ASSUME NEW t \in TicketType
      PROVE  /\ Lost(t, D)'[o] - Lost(t, D)[o] <= gone'[Owner[o]][t] - gone[Owner[o]][t]
             /\ phase'[o] # "lapsed" =>
                  /\ D = Order =>
                       Lost(t, D)'[o] - Lost(t, D)[o] = gone'[Owner[o]][t] - gone[Owner[o]][t]
                  /\ Lost(t, D)'[o] > 0 => issued'[o] > 0
  <2>1. Items[o][t] \in Nat
    BY ItemsNat
  <2>2. /\ reservation' \subseteq reservation
        /\ gone'[Owner[o]][t] - gone[Owner[o]][t]
             = IF HoldOf(o, t) \in reservation /\ HoldOf(o, t) \notin reservation'
               THEN Items[o][t] ELSE 0
    BY KeyForgotten DEF TypeOK
  <2>3. /\ Lost(t, D)[o] = IF o \in D /\ KeptNow(o) /\ HoldOf(o, t) \notin reservation
                           THEN Items[o][t] ELSE 0
        /\ Lost(t, D)'[o] = IF o \in D /\ KeptNow(o) /\ HoldOf(o, t) \notin reservation'
                            THEN Items[o][t] ELSE 0
    BY LostType
  <2>4. CASE o \in D /\ KeptNow(o)
    <3>1. Lost(t, D)'[o] - Lost(t, D)[o] = gone'[Owner[o]][t] - gone[Owner[o]][t]
      BY <2>1, <2>2, <2>3, <2>4
    <3> QED
      BY <2>1, <2>2, <3>1
  <2>5. CASE ~ (o \in D /\ KeptNow(o))
    <3>1. Lost(t, D)[o] = 0 /\ Lost(t, D)'[o] = 0
      BY <2>3, <2>5
    <3> QED
      BY <2>1, <2>2, <2>5, <3>1
  <2> QED
    BY <2>4, <2>5
<1>3. \A u \in User \ {Owner[o]}, t \in TicketType : gone'[u][t] = gone[u][t]
  BY KeyForgotten DEF TypeOK
<1> QED
  BY <1>1, <1>2, <1>3 DEF LosesFor

LEMMA ForgetKept ==
    ASSUME NEW D, NEW s \in Slot, NEW o \in Order, Ready(s, o, D), KeptInv(D), ForgetHold(s)
    PROVE  LosesFor(o, D)
<1>1. /\ h[s] \in Running /\ h \in [Slot -> Running \cup {Idle}] /\ h[s].order = o
      /\ TypeOK /\ o \in D /\ Continue(s) /\ HoldsKnown
  BY DEF Ready, Sound
<1>2. /\ h[s].op = "success" /\ h[s].at = "forget" /\ Forget(o) /\ h'[s] = Idle
      /\ UNCHANGED <<status, issued, phase>>
  BY <1>1 DEF ForgetHold, At, End, rowVars, counterVars
<1>3. issued[o] > 0
  BY <1>2 DEF Ready, StageAt
<1>4. KeptNow(o) /\ KeptNow(o)'
  BY <1>2, <1>3, KeptPrime DEF KeptNow, KeptIn
<1>5. \A x \in Order : KeptNow(x)' <=> KeptNow(x)
  BY <1>1, <1>4, KeptOthers
<1> QED
  BY <1>1, <1>2, <1>3, <1>4, <1>5, ForgottenKept

(* What a handler's step does to the keys of the others, and to gone. *)
LEMMA KeysElsewhere ==
    ASSUME TypeOK, HoldsKnown, NEW s \in Slot, Continue(s)
    PROVE  /\ SameBut(reservation, reservation', h[s].order)
           /\ gone' = gone \/ Forget(h[s].order)
<1> DEFINE o == h[s].order
<1>1. o \in Order
  BY ContinueBusy, BusySlot DEF TypeOK
<1>2. UNCHANGED storeVars => gone' = gone /\ SameBut(reservation, reservation', o)
  BY DEF storeVars, SameBut
<1>3. ASSUME NEW t, Release(HoldOf(o, t)) \/ Reserve(HoldOf(o, t)) \/ Refuse(HoldOf(o, t))
      PROVE  gone' = gone /\ SameBut(reservation, reservation', o)
  BY <1>3 DEF Release, Reserve, Refuse, storeVars, SameBut, HoldOf
<1>4. CASE ReadSeeds(s) \/ JudgeReplies(s) \/ PersistOrder(s)
  BY <1>2, <1>4 DEF ReadSeeds, JudgeReplies, PersistOrder
<1>5. CASE SeedKeys(s)
  BY <1>5 DEF SeedKeys, Seed, SameBut
<1>6. CASE RollBackItem(s)
  BY <1>2, <1>3, <1>6 DEF RollBackItem, ReleaseNothing
<1>7. ASSUME NEW t \in TicketType, ReserveItem(s, t)
      PROVE  gone' = gone /\ SameBut(reservation, reservation', o)
  BY <1>3, <1>7 DEF ReserveItem
<1>8. CASE ReleaseHold(s)
  BY <1>2, <1>3, <1>8 DEF ReleaseHold, ReleaseAll
<1>9. CASE ForgetHold(s)
  BY <1>1, <1>9, ForgetEffect DEF ForgetHold
<1>10. CASE Rest(s)
  BY <1>2, <1>10, LaterRest
<1> QED
  BY <1>4, <1>5, <1>6, <1>7, <1>8, <1>9, <1>10, ContinueCases

(* A step of a handler that is not on an order of D. *)
LEMMA ElsewhereKept ==
    ASSUME NEW D, TypeOK, HoldsKnown, NEW s \in Slot, Continue(s), h[s].order \notin D
    PROVE  LosesFor(h[s].order, D)
<1> DEFINE o == h[s].order
<1>1. o \in Order /\ UNCHANGED phase
  BY ContinueBusy, BusySlot, HandlerAdvance DEF Advance, TypeOK
<1>2. \A x \in Order \ {o} : (KeptNow(x)' <=> KeptNow(x)) /\ issued'[x] = issued[x]
  BY KeptOthers
<1>3. SameBut(reservation, reservation', o) /\ (gone' = gone \/ Forget(o))
  BY KeysElsewhere
<1>4. ASSUME NEW x \in Order \ {o}, NEW t \in TicketType PROVE Lost(t, D)'[x] = Lost(t, D)[x]
  <2>1. HoldOf(x, t) \in reservation' <=> HoldOf(x, t) \in reservation
    BY <1>3 DEF SameBut, HoldOf
  <2> QED
    BY <1>2, <2>1, LostType
<1>5. \A t \in TicketType : Lost(t, D)[o] = 0 /\ Lost(t, D)'[o] = 0
  BY <1>1, LostType
<1>6. ASSUME NEW t \in TicketType
      PROVE  /\ \A u \in User \ {Owner[o]} : gone'[u][t] = gone[u][t]
             /\ 0 <= gone'[Owner[o]][t] - gone[Owner[o]][t]
  <2>1. Owner[o] \in User /\ gone[Owner[o]][t] \in Int /\ Items[o][t] \in Nat
    BY <1>1, LifecycleAssumption, ItemsNat DEF LifecycleAssumption, TypeOK, StoreTypeOK
  <2>2. CASE gone' = gone
    BY <2>1, <2>2
  <2>3. CASE Forget(o)
    BY <1>1, <2>1, <2>3, KeyForgotten DEF TypeOK
  <2> QED
    BY <1>3, <2>2, <2>3
<1>7. D # Order
  BY <1>1
<1>8. ASSUME NEW t \in TicketType
      PROVE  /\ Lost(t, D)'[o] - Lost(t, D)[o] <= gone'[Owner[o]][t] - gone[Owner[o]][t]
             /\ ~ (Lost(t, D)'[o] > 0)
  BY <1>5, <1>6
<1> QED
  BY <1>1, <1>2, <1>4, <1>6, <1>7, <1>8 DEF LosesFor

LEMMA ContinueKept ==
    ASSUME NEW D, Sound(D), KeptInv(D), NEW s \in Slot, Continue(s)
    PROVE  \E o \in Order : LosesFor(o, D)
<1>0. TypeOK /\ HoldsKnown
  BY DEF Sound
<1>1. h[s].order \in Order
  BY <1>0, ContinueBusy, BusySlot DEF TypeOK
<1>2. CASE h[s].order \notin D
  BY <1>0, <1>1, <1>2, ElsewhereKept
<1>3. CASE h[s].order \in D
  <2>1. PICK o \in Order : Ready(s, o, D)
    BY <1>1, <1>3, GetsReady
  <2>2. LosesFor(o, D)
    BY <2>1, ContinueCases, EarlyKept, JudgeKept, ReleaseKept, PersistKept, RestKept, ForgetKept
  <2> QED
    BY <2>2
<1> QED
  BY <1>2, <1>3

(* A handler that stops, but not between the counters of an order of D. *)
LEMMA CrashKept ==
    ASSUME NEW D, Sound(D), KeptInv(D), NEW s \in Slot, Crash(s), StopsOutside(D)
    PROVE  LosesFor(h[s].order, D)
<1>0. PICK o : o = h[s].order
  OBVIOUS
<1> SUFFICES LosesFor(o, D)
  BY <1>0
<1>1. /\ h[s] # Idle /\ h' = [h EXCEPT ![s] = Idle] /\ TypeOK
      /\ UNCHANGED <<status, issued, phase, reservation, gone>> /\ o \in Order
  BY <1>0, Crashed, BusySlot DEF Crash, storeVars, Sound, TypeOK
<1>2. \A x \in Slot : h'[x] = IF x = s THEN Idle ELSE h[x]
  BY <1>1 DEF TypeOK, HandlerTypeOK
<1>3. ASSUME NEW x \in Order \ {o} PROVE KeptNow(x)' <=> KeptNow(x)
  <2>1. /\ \A y \in Slot : (h'[y] # Idle /\ h'[y].order = x) <=> (h[y] # Idle /\ h[y].order = x)
        /\ \A y \in Slot : h[y] # Idle /\ h[y].order = x => h'[y] = h[y]
    BY <1>0, <1>1, <1>2
  <2>2. KeptIn(h', status[x], issued[x], x) <=> KeptIn(h, status[x], issued[x], x)
    BY <2>1, KeptFrame
  <2> QED
    BY <1>1, <2>2, KeptPrime DEF KeptNow
<1>4. CASE o \in D
  <2>1. h[s].at # "counters"
    BY <1>0, <1>1, <1>4 DEF StopsOutside
  <2>2. KeptIn(h', status[o], issued[o], o) => KeptIn(h, status[o], issued[o], o)
    BY <1>0, <1>2, <2>1 DEF KeptIn
  <2>3. KeptNow(o)' => KeptNow(o)
    BY <1>1, <2>2, KeptPrime DEF KeptNow
  <2>4. SameBut(reservation, reservation', o)
    BY <1>1 DEF SameBut
  <2> QED
    BY <1>1, <1>3, <1>4, <2>3, <2>4, Unmissed
<1>5. CASE o \notin D
  <2>1. \A x \in Order, t \in TicketType : Lost(t, D)'[x] = Lost(t, D)[x]
    BY <1>1, <1>3, <1>5, LostType
  <2>2. \A t \in TicketType : Lost(t, D)[o] = 0
    BY <1>1, <1>5, LostType
  <2>3. \A u \in User, t \in TicketType : gone'[u][t] = gone[u][t] /\ gone[u][t] \in Int
    BY <1>1 DEF TypeOK, StoreTypeOK
  <2>4. Owner[o] \in User /\ D # Order
    BY <1>1, <1>5, LifecycleAssumption DEF LifecycleAssumption
  <2>5. ASSUME NEW t \in TicketType
        PROVE  /\ Lost(t, D)'[o] - Lost(t, D)[o] <= gone'[Owner[o]][t] - gone[Owner[o]][t]
               /\ ~ (Lost(t, D)'[o] > 0)
    BY <1>1, <2>1, <2>2, <2>3, <2>4
  <2> QED
    BY <1>1, <2>1, <2>3, <2>4, <2>5 DEF LosesFor
<1> QED
  BY <1>4, <1>5

LEMMA StartKept ==
    ASSUME TypeOK, NEW D, KeptInv(D), Alone(D)', NEW s \in Slot, NEW o \in Order, Start(s, o)
    PROVE  LosesFor(o, D)
<1>1. UNCHANGED <<status, issued, reservation, gone>>
  <2>1. UNCHANGED <<status, issued>>
    BY Started
  <2>2. UNCHANGED <<reservation, gone>>
    BY DEF Start, Cron, StartCreate, StartRepay, StartCancel, StartExpire, StartCron,
       StartIssue, StartWebhook, storeVars
  <2> QED
    BY <2>1, <2>2
<1>2. /\ \A x \in Order : phase[x] = "lapsed" => phase'[x] = "lapsed"
      /\ \A x \in Order : phase'[x] # "lapsed" => phase[x] # "lapsed"
  <2>1. UNCHANGED phase \/ \E r \in Running : Begun(s, o, r)
    BY Started
  <2>2. ASSUME NEW r \in Running, Begun(s, o, r)
        PROVE  UNCHANGED phase \/ (phase[o] = "new" /\ phase' = [phase EXCEPT ![o] = "open"])
    BY <2>2 DEF Begun
  <2>3. phase \in [Order -> {"new", "open", "due", "lapsed"}]
    BY DEF TypeOK, HandlerTypeOK
  <2> QED
    BY <2>1, <2>2, <2>3
<1>3. \A x \in Order \cap D : KeptNow(x)' <=> KeptNow(x)
  <2>1. CASE UNCHANGED h
    BY <1>1, <2>1, KeptPrime DEF KeptNow
  <2>2. ASSUME NEW r \in Running, Begun(s, o, r)
        PROVE  \A x \in Order \cap D : KeptNow(x)' <=> KeptNow(x)
    <3>1. /\ \A x \in Slot : h'[x] = IF x = s THEN r ELSE h[x]
          /\ r # Idle /\ r.order = o /\ h[s] = Idle
      BY <2>2 DEF Begun, TypeOK, HandlerTypeOK
    <3>2. CASE UNCHANGED h
      BY <1>1, <3>2, KeptPrime DEF KeptNow
    <3>3. CASE h'[s].at \notin {"counters", "persist"}
      <4>1. ASSUME o \in D
            PROVE  KeptIn(h, status[o], issued[o], o) <=> KeptOfRow(status[o], issued[o])
        <5>1. \A x \in Slot : ~ (h[x] # Idle /\ h[x].order = o)
          BY <3>1, <4>1 DEF Alone
        <5> QED
          BY <5>1, KeptFree
      <4>2. ASSUME o \in D
            PROVE  KeptIn(h', status[o], issued[o], o) <=> KeptAt(h'[s], status[o], issued[o])
        <5>1. /\ h'[s] # Idle /\ h'[s].order = o
              /\ \A x \in Slot : h'[x] # Idle /\ h'[x].order = o => x = s
          BY <3>1, <4>2 DEF Alone
        <5> QED
          BY <5>1, KeptAlone
      <4>3. KeptAt(h'[s], status[o], issued[o]) <=> KeptOfRow(status[o], issued[o])
        BY <3>3 DEF KeptAt, KeptOfRow
      <4>4. ASSUME NEW x \in Order, x # o
            PROVE  KeptIn(h', status[x], issued[x], x) <=> KeptIn(h, status[x], issued[x], x)
        <5>1. \A y \in Slot : (h'[y] # Idle /\ h'[y].order = x) <=> (h[y] # Idle /\ h[y].order = x)
          BY <3>1, <4>4
        <5>2. \A y \in Slot : h[y] # Idle /\ h[y].order = x => h'[y] = h[y]
          BY <3>1, <4>4
        <5> QED
          BY <5>1, <5>2, KeptFrame
      <4> QED
        BY <1>1, <4>1, <4>2, <4>3, <4>4, KeptPrime DEF KeptNow
    <3> QED
      BY <3>2, <3>3, StartClear
  <2> QED
    BY <2>1, <2>2, Started
<1>4. ASSUME NEW x \in Order, NEW t \in TicketType PROVE Lost(t, D)'[x] = Lost(t, D)[x]
  BY <1>1, <1>3, LostType
<1>5. ASSUME NEW u \in User, NEW t \in TicketType PROVE gone'[u][t] = gone[u][t] /\ gone[u][t] \in Int
  BY <1>1 DEF TypeOK, StoreTypeOK
<1>6. Owner[o] \in User
  BY LifecycleAssumption DEF LifecycleAssumption
<1>7. ASSUME NEW t \in TicketType
      PROVE  /\ Lost(t, D)'[o] - Lost(t, D)[o] = gone'[Owner[o]][t] - gone[Owner[o]][t]
             /\ Lost(t, D)'[o] - Lost(t, D)[o] <= gone'[Owner[o]][t] - gone[Owner[o]][t]
             /\ phase'[o] # "lapsed" => (Lost(t, D)'[o] > 0 => issued'[o] > 0)
  <2>1. Lost(t, D)'[o] = Lost(t, D)[o] /\ Lost(t, D)[o] \in Nat
    BY <1>4, LostType
  <2>2. gone'[Owner[o]][t] = gone[Owner[o]][t] /\ gone[Owner[o]][t] \in Int
    BY <1>5, <1>6
  <2>3. phase'[o] # "lapsed" => (Lost(t, D)'[o] > 0 => issued'[o] > 0)
    BY <1>1, <1>2, <2>1 DEF KeptInv
  <2> QED
    BY <2>1, <2>2, <2>3
<1> QED
  BY <1>1, <1>2, <1>4, <1>5, <1>7 DEF LosesFor

(* Nothing happened to keys, issues and phases. *)
LEMMA KeptStill ==
    ASSUME NEW D, KeptInv(D), UNCHANGED <<h, status, issued, reservation, gone, phase>>
    PROVE  KeptInv(D)'
<1>1. ASSUME NEW t \in TicketType PROVE Lost(t, D)' = Lost(t, D) /\ GoneBy(t)' = GoneBy(t)
  BY DEF Lost, GoneBy, KeptNow, KeptIn, HoldOf
<1> QED
  BY <1>1 DEF KeptInv, OrdersOf

LEMMA ElapseKept ==
    ASSUME TypeOK, HoldsKnown, NEW D, KeptInv(D), NEW o \in Order, Elapse(o)
    PROVE  LosesFor(o, D)
<1>1. UNCHANGED <<h, status, issued>>
  BY Quiet
<1>2. \A x \in Order : KeptNow(x)' <=> KeptNow(x)
  BY <1>1, KeptPrime DEF KeptNow
<1>3. phase \in [Order -> {"new", "open", "due", "lapsed"}]
  BY DEF TypeOK, HandlerTypeOK
<1>4. CASE HoldLapses(o)
  <2>1. Forget(o) /\ phase[o] = "due" /\ phase' = [phase EXCEPT ![o] = "lapsed"]
    BY <1>4 DEF HoldLapses
  <2>2. phase'[o] = "lapsed" /\ \A x \in Order : phase[x] = "lapsed" => phase'[x] = "lapsed"
    BY <1>3, <2>1
  <2> QED
    BY <1>1, <1>2, <2>1, <2>2, ForgottenKept
<1>5. CASE ExpiresAtPasses(o)
  <2>1. phase[o] = "open" /\ phase' = [phase EXCEPT ![o] = "due"]
        /\ UNCHANGED <<reservation, gone>>
    BY <1>5 DEF ExpiresAtPasses, storeVars
  <2>2. /\ phase[o] # "lapsed"
        /\ \A x \in Order : phase[x] = "lapsed" => phase'[x] = "lapsed"
    BY <1>3, <2>1
  <2>3. ASSUME NEW x \in Order, NEW t \in TicketType PROVE Lost(t, D)'[x] = Lost(t, D)[x]
    BY <1>2, <2>1, LostType
  <2>4. ASSUME NEW u \in User, NEW t \in TicketType
        PROVE  gone'[u][t] = gone[u][t] /\ gone[u][t] \in Int
    BY <2>1 DEF TypeOK, StoreTypeOK
  <2>5. Owner[o] \in User
    BY LifecycleAssumption DEF LifecycleAssumption
  <2>6. ASSUME NEW t \in TicketType
        PROVE  /\ Lost(t, D)'[o] - Lost(t, D)[o] = gone'[Owner[o]][t] - gone[Owner[o]][t]
               /\ Lost(t, D)'[o] - Lost(t, D)[o] <= gone'[Owner[o]][t] - gone[Owner[o]][t]
               /\ Lost(t, D)'[o] > 0 => issued'[o] > 0
    <3>1. Lost(t, D)'[o] = Lost(t, D)[o] /\ Lost(t, D)[o] \in Nat
      BY <2>3, LostType
    <3>2. Lost(t, D)[o] > 0 => issued[o] > 0
      BY <2>2 DEF KeptInv
    <3> QED
      BY <1>1, <2>4, <2>5, <3>1, <3>2
  <2> QED
    BY <1>1, <2>2, <2>3, <2>4, <2>6 DEF LosesFor
<1> QED
  BY <1>4, <1>5 DEF Elapse

LEMMA KeptInvStep ==
    ASSUME NEW D, Sound(D), TypeOK', KeptInv(D), Alone(D)', [StopsOutside(D)]_vars, [Next]_vars
    PROVE  KeptInv(D)'
<1>0. TypeOK /\ HoldsKnown
  BY DEF Sound
<1>1. ASSUME NEW s \in Slot, Continue(s) PROVE KeptInv(D)'
  BY <1>0, <1>1, ContinueKept, KeptStep
<1>2. ASSUME NEW s \in Slot, NEW o \in Order, Start(s, o) PROVE KeptInv(D)'
  BY <1>0, <1>2, StartKept, KeptStep
<1>3. ASSUME NEW s \in Slot, Crash(s), StopsOutside(D) PROVE KeptInv(D)'
  <2>1. h[s].order \in Order
    BY <1>0, <1>3, BusySlot DEF Crash, TypeOK
  <2> QED
    BY <1>0, <1>3, <2>1, CrashKept, KeptStep
<1>4. ASSUME NEW o \in Order, Elapse(o) PROVE KeptInv(D)'
  BY <1>0, <1>4, ElapseKept, KeptStep
<1>5. ASSUME NEW o \in Order, NEW result \in DOMAIN PaymentOf, RecordWebhook(o, result)
      PROVE  KeptInv(D)'
  <2>1. UNCHANGED <<h, status, issued>>
    BY <1>0, <1>5, Quiet
  <2>2. UNCHANGED <<reservation, gone, phase>>
    BY <1>5 DEF RecordWebhook, storeVars
  <2> QED
    BY <1>0, <2>1, <2>2, KeptStill
<1>6. CASE UNCHANGED vars
  BY <1>0, <1>6, KeptStill DEF vars, storeVars, rowVars, counterVars
<1> QED
  BY <1>1, <1>2, <1>3, <1>4, <1>5, <1>6 DEF Next

LEMMA KeptInit == ASSUME NEW D PROVE Init => KeptInv(D)
<1> SUFFICES ASSUME Init PROVE KeptInv(D)
  OBVIOUS
<1>1. ASSUME NEW o \in Order PROVE ~ KeptNow(o)
  <2>1. \A x \in Slot : ~ (h[x] # Idle /\ h[x].order = o)
    BY DEF Init
  <2>2. status[o] = "NONE" /\ issued[o] = 0
    BY DEF Init
  <2>3. ~ KeptOfRow(status[o], issued[o])
    BY <2>2 DEF KeptOfRow
  <2> QED
    BY <2>1, <2>3, KeptFree DEF KeptNow
<1>2. \A o \in Order, t \in TicketType : Lost(t, D)[o] = 0
  BY <1>1, LostType
<1>3. ASSUME NEW U \in SUBSET User, NEW t \in TicketType
      PROVE  /\ SumFunctionOnSet(Lost(t, D), OrdersOf(U)) = 0
             /\ SumFunctionOnSet(GoneBy(t), U) = 0
  <2>1. IsFiniteSet(OrdersOf(U)) /\ OrdersOf(U) \subseteq Order /\ IsFiniteSet(U)
    BY LifecycleAssumption, StoreAssumption, FS_Subset
       DEF OrdersOf, LifecycleAssumption, StoreAssumption
  <2>2. /\ \A o \in OrdersOf(U) : Lost(t, D)[o] = 0
        /\ \A u \in U : GoneBy(t)[u] = 0
    BY <1>2, <2>1 DEF GoneBy, Init
  <2> QED
    BY <2>1, <2>2, SumZero
<1>4. \A U \in SUBSET User, t \in TicketType :
        SumFunctionOnSet(Lost(t, D), OrdersOf(U)) <= SumFunctionOnSet(GoneBy(t), U)
  BY <1>3
<1>5. \A t \in TicketType :
        SumFunctionOnSet(Lost(t, D), OrdersOf(User)) = SumFunctionOnSet(GoneBy(t), User)
  BY <1>3
<1>6. \A o \in Order, t \in TicketType : ~ (Lost(t, D)[o] > 0)
  BY <1>2
<1> QED
  BY <1>4, <1>5, <1>6 DEF KeptInv

-----------------------------------------------------------------------------
(* Stock, keys and tickets together *)

(* The tickets of type t under each order's key, and those of orders without tickets. *)
HeldNow(t) == [o \in Order |-> IF HoldOf(o, t) \in reservation THEN Items[o][t] ELSE 0]
HeldUnissued(t) == [o \in Order |-> IF HoldOf(o, t) \in reservation /\ issued[o] = 0
                                    THEN Items[o][t] ELSE 0]

LEMMA KeyFields ==
    ASSUME TypeOK, HoldsKnown, NEW r \in reservation
    PROVE  /\ r.order \in Order /\ r.type \in TicketType /\ r.user = Owner[r.order]
           /\ r.qty = Items[r.order][r.type] /\ r.qty \in Nat
           /\ r = HoldOf(r.order, r.type)
<1>1. r \in Hold
  BY DEF TypeOK, StoreTypeOK
<1>2. PICK x \in Cart(r.order) : r = HoldOf(r.order, x)
  BY DEF HoldsKnown, OfCart
<1>3. r.order \in Order /\ r.type \in TicketType
  BY <1>1 DEF Hold
<1>4. r.type = x /\ r.user = Owner[r.order] /\ r.qty = Items[r.order][x]
  BY <1>2 DEF HoldOf
<1> QED
  BY <1>2, <1>3, <1>4, ItemsNat

LEMMA HoldFields ==
    ASSUME NEW o, NEW t
    PROVE  /\ HoldOf(o, t).order = o /\ HoldOf(o, t).type = t
           /\ HoldOf(o, t).user = Owner[o] /\ HoldOf(o, t).qty = Items[o][t]
BY DEF HoldOf

(* A sum over keys is one over orders: no order has two keys. *)
LEMMA HoldsSum ==
    ASSUME TypeOK, HoldsKnown, NEW K \in SUBSET reservation, NEW S \in SUBSET Order,
           \A r \in K : r.order \in S,
           NEW f, \A r \in K : f[r.order] = r.qty,
           \A o \in S : (\A r \in K : r.order # o) => f[o] = 0
    PROVE  SumOfHolds(K) = SumFunctionOnSet(f, S)
<1> DEFINE g == [r \in K |-> r.order]
           w == [r \in K |-> r.qty]
<1>1. IsFiniteSet(Order) /\ IsFiniteSet(S)
  BY LifecycleAssumption, FS_Subset DEF LifecycleAssumption
<1>2. \A r \in K : g[r] \in S /\ g[r] = r.order /\ w[r] = r.qty
  OBVIOUS
<1>3. \A r, k \in K : g[r] = g[k] => r = k
  BY <1>2 DEF HoldsKnown, OneEach
<1>4. IsFiniteSet(K)
  <2>1. g \in Injection(K, S)
    BY <1>2, <1>3 DEF Injection, IsInjective
  <2> HIDE DEF g
  <2> QED
    BY <1>1, <2>1, FS_Injection
<1>5. \A r \in K : w[r] \in Int /\ f[g[r]] = w[r]
  BY <1>2, KeyFields
<1>6. \A o \in S : (\A r \in K : g[r] # o) => f[o] = 0
  BY <1>2
<1> HIDE DEF g, w
<1>7. SumFunctionOnSet(f, S) = SumFunctionOnSet(w, K)
  BY <1>1, <1>2, <1>3, <1>4, <1>5, <1>6, SumOver
<1> QED
  BY <1>7 DEF SumOfHolds, w

LEMMA HeldSums ==
    ASSUME TypeOK, HoldsKnown, NEW t \in TicketType
    PROVE  /\ HeldOf(t) = SumFunctionOnSet(HeldNow(t), Order)
           /\ OnHold(t) = SumFunctionOnSet(HeldUnissued(t), Order)
           /\ \A u \in User : HeldBy(u, t) = SumFunctionOnSet(HeldNow(t), OrdersOf({u}))
<1>1. ASSUME NEW r \in HoldsOf(t)
      PROVE  /\ r \in reservation /\ r.order \in Order /\ r = HoldOf(r.order, t)
             /\ HeldNow(t)[r.order] = r.qty
             /\ issued[r.order] = 0 => HeldUnissued(t)[r.order] = r.qty
             /\ r.user = Owner[r.order]
  <2>1. r \in reservation /\ r.type = t
    BY DEF HoldsOf
  <2>2. r.order \in Order /\ r = HoldOf(r.order, t) /\ r.qty = Items[r.order][t]
        /\ r.user = Owner[r.order]
    BY <2>1, KeyFields
  <2> QED
    BY <2>1, <2>2 DEF HeldNow, HeldUnissued
<1>2. ASSUME NEW o \in Order, HoldOf(o, t) \in reservation
      PROVE  HoldOf(o, t) \in HoldsOf(t)
  BY <1>2, HoldFields DEF HoldsOf
<1>3. HeldOf(t) = SumFunctionOnSet(HeldNow(t), Order)
  <2>1. \A o \in Order : (\A r \in HoldsOf(t) : r.order # o) => HeldNow(t)[o] = 0
    BY <1>2, HoldFields DEF HeldNow
  <2>2. HoldsOf(t) \in SUBSET reservation
    BY DEF HoldsOf
  <2>3. \A r \in HoldsOf(t) : r.order \in Order /\ HeldNow(t)[r.order] = r.qty
    BY <1>1
  <2> QED
    BY <2>1, <2>2, <2>3, HoldsSum DEF HeldOf
<1>4. OnHold(t) = SumFunctionOnSet(HeldUnissued(t), Order)
  <2> DEFINE K == {r \in HoldsOf(t) : issued[r.order] = 0}
  <2>1. \A r \in K : r.order \in Order /\ HeldUnissued(t)[r.order] = r.qty
    BY <1>1
  <2>2. ASSUME NEW o \in Order, \A r \in K : r.order # o PROVE HeldUnissued(t)[o] = 0
    <3>1. HoldOf(o, t) \in reservation /\ issued[o] = 0 => HoldOf(o, t) \in K
      BY <1>2, HoldFields
    <3> QED
      BY <2>2, <3>1, HoldFields DEF HeldUnissued
  <2>3. K \in SUBSET reservation
    BY DEF HoldsOf
  <2>4. OnHold(t) = SumOfHolds(K)
    BY DEF OnHold
  <2> HIDE DEF K
  <2> QED
    BY <2>1, <2>2, <2>3, <2>4, HoldsSum
<1>5. ASSUME NEW u \in User
      PROVE  HeldBy(u, t) = SumFunctionOnSet(HeldNow(t), OrdersOf({u}))
  <2>1. ASSUME NEW r \in HoldsBy(u, t)
        PROVE  r \in reservation /\ r.order \in OrdersOf({u}) /\ HeldNow(t)[r.order] = r.qty
    <3>1. r \in HoldsOf(t) /\ r.user = u
      BY DEF HoldsBy, HoldsOf
    <3> QED
      BY <1>1, <3>1 DEF OrdersOf
  <2>2. ASSUME NEW o \in OrdersOf({u}), \A r \in HoldsBy(u, t) : r.order # o
        PROVE  HeldNow(t)[o] = 0
    <3>1. o \in Order /\ Owner[o] = u
      BY DEF OrdersOf
    <3>2. HoldOf(o, t) \in reservation => HoldOf(o, t) \in HoldsBy(u, t)
      BY <3>1, HoldFields DEF HoldsBy
    <3> QED
      BY <2>2, <3>1, <3>2, HoldFields DEF HeldNow
  <2>3. HoldsBy(u, t) \in SUBSET reservation /\ OrdersOf({u}) \in SUBSET Order
    BY <2>1 DEF OrdersOf
  <2>4. /\ \A r \in HoldsBy(u, t) : r.order \in OrdersOf({u}) /\ HeldNow(t)[r.order] = r.qty
        /\ \A o \in OrdersOf({u}) : (\A r \in HoldsBy(u, t) : r.order # o) => HeldNow(t)[o] = 0
    BY <2>1, <2>2
  <2> QED
    BY <2>3, <2>4, HoldsSum DEF HeldBy
<1> QED
  BY <1>3, <1>4, <1>5

(* The tickets of type t of each order of D. *)
Spared(t, D) == [o \in Order |-> IF o \in D THEN TicketsOf(t)[o] ELSE 0]
Others(t, D) == [o \in Order |-> IF o \in D THEN 0 ELSE TicketsOf(t)[o]]

LEMMA TicketsInt ==
    ASSUME TypeOK, NEW t \in TicketType, NEW o \in Order
    PROVE  TicketsOf(t)[o] \in Nat
<1>1. issued[o] \in Nat /\ Items[o][t] \in Nat
  BY ItemsNat DEF TypeOK, CounterTypeOK
<1>2. issued[o] * Items[o][t] \in Nat
  BY <1>1
<1> QED
  BY <1>2 DEF TicketsOf

(* Tickets are those of orders of D and those of the others. *)
LEMMA SparedSums ==
    ASSUME TypeOK, NEW D, NEW t \in TicketType, NEW S \in SUBSET Order
    PROVE  SumFunctionOnSet(TicketsOf(t), S)
             = SumFunctionOnSet(Spared(t, D), S) + SumFunctionOnSet(TicketsOf(t), S \ D)
<1> DEFINE f == TicketsOf(t)
           a == Spared(t, D)
           b == Others(t, D)
           g == [o \in S \ D |-> o]
<1>1. IsFiniteSet(S) /\ IsFiniteSet(S \ D)
  BY LifecycleAssumption, FS_Subset DEF LifecycleAssumption
<1>2. \A o \in S : f[o] \in Int
  BY TicketsInt
<1> HIDE DEF f
<1>3. \A o \in S : a[o] = (IF o \in D THEN f[o] ELSE 0) /\ b[o] = (IF o \in D THEN 0 ELSE f[o])
  BY DEF Spared, Others, f
<1> HIDE DEF a, b
<1>4. \A o \in S : a[o] \in Int /\ b[o] \in Int /\ f[o] = a[o] + b[o]
  BY <1>2, <1>3
<1>5. SumFunctionOnSet(f, S) = SumFunctionOnSet(a, S) + SumFunctionOnSet(b, S)
  BY <1>1, <1>2, <1>4, SumPlus
<1>6. \A o \in S \ D : g[o] = o
  OBVIOUS
<1> HIDE DEF g
<1>7. /\ \A o \in S \ D : g[o] \in S /\ f[o] \in Int /\ b[g[o]] = f[o]
      /\ \A x, y \in S \ D : g[x] = g[y] => x = y
      /\ \A z \in S : (\A x \in S \ D : g[x] # z) => b[z] = 0
  BY <1>2, <1>3, <1>6
<1>8. SumFunctionOnSet(b, S) = SumFunctionOnSet(f, S \ D)
  BY <1>1, <1>7, SumOver
<1> QED
  BY <1>5, <1>8 DEF f, a

(* Order by order: tickets and unpaid keys are no more than keys and lost tickets. *)
LEMMA TicketsBacked ==
    ASSUME TypeOK, NEW D, Lone(D), NEW t \in TicketType, NEW o \in Order
    PROVE  /\ HeldNow(t)[o] \in Nat /\ Lost(t, D)[o] \in Nat
           /\ Spared(t, D)[o] \in Nat /\ HeldUnissued(t)[o] \in Nat
           /\ HeldUnissued(t)[o] + Spared(t, D)[o] <= HeldNow(t)[o] + Lost(t, D)[o]
           /\ Spared(t, D)[o] <= HeldNow(t)[o] + Lost(t, D)[o]
           /\ o \in D /\ (Lost(t, D)[o] > 0 => issued[o] > 0) =>
                HeldUnissued(t)[o] + Spared(t, D)[o] = HeldNow(t)[o] + Lost(t, D)[o]
<1>1. Items[o][t] \in Nat /\ Lost(t, D)[o] \in Nat
  BY ItemsNat, LostType
<1>2. /\ HeldNow(t)[o] = IF HoldOf(o, t) \in reservation THEN Items[o][t] ELSE 0
      /\ HeldUnissued(t)[o] = IF HoldOf(o, t) \in reservation /\ issued[o] = 0
                              THEN Items[o][t] ELSE 0
      /\ Lost(t, D)[o] = IF o \in D /\ KeptNow(o) /\ HoldOf(o, t) \notin reservation
                         THEN Items[o][t] ELSE 0
      /\ Spared(t, D)[o] = IF o \in D THEN issued[o] * Items[o][t] ELSE 0
  BY LostType DEF HeldNow, HeldUnissued, Spared, TicketsOf
<1>3. CASE o \notin D
  BY <1>1, <1>2, <1>3
<1>4. CASE o \in D
  <2>1. issued[o] = 0 \/ issued[o] = 1
    BY <1>4 DEF Lone, PaidIfIssued, TypeOK, CounterTypeOK
  <2>2. Spared(t, D)[o] = IF issued[o] = 1 THEN Items[o][t] ELSE 0
    BY <1>1, <1>2, <1>4, <2>1
  <2>3. issued[o] = 1 => KeptNow(o)
    BY DEF KeptNow, KeptIn
  <2>4. CASE issued[o] = 0
    BY <1>1, <1>2, <1>4, <2>2, <2>4
  <2>5. CASE issued[o] = 1
    BY <1>1, <1>2, <1>4, <2>2, <2>3, <2>5
  <2> QED
    BY <2>1, <2>4, <2>5
<1> QED
  BY <1>3, <1>4

(* Summed up: over all orders, and over those of one customer. *)
LEMMA TicketSums ==
    ASSUME TypeOK, NEW D, Lone(D), NEW t \in TicketType, NEW S \in SUBSET Order
    PROVE  /\ SumFunctionOnSet(HeldUnissued(t), S) + SumFunctionOnSet(Spared(t, D), S)
                <= SumFunctionOnSet(HeldNow(t), S) + SumFunctionOnSet(Lost(t, D), S)
           /\ SumFunctionOnSet(Spared(t, D), S)
                <= SumFunctionOnSet(HeldNow(t), S) + SumFunctionOnSet(Lost(t, D), S)
           /\ S \subseteq D /\ (\A o \in S : Lost(t, D)[o] > 0 => issued[o] > 0) =>
                SumFunctionOnSet(HeldUnissued(t), S) + SumFunctionOnSet(Spared(t, D), S)
                  = SumFunctionOnSet(HeldNow(t), S) + SumFunctionOnSet(Lost(t, D), S)
<1> DEFINE a == HeldUnissued(t)
           b == Spared(t, D)
           c == HeldNow(t)
           d == Lost(t, D)
<1>1. IsFiniteSet(S)
  BY LifecycleAssumption, FS_Subset DEF LifecycleAssumption
<1>2. ASSUME NEW o \in S
      PROVE  /\ a[o] \in Nat /\ b[o] \in Nat /\ c[o] \in Nat /\ d[o] \in Nat
             /\ a[o] + b[o] <= c[o] + d[o] /\ b[o] <= c[o] + d[o]
             /\ o \in D /\ (d[o] > 0 => issued[o] > 0) => a[o] + b[o] = c[o] + d[o]
  BY TicketsBacked
<1> HIDE DEF a, b, c, d
<1> DEFINE ab == [o \in S |-> a[o] + b[o]]
           cd == [o \in S |-> c[o] + d[o]]
<1>3. \A o \in S : /\ ab[o] = a[o] + b[o] /\ cd[o] = c[o] + d[o]
                   /\ ab[o] \in Nat /\ cd[o] \in Nat /\ ab[o] <= cd[o] /\ b[o] <= cd[o]
                   /\ o \in D /\ (d[o] > 0 => issued[o] > 0) => ab[o] = cd[o]
  BY <1>2
<1>4. \A o \in S : a[o] \in Int /\ b[o] \in Int /\ c[o] \in Int /\ d[o] \in Int
  BY <1>2
<1> HIDE DEF ab, cd
<1>5. SumFunctionOnSet(ab, S) = SumFunctionOnSet(a, S) + SumFunctionOnSet(b, S)
  BY <1>1, <1>3, <1>4, SumPlus
<1>6. SumFunctionOnSet(cd, S) = SumFunctionOnSet(c, S) + SumFunctionOnSet(d, S)
  BY <1>1, <1>3, <1>4, SumPlus
<1>7. SumFunctionOnSet(ab, S) <= SumFunctionOnSet(cd, S)
  BY <1>1, <1>3, SumMonotone
<1>8. SumFunctionOnSet(b, S) <= SumFunctionOnSet(cd, S)
  BY <1>1, <1>2, <1>3, SumMonotone
<1>9. S \subseteq D /\ (\A o \in S : d[o] > 0 => issued[o] > 0)
        => SumFunctionOnSet(ab, S) = SumFunctionOnSet(cd, S)
  BY <1>1, <1>3, SumSame
<1> QED
  BY <1>5, <1>6, <1>7, <1>8, <1>9 DEF a, b, c, d

(* The invariants proved of keys, counters, seeds and kept orders, as one. *)
Backed(D) ==
    /\ D \in SUBSET Order
    /\ TypeOK /\ Lone(D) /\ HoldsKnown /\ SeedsFresh /\ KeptInv(D)
    /\ LimitRespected /\ CountersConserved /\ CountersMatchTickets

LEMMA SumTypes ==
    ASSUME TypeOK, NEW D, Lone(D), NEW t \in TicketType, NEW U \in SUBSET User
    PROVE  /\ SumFunctionOnSet(HeldUnissued(t), OrdersOf(U)) \in Nat
           /\ SumFunctionOnSet(Spared(t, D), OrdersOf(U)) \in Nat
           /\ SumFunctionOnSet(HeldNow(t), OrdersOf(U)) \in Nat
           /\ SumFunctionOnSet(Lost(t, D), OrdersOf(U)) \in Nat
           /\ SumFunctionOnSet(GoneBy(t), U) \in Nat
<1>1. OrdersOf(U) \in SUBSET Order /\ IsFiniteSet(OrdersOf(U)) /\ IsFiniteSet(U)
  BY LifecycleAssumption, StoreAssumption, FS_Subset
     DEF OrdersOf, LifecycleAssumption, StoreAssumption
<1>2. \A o \in OrdersOf(U) : /\ HeldUnissued(t)[o] \in Nat /\ Spared(t, D)[o] \in Nat
                             /\ HeldNow(t)[o] \in Nat /\ Lost(t, D)[o] \in Nat
  BY <1>1, TicketsBacked
<1>3. \A u \in U : GoneBy(t)[u] \in Nat
  BY DEF GoneBy, TypeOK, StoreTypeOK
<1> QED
  BY <1>1, <1>2, <1>3, SumIn

(***************************************************************************)
(* Stock, keys of unpaid orders and tickets exceed totalQty by no more     *)
(* than the tickets of the orders that are not in D.                       *)
(***************************************************************************)
StockSpared(D) ==
    \A t \in TicketType :
        stock[t] + OnHold(t) + sold[t] <= Total[t] + SumFunctionOnSet(TicketsOf(t), Order \ D)

LEMMA StockAdds ==
    ASSUME NEW D, Backed(D)
    PROVE  StockSpared(D) /\ (D = Order => StockFollowsOrders)
<1>0. TypeOK /\ Lone(D) /\ HoldsKnown /\ SeedsFresh /\ KeptInv(D) /\ CountersConserved
      /\ CountersMatchTickets /\ D \in SUBSET Order
  BY DEF Backed
<1>1. OrdersOf(User) = Order
  BY LifecycleAssumption DEF OrdersOf, LifecycleAssumption
<1>2. ASSUME NEW t \in TicketType
      PROVE  /\ stock[t] + OnHold(t) + sold[t]
                  <= Total[t] + SumFunctionOnSet(TicketsOf(t), Order \ D)
             /\ D = Order => stock[t] + OnHold(t) + sold[t] <= Total[t]
             /\ D = Order /\ (\A o \in Order : phase[o] # "lapsed")
                  => stock[t] + OnHold(t) + sold[t] = supply[t]
  <2> DEFINE a == SumFunctionOnSet(HeldUnissued(t), Order)
             b == SumFunctionOnSet(Spared(t, D), Order)
             c == SumFunctionOnSet(HeldNow(t), Order)
             d == SumFunctionOnSet(Lost(t, D), Order)
             e == SumFunctionOnSet(GoneBy(t), User)
             f == SumFunctionOnSet(TicketsOf(t), Order \ D)
  <2>1. a \in Nat /\ b \in Nat /\ c \in Nat /\ d \in Nat /\ e \in Nat
    BY <1>0, <1>1, SumTypes
  <2>2. OnHold(t) = a /\ HeldOf(t) = c
    BY <1>0, HeldSums
  <2>3. sold[t] = b + f /\ f \in Int /\ (D = Order => f = 0)
    <3>1. sold[t] = b + f
      BY <1>0, SparedSums DEF CountersMatchTickets
    <3>2. sold[t] \in Nat
      BY <1>0 DEF TypeOK, CounterTypeOK
    <3>3. D = Order => f = 0
      BY SumEmpty
    <3>4. f \in Int
      <4>1. IsFiniteSet(Order \ D)
        BY LifecycleAssumption, FS_Subset DEF LifecycleAssumption
      <4>2. \A o \in Order \ D : TicketsOf(t)[o] \in Int
        BY <1>0, TicketsInt
      <4> QED
        BY <4>1, <4>2, SumIn
    <3> QED
      BY <3>1, <3>3, <3>4
  <2>4. stock[t] + c + e = supply[t]
    BY <1>0, <2>2 DEF CountersConserved, GoneOf, GoneBy
  <2>5. d <= e
    BY <1>0, <1>1 DEF KeptInv
  <2>6. a + b <= c + d
    BY <1>0, TicketSums
  <2>7. supply[t] <= Total[t] /\ supply[t] \in Nat /\ Total[t] \in Nat /\ stock[t] \in Nat
    BY <1>0, LifecycleAssumption DEF SeedsFresh, LifecycleAssumption, TypeOK, StoreTypeOK
  <2>8. ASSUME D = Order, \A o \in Order : phase[o] # "lapsed" PROVE d = e /\ a + b = c + d
    <3>1. \A o \in Order : Lost(t, D)[o] > 0 => issued[o] > 0
      BY <1>0, <2>8 DEF KeptInv
    <3>2. a + b = c + d
      BY <1>0, <2>8, <3>1, TicketSums
    <3>3. d = e
      BY <1>0, <1>1, <2>8 DEF KeptInv
    <3> QED
      BY <3>2, <3>3
  <2>f. f = SumFunctionOnSet(TicketsOf(t), Order \ D)
    OBVIOUS
  <2> HIDE DEF a, b, c, d, e, f
  <2>9. stock[t] + a + (b + f) <= Total[t] + f
    BY <2>1, <2>3, <2>4, <2>5, <2>6, <2>7
  <2>10. f = 0 /\ d = e /\ a + b = c + d => stock[t] + a + (b + f) = supply[t]
    BY <2>1, <2>4, <2>7
  <2>11. f = 0 => stock[t] + a + (b + f) <= Total[t]
    BY <2>1, <2>7, <2>9
  <2> QED
    BY <2>f, <2>2, <2>3, <2>8, <2>9, <2>10, <2>11
<1> QED
  BY <1>2 DEF StockSpared, StockFollowsOrders

(***************************************************************************)
(* A customer gets no more tickets of a type than maxPerUser and those of  *)
(* the customer's orders that are not in D.                                *)
(***************************************************************************)
LimitSpared(D) ==
    \A u \in User, t \in TicketType :
        userPaid[u][t]
          <= MaxPerUser[t] + SumFunctionOnSet(TicketsOf(t), {o \in Order : Owner[o] = u} \ D)

LEMMA LimitAdds ==
    ASSUME NEW D, Backed(D)
    PROVE  LimitSpared(D) /\ (D = Order => TicketsWithinLimit)
<1>0. TypeOK /\ Lone(D) /\ HoldsKnown /\ SeedsFresh /\ KeptInv(D) /\ CountersConserved
      /\ CountersMatchTickets /\ LimitRespected
  BY DEF Backed
<1>1. ASSUME NEW u \in User, NEW t \in TicketType
      PROVE  /\ userPaid[u][t] <= MaxPerUser[t]
                    + SumFunctionOnSet(TicketsOf(t), {o \in Order : Owner[o] = u} \ D)
             /\ D = Order => userPaid[u][t] <= MaxPerUser[t]
  <2> DEFINE S == OrdersOf({u})
             f == SumFunctionOnSet(TicketsOf(t), S \ D)
             b == SumFunctionOnSet(Spared(t, D), S)
             c == SumFunctionOnSet(HeldNow(t), S)
             d == SumFunctionOnSet(Lost(t, D), S)
             e == SumFunctionOnSet(GoneBy(t), {u})
  <2>0. S \in SUBSET Order /\ {u} \in SUBSET User
    BY DEF OrdersOf
  <2>1. b \in Nat /\ c \in Nat /\ d \in Nat /\ e \in Nat
    BY <1>0, <2>0, SumTypes
  <2>2. HeldBy(u, t) = c
    BY <1>0, HeldSums
  <2>3. userPaid[u][t] = b + f /\ f \in Int /\ (D = Order => f = 0)
    <3>1. S = {o \in Order : Owner[o] = u} /\ S \in SUBSET Order
      BY DEF OrdersOf
    <3>2. userPaid[u][t] = SumFunctionOnSet(TicketsOf(t), {o \in Order : Owner[o] = u})
      BY <1>0 DEF CountersMatchTickets
    <3>3. userPaid[u][t] = b + f
      BY <1>0, <3>1, <3>2, SparedSums
    <3>4. D = Order => f = 0
      <4>1. D = Order => S \ D = {}
        BY <3>1
      <4> QED
        BY <4>1, SumEmpty
    <3>5. f \in Int
      <4>1. IsFiniteSet(S \ D)
        BY <3>1, LifecycleAssumption, FS_Subset DEF LifecycleAssumption
      <4>2. \A o \in S \ D : TicketsOf(t)[o] \in Int
        BY <1>0, <3>1, TicketsInt
      <4> QED
        BY <4>1, <4>2, SumIn
    <3> QED
      BY <3>3, <3>4, <3>5
  <2>4. e = gone[u][t]
    <3>1. GoneBy(t)[u] = gone[u][t] /\ gone[u][t] \in Nat
      BY <1>0 DEF GoneBy, TypeOK, StoreTypeOK
    <3>2. e = GoneBy(t)[u] + SumFunctionOnSet(GoneBy(t), {u} \ {u})
      <4>1. IsFiniteSet({u})
        BY FS_Singleton
      <4>2. \A x \in {u} : GoneBy(t)[x] \in Int
        BY <3>1
      <4>3. u \in {u}
        OBVIOUS
      <4> QED
        BY <4>1, <4>2, <4>3, SumRemove
    <3>3. SumFunctionOnSet(GoneBy(t), {u} \ {u}) = 0
      <4>1. {u} \ {u} = {}
        OBVIOUS
      <4> QED
        BY <4>1, SumEmpty
    <3> QED
      BY <3>1, <3>2, <3>3
  <2>5. d <= e
    BY <1>0, <2>0 DEF KeptInv
  <2>6. b <= c + d
    BY <1>0, <2>0, TicketSums
  <2>7. base[u][t] = 0 /\ MaxPerUser[t] \in Nat
    BY <1>0, StoreAssumption DEF SeedsFresh, StoreAssumption
  <2>8. userLimit[u][t] = base[u][t] + HeldBy(u, t) + gone[u][t]
    BY <1>0, <2>7 DEF CountersConserved
  <2>9. userLimit[u][t] <= MaxPerUser[t]
    BY <1>0, <2>7 DEF LimitRespected
  <2>10. c + e <= MaxPerUser[t]
    <3> HIDE DEF c, e
    <3> QED
      BY <2>1, <2>2, <2>4, <2>7, <2>8, <2>9
  <2>11. f = SumFunctionOnSet(TicketsOf(t), {o \in Order : Owner[o] = u} \ D)
    BY DEF OrdersOf
  <2> HIDE DEF b, c, d, e, f
  <2>12. b + f <= MaxPerUser[t] + f /\ (f = 0 => b + f <= MaxPerUser[t])
    BY <2>1, <2>3, <2>5, <2>6, <2>7, <2>10
  <2> QED
    BY <2>3, <2>11, <2>12
<1> QED
  BY <1>1 DEF LimitSpared, TicketsWithinLimit

(* What is known of every order, and of the orders of D under the conditions on them. *)
LEMMA BackedAlways ==
    ASSUME NEW D \in SUBSET Order, SeedValue = Nat, CountValue = Int
    PROVE  Spec /\ []Alone(D) /\ []NothingUndone(D) /\ [][StopsOutside(D)]_vars => []Backed(D)
<1> DEFINE Known == TypeOK /\ Fresh /\ Lone(D) /\ HoldsKnown
           IInv == Known /\ Clear(D) /\ SeedsFresh /\ KeptInv(D)
<1>1. Init => Fresh /\ Lone(D) /\ HoldsKnown /\ Clear(D) /\ SeedsFresh /\ KeptInv(D)
  BY LoneInit, HeldInit, ClearInit, SeedsInit, KeptInit
<1>2. Known /\ Alone(D)' /\ [Next]_vars => Fresh' /\ Lone(D)' /\ HoldsKnown'
  BY FreshStep, LoneStep, HeldStep
<1>3. IInv /\ [Next]_vars => SeedsFresh'
  BY SeedsStep
<1>4. IInv /\ NothingUndone(D) /\ NothingUndone(D)' => Sound(D)
  BY DEF Sound
<1>5. IInv /\ TypeOK' /\ Alone(D)' /\ NothingUndone(D) /\ NothingUndone(D)'
        /\ [StopsOutside(D)]_vars /\ [Next]_vars
          => Clear(D)' /\ KeptInv(D)'
  <2> SUFFICES ASSUME IInv, TypeOK', Alone(D)', Sound(D), [StopsOutside(D)]_vars, [Next]_vars
               PROVE  Clear(D)' /\ KeptInv(D)'
    BY <1>4
  <2> QED
    BY ClearStep, KeptInvStep
<1>6. IInv /\ LimitRespected /\ CountersConserved /\ CountersMatchTickets => Backed(D)
  BY DEF Backed
<1> QED
  BY <1>1, <1>2, <1>3, <1>5, <1>6, TypeCorrect, StoreGuarantees, CountersMatch, PTL DEF Spec

(***************************************************************************)
(* What overlapping handlers, a handler that stops between two counters    *)
(* and a creation undone half-way can do to the stock is bounded by the    *)
(* tickets of the orders they happen to.  D is any set of orders that no   *)
(* two handlers work on at once, whose handlers do not stop at the         *)
(* counters and whose creation is not undone, as that of every order to    *)
(* which none of this happens; the other orders' handlers overlap, stop    *)
(* and fail as they like, and so may the calls that D's handlers make,     *)
(* which come late and are delivered again.  What the stock key still      *)
(* offers, the keys of unpaid orders and the tickets issued then exceed    *)
(* totalQty by no more than the tickets of the orders outside D; and if    *)
(* there are none, Redis and PostgreSQL agree on every ticket.             *)
(***************************************************************************)
THEOREM StockContained ==
    ASSUME NEW D \in SUBSET Order, SeedValue = Nat, CountValue = Int
    PROVE  Spec /\ []Alone(D) /\ []NothingUndone(D) /\ [][StopsOutside(D)]_vars
             => [](StockSpared(D) /\ (D = Order => StockFollowsOrders))
<1>1. Backed(D) => StockSpared(D) /\ (D = Order => StockFollowsOrders)
  BY StockAdds
<1> QED
  BY <1>1, BackedAlways, PTL

(***************************************************************************)
(* Under the same conditions on D a customer is issued no more tickets of  *)
(* a type than maxPerUser and those of the customer's orders outside D,    *)
(* although user_limit in Redis, which is checked, and paidQty in          *)
(* PostgreSQL, which counts, are written by different handlers and the     *)
(* reservation key between them may lapse before the payment.              *)
(***************************************************************************)
THEOREM LimitContained ==
    ASSUME NEW D \in SUBSET Order, SeedValue = Nat, CountValue = Int
    PROVE  Spec /\ []Alone(D) /\ []NothingUndone(D) /\ [][StopsOutside(D)]_vars
             => [](LimitSpared(D) /\ (D = Order => TicketsWithinLimit))
<1>1. Backed(D) => LimitSpared(D) /\ (D = Order => TicketsWithinLimit)
  BY LimitAdds
<1> QED
  BY <1>1, BackedAlways, PTL

=============================================================================
