--------------------------- MODULE OrderLifecycle ---------------------------
(***************************************************************************)
(* The life of an order: creation with its Redis reservation, PostgreSQL   *)
(* counters and payment URL; payment webhooks; cancellation; the delayed   *)
(* expire job; the payment cron; the ticket-issue job.                     *)
(*                                                                         *)
(* A handler runs in a slot of Slot and is cut at its awaits: one action   *)
(* per PostgreSQL statement, PostgreSQL transaction (READ COMMITTED: the   *)
(* re-check it begins with is a step of its own) or Redis command, so the  *)
(* steps of all handlers interleave.  An early return is an action that is *)
(* not enabled.  h[s] is the handler's position and locals.                *)
(*                                                                         *)
(* Time is phase[o]: "open" until expiresAt, "due" while the reservation   *)
(* key still lives, "lapsed" once its TTL is over.  createOrder computes   *)
(* expiresAt first, sets the key later and adds the delayed job last, all  *)
(* with the same ttl: the job never fires before "lapsed".                 *)
(***************************************************************************)
EXTENDS TicketStore

CONSTANTS
    Owner,          \* Owner[o]: the customer who sends request o
    Items,          \* Items[o][t]: quantity of type t in request o, 0 if none
    Total,          \* Total[t]: TicketType.totalQty
    Slot,           \* bound: handlers running at the same time
    PerOrder,       \* bound: handlers running at the same time on one order
    Calls,          \* the calls customers, gateway and cron make
    Faults,         \* the dependencies that may fail: "gateway", "database"
    MaxTries,       \* bound: calls of customer and gateway for one order
    MaxCrashes      \* bound: handlers stopped half-way

AllCalls == {"cancel", "repay", "success", "failed", "timeout",
             "cronPaid", "cronFailed", "cronExpired"}

ASSUME LifecycleAssumption ==
    /\ TicketType \subseteq Nat     \* in the order the request lists them
    /\ IsFiniteSet(Order)
    /\ IsFiniteSet(Slot)
    /\ Owner \in [Order -> User]
    /\ Items \in [Order -> [TicketType -> Quantity \cup {0}]]
    /\ Total \in [TicketType -> Nat]
    /\ PerOrder \in Nat
    /\ Calls \subseteq AllCalls
    /\ MaxTries \in Nat
    /\ MaxCrashes \in Nat

VARIABLES
    status,         \* Order.status; "NONE": no row
    payments,       \* the statuses of the order's PaymentTransaction rows
    issued,         \* how many times the order's tickets were created
    sold,           \* TicketType.soldQty
    reserved,       \* TicketType.reservedQty
    userPaid,       \* UserTicketCounter.paidQty
    userReserved,   \* UserTicketCounter.reservedQty
    counterRows,    \* the pairs <<u, t>> that have a UserTicketCounter row
    expireJob,      \* the order-expire job of the order
    issueJobs,      \* ticket-issue jobs waiting for the order
    phase,
    seen,           \* createOrder: the counters read for lazy seeding
    reply,          \* createOrder: the replies of the reserve script
    h,
    tries,
    crashes

rowVars     == <<status, payments>>
counterVars == <<issued, sold, reserved, userPaid, userReserved, counterRows>>
jobVars     == <<expireJob, issueJobs>>
localVars   == <<seen, reply>>
budget      == <<tries, crashes>>

vars == <<storeVars, rowVars, counterVars, jobVars, localVars,
          phase, h, budget>>

-----------------------------------------------------------------------------
Status == {"NONE", "PENDING_PAYMENT", "PAID", "CANCELLED", "EXPIRED",
           "PAYMENT_FAILED"}
Payment == {"INITIATED", "SUCCESS", "FAILED", "TIMEOUT"}

Op == AllCalls \cup {"create", "undoPersist", "undoCount", "undoGateway",
                     "expire", "issue"}
Step == {"ensure", "seed", "reserve", "rollback", "persist", "count",
         "openUrl", "gateway", "schedule", "release", "counters", "status",
         "delete", "recheck", "commit", "enqueue", "forget", "tally", "ack"}

Idle == [at |-> "idle"]
Running == [op : Op, order : Order, at : Step,
            todo : SUBSET {"types", "users", "row", "error"}]

At(s, op, at) == h[s] # Idle /\ h[s].op = op /\ h[s].at = at
Go(s, at) == h' = [h EXCEPT ![s].at = at]
End(s)    == h' = [h EXCEPT ![s] = Idle]

(* A new handler of kind op for order o, at its first await after a read. *)
Begin(s, op, o, at, todo) ==
    /\ h[s] = Idle
    /\ Cardinality({x \in Slot : h[x] # Idle /\ h[x].order = o}) < PerOrder
    /\ h' = [h EXCEPT ![s] = [op |-> op, order |-> o, at |-> at, todo |-> todo]]

(* One more call for order o from outside. *)
Try(o) == tries[o] < MaxTries /\ tries' = [tries EXCEPT ![o] = @ + 1]

Cart(o) == {t \in TicketType : Items[o][t] > 0}
HoldOf(o, t) ==
    [order |-> o, user |-> Owner[o], type |-> t, qty |-> Items[o][t]]

(* Mutant of ReleaseAll: the handler forgets Redis. *)
ReleaseNone(o) == UNCHANGED storeVars

(* Mutant of ReleaseAll: INCRBY whether or not the key is there. *)
ReleaseUnchecked(o) ==
    /\ stock' = [t \in TicketType |-> stock[t] + Items[o][t]]
    /\ reservation' = {r \in reservation : r.order # o}
    /\ UNCHANGED <<stockKeys, userLimit, limitKeys, supply, base, gone>>

(***************************************************************************)
(* Promise.all of releaseReservation over the items of o.  The key is per  *)
(* order, so at most one of the calls finds a matching reservation.        *)
(***************************************************************************)
ReleaseAll(o) ==
    \/ \E t \in Cart(o) : Release(HoldOf(o, t))
    \/ /\ \A t \in Cart(o) : HoldOf(o, t) \notin reservation
       /\ UNCHANGED storeVars

Available(t) ==
    LET n == Total[t] - sold[t] - reserved[t] IN IF n < 0 THEN 0 ELSE n

NoReply == [t \in TicketType |-> "none"]
Unseen  == [t \in TicketType |-> [avail |-> 0, count |-> 0]]

RowTypeOK ==
    /\ status \in [Order -> Status]
    /\ payments \in [Order -> SUBSET Payment]

CounterTypeOK ==
    /\ issued \in [Order -> Nat]
    /\ sold \in [TicketType -> Nat]
    /\ reserved \in [TicketType -> Int]
    /\ userPaid \in [User -> [TicketType -> Nat]]
    /\ userReserved \in [User -> [TicketType -> Int]]
    /\ counterRows \subseteq User \X TicketType

JobTypeOK ==
    /\ expireJob \in [Order -> {"none", "delayed", "active", "done"}]
    /\ issueJobs \in [Order -> Nat]

LocalTypeOK ==
    /\ seen \in [Order -> [TicketType -> [avail : Nat, count : Int]]]
    /\ reply \in [Order -> [TicketType -> {"none", "ok", "no", "back"}]]

HandlerTypeOK ==
    /\ phase \in [Order -> {"new", "open", "due", "lapsed"}]
    /\ h \in [Slot -> Running \cup {Idle}]
    /\ tries \in [Order -> Nat]
    /\ crashes \in Nat

TypeOK ==
    /\ StoreTypeOK /\ RowTypeOK /\ CounterTypeOK /\ JobTypeOK /\ LocalTypeOK
    /\ HandlerTypeOK

(***************************************************************************)
(* No order yet.  The stock key of a type was seeded with totalQty when    *)
(* the type was created, or is missing and left to lazy seeding.           *)
(***************************************************************************)
Init ==
    /\ stockKeys \in {{}, TicketType}
    /\ stock = [t \in TicketType |-> IF t \in stockKeys THEN Total[t] ELSE 0]
    /\ supply = stock
    /\ userLimit = [u \in User |-> [t \in TicketType |-> 0]]
    /\ limitKeys = {}
    /\ reservation = {}
    /\ base = userLimit
    /\ gone = userLimit
    /\ status = [o \in Order |-> "NONE"]
    /\ payments = [o \in Order |-> {}]
    /\ issued = [o \in Order |-> 0]
    /\ sold = [t \in TicketType |-> 0]
    /\ reserved = sold
    /\ userPaid = userLimit
    /\ userReserved = userLimit
    /\ counterRows = {}
    /\ expireJob = [o \in Order |-> "none"]
    /\ issueJobs = [o \in Order |-> 0]
    /\ phase = [o \in Order |-> "new"]
    /\ seen = [o \in Order |-> Unseen]
    /\ reply = [o \in Order |-> NoReply]
    /\ h = [s \in Slot |-> Idle]
    /\ tries = [o \in Order |-> 0]
    /\ crashes = 0

-----------------------------------------------------------------------------
(* createOrder *)

(* POST /orders; expiresAt is fixed here.  Each order id is used once. *)
StartCreate(s, o) ==
    /\ phase[o] = "new"
    /\ Begin(s, "create", o, "ensure", {})
    /\ phase' = [phase EXCEPT ![o] = "open"]
    /\ UNCHANGED <<storeVars, rowVars, counterVars, jobVars, localVars, budget>>

(* ensureRedisStock and ensureRedisUserLimit: read PostgreSQL ... *)
ReadSeeds(s) ==
    /\ At(s, "create", "ensure")
    /\ LET o == h[s].order IN
       seen' = [seen EXCEPT ![o] = [t \in TicketType |->
                  [avail |-> Available(t),
                   count |-> userPaid[Owner[o]][t] + userReserved[Owner[o]][t]]]]
    /\ Go(s, "seed")
    /\ UNCHANGED <<storeVars, rowVars, counterVars, jobVars, reply, phase, budget>>

(* ... then SET NX each key. *)
SeedKeys(s) ==
    /\ At(s, "create", "seed")
    /\ LET o == h[s].order IN
       /\ Seed(Owner[o], Cart(o), [t \in TicketType |-> seen[o][t].avail],
                                  [t \in TicketType |-> seen[o][t].count])
       /\ seen' = [seen EXCEPT ![o] = Unseen]
    /\ Go(s, "reserve")
    /\ UNCHANGED <<rowVars, counterVars, jobVars, reply, phase, budget>>

Unanswered(o) == {t \in Cart(o) : reply[o][t] = "none"}
Refused(o)    == {t \in Cart(o) : reply[o][t] = "no"}

(* The reserve script for one item: sent without waiting for the replies, *)
(* on one connection, so that Redis runs them in the order of the request. *)
ReserveItem(s, t) ==
    /\ At(s, "create", "reserve")
    /\ LET o == h[s].order
           r == HoldOf(o, t)
       IN /\ t \in Unanswered(o)
          /\ \A x \in Unanswered(o) : t <= x
          /\ \/ Reserve(r) /\ reply' = [reply EXCEPT ![o][t] = "ok"]
             \/ Refuse(r)  /\ reply' = [reply EXCEPT ![o][t] = "no"]
    /\ UNCHANGED <<rowVars, counterVars, jobVars, seen, phase, h, budget>>

(* findIndex of a failed reservation: none, or roll back. *)
JudgeReplies(s) ==
    /\ At(s, "create", "reserve")
    /\ LET o == h[s].order IN
       /\ Unanswered(o) = {}
       /\ IF Refused(o) = {}
          THEN /\ Go(s, "persist")
               /\ reply' = [reply EXCEPT ![o] = NoReply]
          ELSE Go(s, "rollback") /\ UNCHANGED reply
    /\ UNCHANGED <<storeVars, rowVars, counterVars, jobVars, seen, phase, budget>>

(* The items of o before the first failed one, still to be rolled back. *)
ToRollBack(o) ==
    {t \in Cart(o) : reply[o][t] = "ok" /\ \A f \in Refused(o) : t < f}

(* Roll back from failedIndex - 1 down to 0, then refuse the request. *)
RollBackItem(s) ==
    /\ At(s, "create", "rollback")
    /\ LET o == h[s].order IN
       \/ \E t \in ToRollBack(o) :
            /\ \A x \in ToRollBack(o) : x <= t
            /\ Release(HoldOf(o, t)) \/ ReleaseNothing(HoldOf(o, t))
            /\ reply' = [reply EXCEPT ![o][t] = "back"]
            /\ UNCHANGED h
       \/ /\ ToRollBack(o) = {}
          /\ reply' = [reply EXCEPT ![o] = NoReply]
          /\ End(s)
          /\ UNCHANGED storeVars
    /\ UNCHANGED <<rowVars, counterVars, jobVars, seen, phase, budget>>

(* order.create with its items. *)
PersistOrder(s) ==
    /\ At(s, "create", "persist")
    /\ \/ /\ status' = [status EXCEPT ![h[s].order] = "PENDING_PAYMENT"]
          /\ Go(s, "count")
       \/ /\ "database" \in Faults
          /\ h' = [h EXCEPT ![s].op = "undoPersist", ![s].at = "release"]
          /\ UNCHANGED status
    /\ UNCHANGED <<storeVars, payments, counterVars, jobVars, localVars, phase, budget>>

(* Mutant of Fits: the WHERE clause forgets the sold tickets. *)
FitsUnsold(o) == \A t \in Cart(o) : reserved[t] + Items[o][t] <= Total[t]

(* WHERE reservedQty + soldQty + quantity <= totalQty, for every item. *)
Fits(o) == \A t \in Cart(o) : reserved[t] + sold[t] + Items[o][t] <= Total[t]

(* The UserTicketCounter rows of o's customer and items. *)
RowsOf(o) == {<<Owner[o], t>> : t \in Cart(o)}

(* userReserved without the items of o, in the rows that exist. *)
UserDropped(o) ==
    [userReserved EXCEPT ![Owner[o]] =
        [t \in TicketType |-> IF <<Owner[o], t>> \in counterRows
                              THEN @[t] - Items[o][t] ELSE @[t]]]

(* f with every item of o added k times. *)
Plus(f, k, o) == [t \in TicketType |-> f[t] + k * Items[o][t]]

(* The inventory transaction: all items, or roll back. *)
CountReserved(s) ==
    /\ At(s, "create", "count")
    /\ LET o == h[s].order IN
       \/ /\ Fits(o)
          /\ reserved' = Plus(reserved, 1, o)
          /\ userReserved' = [userReserved EXCEPT ![Owner[o]] = Plus(@, 1, o)]
          /\ counterRows' = counterRows \cup RowsOf(o)
          /\ Go(s, "openUrl")
       \/ /\ ~ Fits(o) \/ "database" \in Faults
          /\ h' = [h EXCEPT ![s].op = "undoCount", ![s].at = "release"]
          /\ UNCHANGED <<reserved, userReserved, counterRows>>
    /\ UNCHANGED <<storeVars, rowVars, issued, sold, userPaid, jobVars, localVars,
                   phase, budget>>

(* The write createPaymentUrl will make: a new INITIATED row, unless one is there. *)
UrlRow(o) == IF "INITIATED" \in payments[o] THEN {} ELSE {"row"}

(* createPaymentUrl: the order must still be PENDING_PAYMENT ... *)
OpenUrl(s) ==
    /\ At(s, "create", "openUrl")
    /\ IF status[h[s].order] = "PENDING_PAYMENT"
       THEN h' = [h EXCEPT ![s].at = "gateway", ![s].todo = UrlRow(h[s].order)]
       ELSE h' = [h EXCEPT ![s].op = "undoGateway", ![s].at = "release"]
    /\ UNCHANGED <<storeVars, rowVars, counterVars, jobVars, localVars, phase, budget>>

(* ... then the gateway behind the circuit breaker, and the row. *)
CallGateway(s) ==
    /\ At(s, "create", "gateway") \/ At(s, "repay", "gateway")
    /\ LET o == h[s].order IN
       \/ /\ payments' = [payments EXCEPT ![o] =
                             IF "row" \in h[s].todo THEN @ \cup {"INITIATED"} ELSE @]
          /\ IF h[s].op = "create" THEN Go(s, "schedule") ELSE End(s)
       \/ /\ "gateway" \in Faults
          /\ IF h[s].op = "create"
             THEN h' = [h EXCEPT ![s].op = "undoGateway", ![s].at = "release"]
             ELSE End(s)
          /\ UNCHANGED payments
    /\ UNCHANGED <<storeVars, status, counterVars, jobVars, localVars, phase, budget>>

(* expireQueue.add with delay ttl and job id expire-{orderId}. *)
ScheduleExpire(s) ==
    /\ At(s, "create", "schedule")
    /\ expireJob' = [expireJob EXCEPT ![h[s].order] = "delayed"]
    /\ End(s)
    /\ UNCHANGED <<storeVars, rowVars, counterVars, issueJobs, localVars, phase, budget>>

(***************************************************************************)
(* order.delete when creation failed.  OrderItem.orderId is a foreign key  *)
(* ON DELETE RESTRICT and the items exist, so PostgreSQL refuses and the   *)
(* row stays as it is; the error is swallowed or replaces the first one.   *)
(***************************************************************************)
DeleteOrder(s) ==
    /\ At(s, "undoCount", "delete") \/ At(s, "undoGateway", "delete")
    /\ LET o == h[s].order IN
       status' = [status EXCEPT ![o] = IF Cart(o) = {} THEN "NONE" ELSE @]
    /\ End(s)
    /\ UNCHANGED <<storeVars, payments, counterVars, jobVars, localVars, phase, budget>>

(* POST /payments: a new payment URL for a PENDING_PAYMENT order. *)
StartRepay(s, o) ==
    /\ "repay" \in Calls
    /\ status[o] = "PENDING_PAYMENT"
    /\ Begin(s, "repay", o, "gateway", UrlRow(o))
    /\ Try(o)
    /\ UNCHANGED <<storeVars, rowVars, counterVars, jobVars, localVars, phase, crashes>>

-----------------------------------------------------------------------------
(* Cancellation and the expire job *)

(* POST /orders/:id/cancel by its owner, after the status check. *)
StartCancel(s, o) ==
    /\ "cancel" \in Calls
    /\ status[o] = "PENDING_PAYMENT"
    /\ Begin(s, "cancel", o, "release", {"types", "users"})
    /\ Try(o)
    /\ UNCHANGED <<storeVars, rowVars, counterVars, jobVars, localVars, phase, crashes>>

(* The delayed job fires: skip unless PENDING_PAYMENT (expiresAt has passed). *)
StartExpire(s, o) ==
    /\ expireJob[o] = "delayed"
    /\ phase[o] = "lapsed"
    /\ IF status[o] = "PENDING_PAYMENT"
       THEN /\ Begin(s, "expire", o, "release", {"types", "users"})
            /\ expireJob' = [expireJob EXCEPT ![o] = "active"]
       ELSE /\ expireJob' = [expireJob EXCEPT ![o] = "done"]
            /\ UNCHANGED h
    /\ UNCHANGED <<storeVars, rowVars, counterVars, issueJobs, localVars, phase, budget>>

(* Where each kind of handler goes on after releasing the Redis hold. *)
AfterRelease ==
    [op \in Op |->
        CASE op \in {"cancel", "expire", "undoGateway"} -> "counters"
          [] op = "undoCount" -> "delete"
          [] OTHER -> "end"]

(* releaseReservation of every item, whatever it replies. *)
ReleaseHold(s) ==
    /\ h[s] # Idle /\ h[s].at = "release"
    /\ ReleaseAll(h[s].order)
    /\ LET next == AfterRelease[h[s].op] IN
       IF next = "end" THEN End(s)
       ELSE h' = [h EXCEPT ![s].at = next,
                           ![s].todo = IF next = "counters" THEN {"types", "users"}
                                       ELSE {}]
    /\ UNCHANGED <<rowVars, counterVars, jobVars, localVars, phase, budget>>

(***************************************************************************)
(* The decrements of reservedQty, each an UPDATE of its own without        *)
(* condition.  cancelOrder and the gateway rollback send both kinds        *)
(* together; expireOrder awaits the user counters first.  The update of a  *)
(* UserTicketCounter row that does not exist throws: the handler ends with *)
(* the statements already sent.                                            *)
(***************************************************************************)
DropUserCounters(s) ==
    /\ h[s] # Idle /\ h[s].at = "counters" /\ "users" \in h[s].todo
    /\ LET o == h[s].order IN
       /\ userReserved' = UserDropped(o)
       /\ h' = [h EXCEPT ![s].todo =
            IF RowsOf(o) \subseteq counterRows THEN @ \ {"users"}
            ELSE IF h[s].op = "expire" THEN {"error"}
            ELSE (@ \ {"users"}) \cup {"error"}]
    /\ UNCHANGED <<storeVars, rowVars, issued, sold, reserved, userPaid,
                   counterRows, jobVars, localVars, phase, budget>>

DropTypeCounters(s) ==
    /\ h[s] # Idle /\ h[s].at = "counters" /\ "types" \in h[s].todo
    /\ h[s].op = "expire" => "users" \notin h[s].todo
    /\ reserved' = Plus(reserved, -1, h[s].order)
    /\ h' = [h EXCEPT ![s].todo = @ \ {"types"}]
    /\ UNCHANGED <<storeVars, rowVars, issued, sold, userPaid, userReserved,
                   counterRows, jobVars, localVars, phase, budget>>

(* A decrement threw.  Each attempt of the expire job ends in the same way. *)
AbortSettle(s) ==
    /\ h[s] # Idle /\ h[s].at = "counters" /\ h[s].todo = {"error"}
    /\ expireJob' = [expireJob EXCEPT ![h[s].order] =
                       IF h[s].op = "expire" THEN "done" ELSE @]
    /\ End(s)
    /\ UNCHANGED <<storeVars, rowVars, counterVars, issueJobs, localVars, phase, budget>>

(* order.update, without looking at the status again; or on to the delete. *)
CloseOrder(s) ==
    /\ h[s] # Idle /\ h[s].at = "counters" /\ h[s].todo = {}
    /\ LET o == h[s].order IN
       \/ /\ h[s].op = "cancel"
          /\ status' = [status EXCEPT ![o] = "CANCELLED"]
          /\ End(s)
          /\ UNCHANGED expireJob
       \/ /\ h[s].op = "expire"
          /\ status' = [status EXCEPT ![o] = "EXPIRED"]
          /\ expireJob' = [expireJob EXCEPT ![o] = "done"]
          /\ End(s)
       \/ /\ h[s].op = "undoGateway"
          /\ Go(s, "delete")
          /\ UNCHANGED <<status, expireJob>>
    /\ UNCHANGED <<storeVars, payments, counterVars, issueJobs, localVars, phase, budget>>

-----------------------------------------------------------------------------
(* Payment webhooks *)

(* The gateway knows the order once a payment URL was made for it. *)
Payable(o) == payments[o] # {}

(* Mutant of StartWebhook: late webhooks are handled like the first. *)
StartWebhookLate(s, o, result) ==
    /\ result \in Calls \cap {"success", "failed"}
    /\ Payable(o)
    /\ Begin(s, result, o, IF result = "success" THEN "commit" ELSE "recheck", {})
    /\ Try(o)
    /\ UNCHANGED <<storeVars, rowVars, counterVars, jobVars, localVars, phase, crashes>>

(* handleMockWebhook for a SUCCESS or FAILED result of a PENDING order. *)
StartWebhook(s, o, result) ==
    /\ result \in Calls \cap {"success", "failed"}
    /\ Payable(o)
    /\ status[o] = "PENDING_PAYMENT"
    /\ Begin(s, result, o, IF result = "success" THEN "commit" ELSE "recheck", {})
    /\ Try(o)
    /\ UNCHANGED <<storeVars, rowVars, counterVars, jobVars, localVars, phase, crashes>>

PaymentOf == [success |-> "SUCCESS", failed |-> "FAILED", timeout |-> "TIMEOUT"]

(***************************************************************************)
(* Webhooks that only record a transaction: any result for an EXPIRED      *)
(* order, TIMEOUT for a pending one.  The others change nothing.           *)
(***************************************************************************)
RecordWebhook(o, result) ==
    /\ result \in Calls \cap DOMAIN PaymentOf
    /\ Payable(o)
    /\ \/ status[o] = "EXPIRED"
       \/ status[o] = "PENDING_PAYMENT" /\ result = "timeout"
    /\ payments' = [payments EXCEPT ![o] = @ \cup {PaymentOf[result]}]
    /\ UNCHANGED <<storeVars, status, counterVars, jobVars, localVars, phase, h,
                   budget>>

(* Mutant of IssueTickets: paidQty is left out. *)
IssueUncounted(o) ==
    /\ issued' = [issued EXCEPT ![o] = @ + 1]
    /\ sold' = Plus(sold, 1, o)
    /\ reserved' = Plus(reserved, -1, o)
    /\ userReserved' = UserDropped(o)
    /\ UNCHANGED <<userPaid, counterRows>>

(* Tickets created, reserved turned into sold, for order o. *)
IssueTickets(o) ==
    /\ issued' = [issued EXCEPT ![o] = @ + 1]
    /\ sold' = Plus(sold, 1, o)
    /\ reserved' = Plus(reserved, -1, o)
    /\ userPaid' = [userPaid EXCEPT ![Owner[o]] = Plus(@, 1, o)]
    /\ userReserved' = UserDropped(o)
    /\ counterRows' = counterRows \cup RowsOf(o)

(* The handlePaymentSuccess transaction: it does not read the order again. *)
CommitSuccess(s) ==
    /\ At(s, "success", "commit")
    /\ LET o == h[s].order IN
       /\ payments' = [payments EXCEPT ![o] = @ \cup {"SUCCESS"}]
       /\ status' = [status EXCEPT ![o] = "PAID"]
       /\ IssueTickets(o)
    /\ Go(s, "forget")
    /\ UNCHANGED <<storeVars, jobVars, localVars, phase, budget>>

(* DEL reservation:{o}; user_limit keeps counting the paid tickets. *)
ForgetHold(s) ==
    /\ At(s, "success", "forget")
    /\ Forget(h[s].order)
    /\ End(s)
    /\ UNCHANGED <<rowVars, counterVars, jobVars, localVars, phase, budget>>

-----------------------------------------------------------------------------
(* The payment cron *)

(* Mutant of StartCron: the expiresAt filter is the wrong way round. *)
StartCronEarly(s, o, verdict) ==
    /\ verdict \in Calls \cap {"cronPaid", "cronFailed", "cronExpired"}
    /\ status[o] = "PENDING_PAYMENT"
    /\ phase[o] = "open"
    /\ Begin(s, verdict, o, "recheck", {})
    /\ UNCHANGED <<storeVars, rowVars, counterVars, jobVars, localVars, phase, budget>>

(* An order past expiresAt, and the gateway's answer to verifyTransaction. *)
StartCron(s, o, verdict) ==
    /\ verdict \in Calls \cap {"cronPaid", "cronFailed", "cronExpired"}
    /\ status[o] = "PENDING_PAYMENT"
    /\ phase[o] \in {"due", "lapsed"}
    /\ Begin(s, verdict, o, "recheck", {})
    /\ UNCHANGED <<storeVars, rowVars, counterVars, jobVars, localVars, phase, budget>>

(* The re-read a transaction begins with; the code after it runs anyway. *)
Recheck(s) ==
    /\ h[s] # Idle /\ h[s].at = "recheck"
    /\ Go(s, IF status[h[s].order] = "PENDING_PAYMENT" THEN "commit"
             ELSE IF h[s].op = "cronPaid" THEN "enqueue" ELSE "release")
    /\ UNCHANGED <<storeVars, rowVars, counterVars, jobVars, localVars, phase, budget>>

(* Mutant of PlusIfEnough: the counters are not given back. *)
PlusNever(f, o) == f

(* UPDATE ... WHERE reservedQty >= quantity: each row for itself. *)
PlusIfEnough(f, o) ==
    [t \in TicketType |-> IF f[t] >= Items[o][t] THEN f[t] - Items[o][t] ELSE f[t]]

StatusOf == [failed |-> "PAYMENT_FAILED", cronFailed |-> "PAYMENT_FAILED",
             cronExpired |-> "EXPIRED", cronPaid |-> "PAID"]

(* The rows a FAILED webhook or the cron leaves in PaymentTransaction. *)
PaymentsAfter(op, p) ==
    CASE op = "failed"      -> IF "INITIATED" \in p
                               THEN (p \ {"INITIATED"}) \cup {"FAILED"} ELSE p
      [] op = "cronFailed"  -> p \cup {"FAILED"}
      [] op = "cronExpired" -> p \cup {"TIMEOUT"}
      [] op = "cronPaid"    -> p \cup {"SUCCESS"}

(* The writes of handlePaymentFailed and of the cron's transactions. *)
CommitVerdict(s) ==
    /\ h[s] # Idle /\ h[s].at = "commit" /\ h[s].op \in DOMAIN StatusOf
    /\ LET o  == h[s].order
           op == h[s].op
       IN /\ status' = [status EXCEPT ![o] = StatusOf[op]]
          /\ payments' = [payments EXCEPT ![o] = PaymentsAfter(op, @)]
          /\ IF op = "cronPaid"
             THEN Go(s, "enqueue") /\ UNCHANGED <<reserved, userReserved>>
             ELSE /\ Go(s, "release")
                  /\ reserved' = PlusIfEnough(reserved, o)
                  /\ userReserved' = [userReserved EXCEPT
                                        ![Owner[o]] = PlusIfEnough(@, o)]
    /\ UNCHANGED <<storeVars, issued, sold, userPaid, counterRows, jobVars, localVars,
                   phase, budget>>

(* Mutant of EnqueueIssue: the job is never added. *)
EnqueueNothing(s) ==
    /\ At(s, "cronPaid", "enqueue")
    /\ End(s)
    /\ UNCHANGED <<storeVars, rowVars, counterVars, jobVars, localVars, phase, budget>>

(* ticketIssueQueue.add, even when the re-check found the order decided. *)
EnqueueIssue(s) ==
    /\ At(s, "cronPaid", "enqueue")
    /\ issueJobs' = [issueJobs EXCEPT ![h[s].order] = @ + 1]
    /\ End(s)
    /\ UNCHANGED <<storeVars, rowVars, counterVars, expireJob, localVars, phase, budget>>

-----------------------------------------------------------------------------
(* The ticket-issue job (worker process) *)

(* Skip an order that is not PAID, fail on one without items. *)
StartIssue(s, o) ==
    /\ issueJobs[o] > 0
    /\ issueJobs' = [issueJobs EXCEPT ![o] = @ - 1]
    /\ IF status[o] = "PAID" /\ Cart(o) # {}
       THEN Begin(s, "issue", o, "tally", {})
       ELSE UNCHANGED h
    /\ UNCHANGED <<storeVars, rowVars, counterVars, expireJob, localVars, phase, budget>>

(* Mutant of TallyTickets: the count is not looked at. *)
TallyNothing(s) ==
    /\ At(s, "issue", "tally")
    /\ Go(s, "commit")
    /\ UNCHANGED <<storeVars, rowVars, counterVars, jobVars, localVars, phase, budget>>

(* ticket.count, outside the transaction: skip if there are tickets. *)
TallyTickets(s) ==
    /\ At(s, "issue", "tally")
    /\ IF issued[h[s].order] = 0 THEN Go(s, "commit") ELSE End(s)
    /\ UNCHANGED <<storeVars, rowVars, counterVars, jobVars, localVars, phase, budget>>

CommitIssue(s) ==
    /\ At(s, "issue", "commit")
    /\ IssueTickets(h[s].order)
    /\ Go(s, "ack")
    /\ UNCHANGED <<storeVars, rowVars, jobVars, localVars, phase, budget>>

(* BullMQ marks the job completed. *)
AckIssue(s) ==
    /\ At(s, "issue", "ack")
    /\ End(s)
    /\ UNCHANGED <<storeVars, rowVars, counterVars, jobVars, localVars, phase, budget>>

-----------------------------------------------------------------------------
(* Time and failures *)

ExpiresAtPasses(o) ==
    /\ phase[o] = "open"
    /\ phase' = [phase EXCEPT ![o] = "due"]
    /\ UNCHANGED <<storeVars, rowVars, counterVars, jobVars, localVars, h, budget>>

(* The reservation key's TTL ends: ttl after the reserve script set it. *)
HoldLapses(o) ==
    /\ phase[o] = "due"
    /\ \A s \in Slot : h[s] # Idle /\ h[s].order = o /\ h[s].op = "create"
                         => h[s].at \notin {"ensure", "seed", "reserve"}
    /\ phase' = [phase EXCEPT ![o] = "lapsed"]
    /\ Forget(o)
    /\ UNCHANGED <<rowVars, counterVars, jobVars, localVars, h, budget>>

(***************************************************************************)
(* The handler's process dies or a dependency throws at an await without   *)
(* a catch.  BullMQ delivers an unfinished job again.                      *)
(***************************************************************************)
Crash(s) ==
    /\ h[s] # Idle
    /\ crashes < MaxCrashes
    /\ crashes' = crashes + 1
    /\ LET o == h[s].order IN
       /\ expireJob' = [expireJob EXCEPT ![o] = IF h[s].op = "expire" THEN "delayed" ELSE @]
       /\ issueJobs' = [issueJobs EXCEPT ![o] = IF h[s].op = "issue" THEN @ + 1 ELSE @]
       /\ seen' = [seen EXCEPT ![o] = IF h[s].op = "create" THEN Unseen ELSE @]
       /\ reply' = [reply EXCEPT ![o] = IF h[s].op = "create" THEN NoReply ELSE @]
    /\ End(s)
    /\ UNCHANGED <<storeVars, rowVars, counterVars, phase, tries>>

-----------------------------------------------------------------------------
Create(s) ==
    \/ ReadSeeds(s) \/ SeedKeys(s) \/ JudgeReplies(s) \/ RollBackItem(s)
    \/ \E t \in TicketType : ReserveItem(s, t)
    \/ PersistOrder(s) \/ CountReserved(s) \/ OpenUrl(s) \/ CallGateway(s)
    \/ ScheduleExpire(s) \/ DeleteOrder(s)

Settle(s) ==
    \/ ReleaseHold(s) \/ DropUserCounters(s) \/ DropTypeCounters(s)
    \/ AbortSettle(s) \/ CloseOrder(s)
    \/ CommitSuccess(s) \/ ForgetHold(s)
    \/ Recheck(s) \/ CommitVerdict(s) \/ EnqueueIssue(s)
    \/ TallyTickets(s) \/ CommitIssue(s) \/ AckIssue(s)

(* The next await of the handler in slot s. *)
Continue(s) == Create(s) \/ Settle(s)

Cron(s, o) == \E v \in {"cronPaid", "cronFailed", "cronExpired"} : StartCron(s, o, v)

Start(s, o) ==
    \/ StartCreate(s, o) \/ StartRepay(s, o) \/ StartCancel(s, o)
    \/ StartExpire(s, o) \/ Cron(s, o) \/ StartIssue(s, o)
    \/ \E result \in {"success", "failed"} : StartWebhook(s, o, result)

Elapse(o) == ExpiresAtPasses(o) \/ HoldLapses(o)

Next ==
    \/ \E s \in Slot : Continue(s) \/ Crash(s)
    \/ \E s \in Slot, o \in Order : Start(s, o)
    \/ \E o \in Order : Elapse(o)
    \/ \E o \in Order, result \in DOMAIN PaymentOf : RecordWebhook(o, result)

Spec == Init /\ [][Next]_vars

(***************************************************************************)
(* Fairness: a handler that runs goes on; the clock does; the cron runs    *)
(* every minute; BullMQ delivers its jobs.  Customers and gateway are free.*)
(***************************************************************************)
FairSpec ==
    /\ Spec
    /\ \A s \in Slot : WF_vars(Continue(s))
    /\ \A o \in Order :
         /\ WF_vars(Elapse(o))
         /\ WF_vars(\E s \in Slot : Cron(s, o))
         /\ WF_vars(\E s \in Slot : StartExpire(s, o))
         /\ WF_vars(\E s \in Slot : StartIssue(s, o))

-----------------------------------------------------------------------------
(* Properties *)

Busy(o) == \E s \in Slot : h[s] # Idle /\ h[s].order = o
Decided == {"PAID", "CANCELLED", "EXPIRED", "PAYMENT_FAILED"}

(***************************************************************************)
(* The inventory transaction's WHERE clause, against every interleaving of *)
(* the unguarded decrements and of the moves from reserved to sold:        *)
(* PostgreSQL never counts more tickets than a type has.                   *)
(***************************************************************************)
NoOvercommit == \A t \in TicketType : sold[t] + reserved[t] <= Total[t]

(* How many tickets of type t each order has been issued. *)
TicketsOf(t) == [o \in Order |-> issued[o] * Items[o][t]]

(***************************************************************************)
(* soldQty and paidQty count exactly the tickets that exist: the webhook,  *)
(* which issues at once, and the cron, which leaves issuing to the job,    *)
(* never count an order twice or not at all.                               *)
(***************************************************************************)
CountersMatchTickets ==
    \A t \in TicketType :
        /\ sold[t] = SumFunctionOnSet(TicketsOf(t), Order)
        /\ \A u \in User :
             userPaid[u][t] =
                 SumFunctionOnSet(TicketsOf(t), {o \in Order : Owner[o] = u})

(***************************************************************************)
(* A reservation key belongs to an order waiting for payment or to a       *)
(* handler still at work on it: whichever way the order ended, somebody    *)
(* released or deleted the key.                                            *)
(***************************************************************************)
NoOrphanHold ==
    \A r \in reservation : status[r.order] = "PENDING_PAYMENT" \/ Busy(r.order)

(***************************************************************************)
(* What checkpoint 5 of the reserve script, with its key per order, means  *)
(* for createOrder: every request for more than one ticket type is refused,*)
(* however many tickets are left.                                          *)
(***************************************************************************)
OneTypePerOrder == \A o \in Order : status[o] # "NONE" => Cardinality(Cart(o)) <= 1

(* Tickets of type t under the reservation key of an order without tickets. *)
OnHold(t) == SumOfHolds({r \in HoldsOf(t) : issued[r.order] = 0})

(***************************************************************************)
(* Redis never offers a ticket that PostgreSQL has sold, however the stock *)
(* key was seeded: stock, keys of unpaid orders and tickets fit in total.  *)
(* Nothing is lost either: when no handler runs and no key has lapsed,     *)
(* every ticket is in stock, under a live key, or sold.                    *)
(***************************************************************************)
StockFollowsOrders ==
    \A t \in TicketType :
      /\ stock[t] + OnHold(t) + sold[t] <= Total[t]
      /\ (\A s \in Slot : h[s] = Idle) /\ (\A o \in Order : phase[o] # "lapsed")
           => stock[t] + OnHold(t) + sold[t] = supply[t]

(***************************************************************************)
(* order-reservation.md: an order that EXPIRED or was CANCELLED has its    *)
(* stock returned.  Once no order waits for payment and no handler runs,   *)
(* every ticket is in stock, on hold or sold.                              *)
(***************************************************************************)
EndedOrdersReturned ==
    (\A s \in Slot : h[s] = Idle) /\ (\A o \in Order : status[o] # "PENDING_PAYMENT")
      => \A t \in TicketType : stock[t] + OnHold(t) + sold[t] = supply[t]

(* No customer gets more tickets of a type than maxPerUser. *)
TicketsWithinLimit ==
    \A u \in User, t \in TicketType : userPaid[u][t] <= MaxPerUser[t]

(* soldQty never exceeds totalQty. *)
NoOversell == \A t \in TicketType : sold[t] <= Total[t]

(* Paid, without tickets, and with nobody left to issue them. *)
Stranded == {o \in Order : /\ status[o] = "PAID" /\ issued[o] = 0
                           /\ issueJobs[o] = 0 /\ ~ Busy(o)}

(***************************************************************************)
(* Redelivered jobs and repeated cron runs never issue an order's tickets  *)
(* twice, and each handler that stops half-way strands at most one paid    *)
(* order: one whose cron stopped between PAID and the ticket-issue job.    *)
(***************************************************************************)
IssuedOnce ==
    /\ \A o \in Order : issued[o] <= 1
    /\ Cardinality(Stranded) <= crashes

(* Once an order is paid, cancelled, expired or failed, that is its end. *)
DecisionsFinal ==
    [][\A o \in Order : status[o] \in Decided => status'[o] = status[o]]_vars

(***************************************************************************)
(* The order's claim on the inventory as PostgreSQL counts it: from the    *)
(* inventory transaction until the decrement of TicketType.reservedQty.    *)
(***************************************************************************)
Claimed(o) ==
    LET Handling(at) == {s \in Slot : h[s] # Idle /\ h[s].order = o /\ h[s].at = at} IN
    IF issued[o] > 0 THEN "sold"
    ELSE IF \E s \in Handling("count") : h[s].op = "create" THEN "none"
    ELSE IF \E s \in Handling("counters") : "types" \notin h[s].todo THEN "returned"
    ELSE IF status[o] = "NONE" THEN "none"
    ELSE IF status[o] \in {"PENDING_PAYMENT", "PAID"} THEN "held"
    ELSE "returned"

Sale == INSTANCE TicketSale WITH
    claim <- [o \in Order |-> Claimed(o)],
    left  <- [t \in TicketType |-> Total[t] - sold[t] - reserved[t]]

(***************************************************************************)
(* The handlers, each cut at its awaits, together implement the sale: a    *)
(* claim ends exactly once, and reservedQty and soldQty follow the claims. *)
(***************************************************************************)
SaleSpec == Sale!SaleSpec

(* Every order waiting for payment is decided in the end. *)
PendingDecided ==
    \A o \in Order : status[o] = "PENDING_PAYMENT" ~> status[o] \in Decided

(* Every paid order gets its tickets in the end. *)
PaidIssued == \A o \in Order : status[o] = "PAID" ~> issued[o] > 0

=============================================================================
