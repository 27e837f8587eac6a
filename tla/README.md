# TicketBox: specifications, model checking and proofs

TLA+ specifications of TicketBox (a NestJS backend with PostgreSQL, Redis and
BullMQ, a worker process, a customer web application, an admin web application
and a check-in PWA), TLC configurations for small instances and TLAPS proofs.
Paths below are relative to the repository.

* [1. The system](#1-the-system): components, state, operations, interactions
* [2. What is hard about it](#2-what-is-hard-about-it)
* [3. Modules](#3-modules) and how they correspond to the code
* [4. Runs](#4-runs): what each one shows, its bounds
* [5. Fairness](#5-fairness)
* [6. Proofs](#6-proofs)
* [7. What the checks found](#7-what-the-checks-found)
* [8. Abstractions](#8-abstractions)
* [9. Not modelled, and the plan](#9-not-modelled-and-the-plan)

To run: `tlc -config OrderSerial.cfg MCOrderLifecycle`, `tlapm CheckinProofs.tla`.

## 1. The system

`B` is `src/backend/src`, `P` is `src/frontend/checkin-pwa/src`, `C` is
`src/frontend/customer-web`, `A` is `src/frontend/admin-web/src`.

| Component | State it keeps | Operations that change it | Correct when |
|---|---|---|---|
| Redis inventory scripts (`B/modules/redis`) | keys `stock:{type}`, `user_limit:{user}:{type}`, `reservation:{order}` with a TTL | SET NX seeding, `reserve-ticket.lua`, `release-reservation.lua`, DEL, expiry | no ticket is lost or made, the per-user limit holds |
| Order service (`B/modules/order`) | `Order`, `OrderItem`, `TicketType.reservedQty`, `UserTicketCounter`, the `order-expire` queue | `createOrder` with four rollback paths, `cancelOrder`, `expireOrder` | an order holds its whole cart or nothing, gives it back once |
| Payment service and webhooks (`B/modules/payment`) | `PaymentTransaction`, `Order.status`, `Ticket`, `soldQty`, `paidQty` | `createPayment`, webhooks SUCCESS, FAILED, TIMEOUT, late webhooks | tickets are issued once per paid order, never more than exist |
| Payment cron (`payment-cron.service.ts`) | the same rows, the `ticket-issue` queue | every minute: decide orders past `expiresAt` by the gateway's answer | every pending order is decided |
| Ticket-issue worker (`B/worker/processors/ticket-issue.processor.ts`) | `Ticket`, counters | issue the tickets of an order the cron found paid | once, although jobs are redelivered |
| Check-in service (`B/modules/checkin`) | `Ticket.status`, `CheckinLog` | `verifyAndCheckin`, `syncCheckin` | a ticket passes once, retries are harmless, the log is right |
| Check-in PWA (`P/hooks/useOfflineCheckin.ts`, `P/lib/idb.ts`) | IndexedDB stores `checkin_logs`, `scanned_tickets`; refs of a running scan and sync | scan online or offline, sync, clear the guard | no scan is lost, no ticket let in twice by one device |
| Ticket types (`B/modules/ticket-type`) | `TicketType`, `stock:{type}` | create, update, remove | an edit does not undo reservations or lower `totalQty` below them |
| Idempotency (`B/common/interceptors`, `B/modules/idempotency`) | Redis record `idem:{user}:{key}` | interceptor of POST /orders, service of POST /payments | a key runs its request once and replays its own answer |
| Rate limit (`B/modules/rate-limit`) | two token buckets in Redis | `token-bucket.lua` | a bucket never grants more than its rate |
| Payment circuit breaker | opossum's state | trip, half-open, close | library behaviour, configured here |
| Gates (`B/modules/gate`) | `Gate`, `Ticket.gateId` (a name), its signature | create, rename, remove, rebalance | tickets name existing gates, evenly |
| Concerts and caches (`B/modules/concert`) | `Concert`, two cached documents | CRUD, cache-aside reads, invalidation | no stale document outlives an update |
| Seat map (`B/modules/seatmap`, `C/hooks/useSeatMap.ts`) | zone cache in Redis, sockets, the map in the browser | refresh and broadcast, poll, load | cache and map follow the sales |
| Notifications and reminders (`B/modules/notification`) | `reminderJobId` of a concert, one delayed job | schedule, reschedule, cancel, send in batches | one reminder per concert, at its time |
| Files (`B/modules/uploads`, CSV and biography processors) | `UploadedFile`, `GuestListEntry`, a concert's biography, two queues | upload, import or write, retry | a retried import adds nobody twice, every file ends |
| Authentication (`B/modules/auth`) and the customer's session (`C/hooks/useAuth.tsx`) | token and user in localStorage, user shown per tab | login, registration, profile, logout, 401 | the session is that of the last login |
| Waiting room (`C/lib/mock-waiting-room.ts`, `C/hooks`) | sessions in the web server's memory, three keys in sessionStorage | join, poll, admit, access check, leave | who waits gets a turn, a turn ends |
| Seat selection (`C/components/seatmap`) | zone, quantity, seats; two keys in sessionStorage | restore, choose, give up, proceed | what is shown at checkout is what is ordered |
| Checkout (`C/components/checkout`, `payment`) | key, selection and pending order in sessionStorage | pay, retry, leave, reload, cancel, poll | one order to pay at a time |
| Event administration (`A/components/events`, `A/hooks`) | panel of tiers, form of a new event | edit, save, submit | a save does what the organiser did |
| Reset and seed data (`B/modules/health`, `data/seed`) | every table, Redis | flush, wipe, fill, seed stocks | the tables it empties hold the test data and nothing else |
| Users, administration statistics, tickets and QR codes | rows | request-local work, queries | sequential |

Interactions. `createOrder` seeds Redis from PostgreSQL counters, reserves
through the script, writes the order row, moves the counters in a transaction,
asks the gateway for a URL and adds a delayed expire job. From then on six
actors may decide the order: the customer (cancel), the gateway (webhooks), the
expire job, the cron, the TTL of the reservation key, and a failing creation.
They share the order row, the two counters and the Redis keys; nothing locks
the order, every handler checks the status first and writes later. The cron
hands paid orders to the worker through a queue; the webhook issues by itself.
At the gates, devices and server share `Ticket.status` and `CheckinLog`; each
device has its own queue and its own duplicate guard, and the server's replies
update both.

Around this core: an administrator edits the ticket type whose counters the
orders move and whose `stock:{type}` they reserve from; gate administration
rewrites the gate of tickets while others are issued and scanned; each change
of the counters sets off a refresh of the zone cache and a broadcast nobody
waits for. In the browser a customer passes the waiting room, chooses seats,
and checks out; the three hand over through sessionStorage, and the checkout
sends its requests through the idempotency interceptor.

## 2. What is hard about it

* Check-then-act over awaits: `cancelOrder`, `expireOrder`, both webhook
  handlers and the cron act on a status read earlier; so do the edit of a
  ticket type, the calls on gates, and both users of the idempotency record.
* Three stores without a common transaction: Redis, PostgreSQL, BullMQ. A
  creation that fails half-way is undone in up to three steps.
* The reservation key's TTL and the expire job are given the same length.
* Lazy seeding reads counters from PostgreSQL and writes Redis after an await;
  an administrator's SET does the same without NX.
* Redelivery: webhooks twice, jobs twice, sync batches twice, replies lost,
  orders sent again with the same key.
* A scan and a sync of one device run at the same time on the same two
  IndexedDB stores, and pages are reloaded in the middle.
* Work nobody waits for: cache invalidation, zone refresh, scheduling of a
  reminder under a fixed job id.
* Loops of single statements where a crash leaves half: rebalancing, an import,
  a panel's save, a reset of twelve tables.
* Browser state of several effects, tabs and pages: answers arrive for a
  session, a page or an order that is no longer the current one.

`PROJECT.json` lists these as hazards, each at its line, with the properties
that would notice it going wrong.

## 3. Modules

| Module | Models | Extended or used by |
|---|---|---|
| `TicketStore` | Redis keys and scripts, one action per command | `OrderLifecycle`, `TicketStoreProofs`, `MCTicketStore` |
| `TicketSale` | abstract: an order claims all its tickets, once, and the claim ends sold or given back | instantiated in `OrderLifecycle` as `Sale` |
| `OrderLifecycle` | orders, payments, cron, jobs, worker | `OrderLifecycleProofs`, `MCOrderLifecycle` |
| `CheckinSync` | PWA and check-in endpoints | `CheckinProofs`, `CheckinDeviceProofs`, `MCCheckin`, `MCQueues` |
| `TicketTypeAdmin` | administration of a ticket type beside orders for it | `AdminProofs`, `MCServices` |
| `GateAdmin` | gates, the tickets assigned to them, issue and scan beside | `AdminProofs`, `MCServices` |
| `Reminders` | the reminder job of a concert | `ServicesProofs`, `MCServices` |
| `FileImport` | uploads and the two workers of uploaded files | `ServicesProofs`, `MCServices`, `MCQueues` |
| `Idempotency` | the record per key of the interceptor and the service | `Checkout`, `IdempotencyProofs` |
| `Checkout` | one tab's checkout; composed with `Idempotency` | `ServicesProofs`, `MCServices` |
| `TokenBucket` | the rate limit's script | `ServicesProofs`, `MCServices` |
| `ConcertCache` | the cached documents of a concert | `ServicesProofs`, `MCServices` |
| `SeatMap` | zone cache, broadcasts, polls, the map in the browser | `ServicesProofs`, `MCServices`, `MCSeatMap` |
| `WaitingRoom` | the web server's sessions and the tabs | `ServicesProofs`, `MCServices` |
| `ShopSession` | token and user in localStorage, requests under way | `ServicesProofs`, `MCServices` |
| `SeatSelection` | zone, quantity and seats up to the checkout page | `ServicesProofs`, `MCServices` |
| `EventDesk` | the panel of ticket types and the form of a new event | `ServicesProofs`, `MCServices` |
| `SystemReset` | the reset endpoint and the seed scripts | `AdminProofs`, `MCServices` |
| `TicketStoreProofs`, `OrderLifecycleProofs`, `IdempotencyProofs` | theorems about the module of that name | `TicketStoreProofs` by `OrderLifecycleProofs`, `IdempotencyProofs` by `ServicesProofs` |
| `CheckinProofs`, `CheckinDeviceProofs` | theorems about `CheckinSync`: the server's tables; the devices and the log | the first by the second |
| `AdminProofs` | theorems about `TicketTypeAdmin`, `GateAdmin`, `SystemReset` | |
| `ServicesProofs` | theorems about `ConcertCache`, `SeatMap`, `Reminders`, `ShopSession`, `SeatSelection`, `Checkout`, `WaitingRoom`, `EventDesk`, `FileImport`, `TokenBucket` | |
| `FiniteSums` | lemmas about sums over finite sets | `TicketStoreProofs` (and so `OrderLifecycleProofs`), `AdminProofs`, `ServicesProofs` |

`MCServices` puts thirteen modules into one instance. They share no variable,
so a behaviour picks one `part` and leaves the others in a fixed initial state:
the state space is the sum of theirs, not the product. `MCQueues` does the same
with `CheckinSync` and `FileImport` for what must drain.

### TicketStore

Redis runs one command at a time, so each script is one action: `Seed` (SET
NX), `Reserve`/`Refuse`, `Release`/`ReleaseNothing`, `Forget` (TTL or DEL). The
key of a reservation is a record with the four fields the release script
compares. `supply`, `base` and `gone` are history: what was seeded, and what was
reserved under keys that ended without the release script.

### OrderLifecycle

A handler occupies a slot; `h[s]` is its operation, order, next await and what
it still has to write. One action is what the code does between two awaits, or
one database transaction; a re-read at the start of a READ COMMITTED
transaction is a step of its own (`Recheck`), because another handler may commit
between it and the writes.

| Code | Actions |
|---|---|
| `createOrder` | `StartCreate`, `ReadSeeds`, `SeedKeys`, `ReserveItem`, `JudgeReplies`, `RollBackItem`, `PersistOrder`, `CountReserved`, `OpenUrl`, `CallGateway`, `ScheduleExpire`; rollbacks: `ReleaseHold`, `DropTypeCounters`, `DropUserCounters`, `DeleteOrder` |
| `createPayment` | `StartRepay`, `CallGateway` |
| `cancelOrder` | `StartCancel`, `ReleaseHold`, the two `Drop...Counters` in any order, `CloseOrder`, or `AbortSettle` if one throws |
| `OrderExpireProcessor`, `expireOrder` | `StartExpire`, `ReleaseHold`, `DropUserCounters` then `DropTypeCounters`, `CloseOrder` or `AbortSettle` |
| `handleMockWebhook` | `StartWebhook`, `RecordWebhook`; SUCCESS: `CommitSuccess`, `ForgetHold`; FAILED: `Recheck`, `CommitVerdict`, `ReleaseHold` |
| `verifyStuckPendingPayments` | `StartCron`, `Recheck`, `CommitVerdict`, then `EnqueueIssue` or `ReleaseHold` |
| `TicketIssueProcessor` | `StartIssue`, `TallyTickets`, `CommitIssue`, `AckIssue` |
| time | `ExpiresAtPasses`, `HoldLapses` |
| process stop, uncaught error | `Crash`: the handler is gone, BullMQ delivers its job again |

Time is a phase per order: `open` until `expiresAt`, `due` while the key lives,
`lapsed` after. `createOrder` computes `expiresAt` first, sets the key next and
adds the delayed job last, all with the same `ttl`; so the job cannot fire
before the key has lapsed.

The refinement to `TicketSale` maps an order's claim to what PostgreSQL counts
of it: held from the inventory transaction until `TicketType.reservedQty` is
decremented or turned into `soldQty` (`Claimed`); `left` is `totalQty - soldQty
- reservedQty`.

### CheckinSync

A request occupies a slot of the server and is cut at its statements: `LookUp`
(the log row of a record), `CheckTicket` (ticket, gate, signature, token),
`CheckIn` (UPDATE ... WHERE status = ISSUED), `LogVerify` or `LogRecord` (the
`CheckinLog` row), `AnswerSync`. The PWA is cut at its IndexedDB transactions:
`CheckGuard`, `SaveCheckinLog`, `MarkTicketScanned` of a scan, `MarkSynced` and
`ClearScannedTicket` of a sync. `ScanOnline` and `StartSync` send a request;
`ScanOffline` is a scan without network, or one whose call never got through.
Failures are `Disconnect` (the device gives the call up, the server goes on:
the offline path then runs for a scan the server may have accepted),
`ServerCrash`, `DatabaseFails` (HTTP 500), `StorageFails` (IndexedDB) and
`Reload`. The n-th scan of a device stands for its random `offlineEventId`.

### The services of the backend

A request is a record with its next step; a step is what the code does between
two awaits. History variables (named in each module's head) remember the one
thing that excuses a property, so that the property says exactly when the code
keeps its promise.

| Module | Code | Actions |
|---|---|---|
| `TicketTypeAdmin` | `create`, `update` | `AdminInit` (seeding is left), `StartEdit`, `WriteRow` (UPDATE ... RETURNING), `SetStock` (`seedStock`, without NX), `CloseIfSoldOut` |
| | `remove` | `StartRemove`, `DeleteRow` (an order item forbids it), `DelStock` |
| | orders, up to their end | `CheckTicketType`, `ReadStock`, `SeedStockNx`, `Take`, `InsertOrder`, `CountOrder`, `PayOrder`, `GiveBack`, `UncountOrder` (in the order of the handler: cancel and expire job release first, FAILED webhook and cron lower the row first), `Lapse` |
| `GateAdmin` | `create`, `update` | `CreateGate`; `StartRename`, `WriteName`, `FindTickets`, `MoveTickets` |
| | `remove` | `StartRemoveGate`, `CountTickets`, `PickTarget`, `FindTickets`, `MoveTickets`, `DeleteGate` |
| | `rebalance` | `StartRebalance`, `ListTickets`, `CompareTicket`, `ApplyMove` per ticket |
| | issue, check-in | `StartIssueAtGate` (`findLeastLoadedGate`), `CreateTicket`; `StartScanAtGate`, `CheckInAtGate` |
| `Reminders` | `ConcertService.update` | `StartUpdate` (the row as read), `WriteConcert` (what the PATCH gives; it schedules by the row as read), `UpdateFails` |
| | `scheduleReminder`, `cancelReminder` | `ReadConcert`, `ReadJobId`, `LookAtJob`, `RemoveJob`, `ClearJobId`, `AddJob` (a kept job id makes it do nothing), `StoreJobId` |
| | `handleConcertReminder` | `StartJob`, `CheckConcert`, `SendBatch`, `AttemptFails` |
| `FileImport` | `UploadsService` | `StoreObject`, `InsertFileRow`, `QueueFile`, `UploadFails` |
| | both processors | `TakeJob`, `BeginFile`, `LoadFile`, then `MatchGuests`, `InsertGuests`, `FinishImport` or `SaveBio`, `EvictBio`; `AttemptThrows`, `Catch`, `WorkerStops` |
| `Idempotency` | interceptor, `IdempotencyService` | `Arrive`, `Lookup`, `Mark` (SET, or SET NX whose result is ignored), `Handle` (with effect, without, or with effect and then failing), `Save`, `Fail`, `RequestCrash`, `Expire` |
| `TokenBucket` | `token-bucket.lua` | `Consume` (both buckets, one script), `BucketTick` |
| `ConcertCache` | `findOne`, `findAll` | `CacheMiss`, `ReadRows`, `StoreDocument`, `ExpireDocument` |
| | `update`, `remove`, `invalidateCache` | `ChangeRows`, `DropDocument`, and `ChangeQuietly` for writers that drop nothing |
| `SeatMap` | `refreshAndBroadcast` | `OrderChangesRow`, `RefreshReadsRow`, `RefreshReadsCache`, `RefreshDeletes`, `RefreshSets` |
| | `getAvailability`, `useSeatMap` | `PollReadsCache`, `PollReadsRow`, `PollSetsCache`, `PollFallsBack`, `PollArrives`, `BroadcastArrives`, `LoadMap` |
| `SystemReset` | `resetDatabase`, `seed-test.ts`, `seed.ts` | `Flush`, `StartByHand`, `Wipe`, `Fill` table by table, `ReadTypes`, `StoreStocks`; others: `HoldTicket`, `CountHeld`, `RefuseHeld`, `EndOrder`, `InsertElsewhere`, `QueryListing`, `StoreListing`, `ListingExpires` |

### The browsers

Events of a page are atomic; what waits for an answer is a step of its own,
and the script of a page the customer has left goes on waiting.

| Module | Code | Actions |
|---|---|---|
| `WaitingRoom` | `joinWaitingRoom`, `pollWaitingRoom` | `Join` (`Rejoin`, `JoinAnew`, `JoinUnheard`), `PollRoom`, `RetryJoin` |
| | `useWaitingRoom`, `usePurchaseAccess`, pages | `OpenWaiting`, `OpenSeats`, `GoToSeats`, `VerifyAccess`, `CheckToken`, `GoToCheckout`, `PlaceOrder`, `LeavePage` |
| | time, restarts | `ComesUp`, `TurnEnds`, `JoinAges`, `WebRestart` |
| `SeatSelection` | `SeatMapPage`, `useSeatMap` | `OpenSeatPage`, `MapArrives`, `OrdersArrive`, `SelectZone`, `GiveUpZone`, `PressSeat`, `HandleProceed`, `GoForward`, `OrderTaken`, `LeaveShop` |
| `Checkout` | `CheckoutPage`, `createOrderWithIdempotencyRetry` | `OpenCheckout`, `PressPay`, `SendAgain`, `Ordered`, `NotOrdered`, `LeaveCheckout`, `Reload` |
| | payment page, banner | `OpenPayment`, `PollPayment`, `CancelPressed`, `PaymentOver`, `BannerDrops`, `Settle` |
| | server | `ServerStep`: every action of `Idempotency` but `Arrive` |
| `ShopSession` | `useAuth`, `clientFetch` | `LogIn`, `SaveProfile`, `CallApi`, `LoadPage`, `LogOut`; `LoginArrives`, `UserArrives`, `UnauthorizedArrives`, `OtherArrives` |
| | backend | `MintToken`, `Answer` (`AuthGuard`), `TokenEnds` |
| `EventDesk` | `EventsPage`, `TicketConfigPanel` | `FetchEvents`, `Edit`, `ClosePanel`, `AddTier`, `RemoveTier`, `PressSave`, `DropRow`, `PutTier`, `SaveFails`, `SaveEnds` |
| | `useNewEventForm` | `EditTiers` (while it is submitted too), `Submit`, `TierMade`, `TierRefused`, `ShowSubmitted` |

## 4. Runs

State counts are distinct states, with the symmetry of the cfg where it has one.

| Run | Instance | Shows | States |
|---|---|---|---|
| `store` | 3 orders, 2 users, 2 types, 1 or 2 tickets, seeds 0 or 2 | `CountersConserved`, `LimitRespected` over all orders of the commands | 33 k |
| `races` | 2 orders of one customer, 1 ticket, both handlers on the same order if they like, gateway may fail | `NoOvercommit`, `CountersMatchTickets`, `NoOrphanHold` | 0.6 M |
| `crashes` | as above, one handler per order, 2 crashes, cron and worker | `IssuedOnce`; every step on Redis is a store step (`StoreSpec`) | 1.2 M |
| `serial` | one handler per order, 2 tickets, limit 1, all calls | the sale is implemented (`SaleSpec`), `DecisionsFinal`, `StockFollowsOrders`, `TicketsWithinLimit` | 0.16 M |
| `liveness` | one handler per order, 1 ticket, limit 2, gateway may fail, one webhook per order, cron, expire job and worker, no cancellation or new URL, fair | `PendingDecided`, `PaidIssued` | 90 k |
| `cart` | 2 types, one request for both, database may fail | `OneTypePerOrder` | 45 k |
| `oversell` | two SUCCESS webhooks at the same time | violation of `NoOversell` | stops at 0.7 k |
| `leak` | nobody pays | violation of `EndedOrdersReturned` | stops at 0.8 k |
| `gates` | 2 devices (2 and 1 scans), a valid and an unknown ticket, 2 requests at a time, 1 fault: a lost reply, a crash, a reload or an error of either store | the six properties of check-in | 0.87 M |
| `queue` | 1 device, 2 scans, a valid, an outdated and an unknown code; 2 guest lists, 2 attempts; 1 fault at the gate; fair | `QueueDrains`, `QueuedFilesEnd` | 50 k |
| `services` | one part per behaviour, see below | the services around the sale | 1.4 M |
| `seatmap` | 1 browser, 2 refreshes at a time, 2 tickets, fair | violation of `MapsCatchUp` | 20 k |

Why the bounds are enough. Two orders and one ticket are the smallest instance
in which orders compete, three the smallest in which a store has two live keys
and a third refused. Two slots let any two handlers overlap, which is what every
race in section 2 needs: check in one, write in the other. `PerOrder` says
whether these may be on one order: `races` and `oversell` allow it, the runs on
properties that need one handler per order do not, and section 7 says which
property breaks without it. `races` leaves out the cron that finds an order
paid, because that leaves the reservation key to its TTL (`serial` and `crashes`
have it); `serial` has a ticket to spare (`Total` 2, one per customer), which
its refinement needs: section 7 says what happens with one. Two calls per order (`MaxTries`) make a duplicate
webhook, a cancel against a webhook, and a late webhook after either. In `gates`
one device has two scans, so that a second scan meets the first's guard and
queue entry, and the other one, so that there is a conflict from elsewhere; one
lost reply makes a retry overlap its first copy. `OneFault` lets one thing go
wrong in a behaviour, a lost reply or one of the failures; what holds when they
meet, in any number, is what the theorems of section 6 say.

The parts of `services`:

| Part | Instance | Property |
|---|---|---|
| `types` | 2 orders of one ticket, `totalQty` 1 or 2, 2 requests (creations, edits, removals) at a time, holds that lapse, creations that are undone | `RoomUnlessSqueezed`, `StockUnlessDrifted` |
| `gates` | 2 gates in one concert, 1 in another with the same name, 2 tickets, 2 calls at a time | `TicketsAtGates`, `RebalanceSpreads` |
| `reminders` | 2 PATCHes that overlap, 2 attempts, 2 batches, times 1 and 2 | `ReminderOnTime` |
| `files` | two guest lists that share an address and repeat one, a press kit, 2 attempts, 1 fault | `GuestsListedOnce` |
| `requests` | 3 requests on one key (`OneKey`), an order and a payment | `RunsOnceUnlessRaced` |
| `checkouts` | 3 requests, 2 presses, 2 keys | `NoSecondOrder`, `RunsOnceUnlessRaced` |
| `limits` | a user and the anonymous bucket at one address, 3 units, 2 a request, clock to 5, lag 1 | `WithinRate` |
| `caches` | a reader, 2 invalidations, 2 changes, 1 failing command | `StaleUnlessMissed` |
| `map` | 2 tickets, 2 refreshes, 2 changes, a browser, a reload | `ZoneCacheUnlessMissed` |
| `rooms` | 2 tabs, threshold 1, 3 sessions, a restart | `TurnNotRenewed`, `AbandonedKeepRoomShut` |
| `sessions` | 2 tabs, 2 customers, 2 requests at a time, 2 logins, a reload | `SessionUnlessCrossed` |
| `seats` | 2 zones of 2 places, limit 2 | `SeatsMatchOrder` |
| `desk`, `form` | 2 events, 2 rows, a new tier, 2 saves; 2 tiers added and removed at any time, 2 submissions | `DeskAsTold` |
| `resets` | a reset and a seed by hand at a time, beside them a statement of others, beside one of them 2 | `ResetLeavesSeed` |

Two of each are needed where two of them race (edits and orders, schedulings,
refreshes, invalidations, runs of a script, tabs); three requests let a third
replay what two raced for; three sessions let one be abandoned, one be over and
one join. Seven restrictions keep the instance small. Two leave only alike cases out:
`OneKey` (requests with different keys share nothing; the theorem of section 6
has any number) and `Fixed` (the initial states vary only in the part that
runs). The others leave combinations out. `FirstOfAlike` has the orders and the
administrators' requests come in order, as they are alike, one order only
beside two requests, and of two orders only the second one's creation undone
(`AdminProofs` has any number of each, in any order). `OneStray` has two
statements of others beside one run of a script, one beside two (`AdminProofs`
again has any number).
`FirstTab` divides the roles between the two tabs, logins and saved profiles on
the first, reloads and other data on the second: every kind of request still
overlaps every other, and `ServicesProofs` has all combinations. `SecondWaits`
keeps the second tab to waiting and leaving, so that only one of the two goes on
to the seats. The part `gates` ends with the first call that stops half-way or
overlaps another (`broken`), since both its properties except that.

The checks of deadlock are off: every instance stops when its orders, scans or
calls are used up.

Many properties are conditional, and the condition is the code's own limit:
`StockFollowsOrders` speaks of times without lapsed keys, `LogTellsTruth` of
histories without lost replies and failures, `NoScanLost` and `OfflineOnce` of
scans during which IndexedDB worked; each `...Unless...` names its exception,
and every exception occurs in the instance and is needed: without it TLC
finds a violation. What an exception means for users is said in section 7.

Every property has a mutant of a modelled definition that breaks it
(`PROJECT.json`), so none holds by the shape of the model.

## 5. Fairness

`OrderLifecycle!FairSpec`: weak fairness of each running handler (an await
returns), of the clock, of the cron for each pending order past `expiresAt` (it
runs every minute), and of the two queues (BullMQ delivers jobs). Nothing is
assumed of customers and gateway webhooks. No handler crashes in that run:
`PaidIssued` does not survive a stop between `markOrderPaidFromCron`'s
transaction and the job being added, because nobody looks at PAID orders again.
The cron takes 50 orders at a time; the fairness per order holds only while the
backlog is smaller.

`CheckinSync!Fairness`: weak fairness of a running scan, sync and request;
strong fairness of starting a sync, because the server may be busy whenever the
device tries: the staff press the button, or the network comes back, again and
again as long as records wait.

`FileImport!ImportFairness`: weak fairness of each step of a job in hand, strong
fairness of taking a waiting job, because the one worker of a queue is busy with
other files in between. Uploads and faults are not fair.

`SeatMap!SeatFairness`: weak fairness of a running refresh, of polls (a timer),
of the arrival of broadcasts and of the expiry of the zone cache. It is as much
as the code gives: `MapsCatchUp` fails although nothing is lost.

## 6. Proofs

Each theorem holds for every value of the constants that satisfies the
module's assumption (`StoreAssumption`, `LifecycleAssumption`,
`CheckinAssumption`, `AdminAssumption`, and so on: typing and finiteness of the
constants, nothing else; any number of orders, users, types, devices, requests,
keys, clients, slots, crashes). A theorem that needs more says so in its
`ASSUME`, and the table does in italics.

Orders, `OrderLifecycleProofs`, on top of `TicketStoreProofs`:

| Theorem | Says | Argument |
|---|---|---|
| `TicketStoreProofs!StoreTypeCorrect` | stock never goes below zero | inductive: the script checks before DECRBY, everything else adds |
| `TicketStoreProofs!OneHold` | at most one key per order (`OneHoldPerOrder`) | inductive with the script's EXISTS check |
| `TicketStoreProofs!LimitHolds` | nobody seeded within the limit gets above it (`LimitRespected`) | `userLimit` and `base` move together; the script checks before INCRBY |
| `TicketStoreProofs!ConservationHolds` | no ticket is lost or made (`CountersConserved`) | `Conserved` is the same with the sums written over any set of keys; a command adds or removes one key, and a key's absence before (EXISTS) makes the sum change by its quantity |
| `TypeCorrect` | type correctness | one lemma per action |
| `NoOvercommitHolds` | `soldQty + reservedQty <= totalQty` (`NoOvercommit`) | only `CountReserved` raises the sum, and only when `Fits`; issuing moves quantity from one counter to the other; decrements, guarded or not, lower it |
| `CountersMatch` | `soldQty` of a type and `paidQty` of a customer are the tickets issued (`CountersMatchTickets`) | every step that adds to one adds the same to the other, twice if tickets are issued twice |
| `StoreRefined` | `Spec => StoreSpec`; *keys are seeded with any natural number, user counters with any integer, as the code's `Math.max(0, ..)` and query give* | each handler step is one store command or a stutter, action by action |
| `StoreGuarantees` | `OneHoldPerOrder`, `LimitRespected` and `CountersConserved` of the whole lifecycle | from `StoreRefined` and the store's theorems |
| `DecidedApart` | an order of D, any set of orders, is decided once; *no two handlers that saw the same order of D waiting are about to decide it at one time (`LoneDecider`), no empty cart* | `Open(D)`: who is about to decide an order of D found it undecided and nobody has decided it since, because only such a handler decides an order and there was no second one; handlers that overlap before they have looked, or after deciding, do not matter |
| `DecidedOnce` | the case D = Order: two overlapping deciders of one order are the only way to decide it twice (`DecisionsFinal`) | as above |
| `IssuedOnceHolds` | tickets are issued once (`IssuedOnce`); *one handler per order, no empty cart* | the same invariant with what an issuing handler has still to write; a redelivered job finds the tickets |
| `OneTypeHolds` | no order row is for two types (`OneTypePerOrder`) | `HoldsKnown`: what a creation has reserved is what its order's key holds, and an order has one key |
| `KeysReturned` | a key never outlives its order (`NoOrphanHold`); *no handler stops half-way, requests are for one type, the cron finds no order paid* | `Answered`: a key has a pending order or a running handler that owes its release, whatever handlers overlap on the order |
| `SeededInFull` | a stock key is only ever set to the full `totalQty`, a `user_limit` key to 0 | `SeedsFresh`: nothing is counted, reserved or sold under a key that is not there yet, so what a handler read of the database before its SET NX is still so if that takes effect |
| `StockContained` | stock key, keys of unpaid orders and tickets sold exceed `totalQty` by at most the tickets of the orders outside D, for any set D of orders; with D = Order Redis and PostgreSQL agree on each type (`StockFollowsOrders`); *every order of D has one handler at a time, is not undone after its row was written, and no handler of it stops between its counters; the store's constants as in `StoreRefined`* | `KeptInv(D)`: of the orders of D that are or may still be paid no more tickets lack a key than went away with a lapsed one, exactly as many if D is all orders and none lapsed, and then each of them has its tickets; summed over the orders, with `CountersConserved` and `CountersMatchTickets` |
| `LimitContained` | a customer is issued at most `maxPerUser` and the tickets of the customer's orders outside D; with D = Order at most `maxPerUser` (`TicketsWithinLimit`); *as for `StockContained`* | the same sums per customer, with `LimitRespected` |

Check-in, `CheckinProofs` (server) and `CheckinDeviceProofs` (devices, log):

| Theorem | Says | Argument |
|---|---|---|
| `TypeCorrect` | type correctness | one lemma per part |
| `SuccessOnce` | at most one SUCCESS row per ticket (`OneSuccess`) | `OneSuccess` is not inductive, a request between update and log will still write one. `UpdatedOnce` counts that request's debt as well: rows and debts are at most one per ticket, and the ticket is CHECKED_IN, so the WHERE clause lets nobody else incur one |
| `SyncedLogged` | a synced record has its row (`SyncedIsLogged`) | `GoodLogged`: what a batch is about to answer and a device about to mark is logged already; rows are never removed |
| `ScansKept` | nobody let in is forgotten (`NoScanLost`) | `LetIn`, over `Pages` (what a device's page and its calls are doing): a valid screen comes from the server's update or from a saved record, and a row is written, and a record synced, only when the ticket is checked in |
| `UnknownBlocks` | nothing scanned after an unknown ticket is synced (`UnknownBlocksQueue`) | `Queues`: batches hold their device's records in the order they were scanned, and the row of an unknown ticket is never written |
| `GuardHolds` | a device lets a ticket in twice offline only after a conflict (`OfflineOnce`) | `AdmittedOnce`: until then the guard has an entry, or the one running scan is about to write it, and what a sync clears is of a conflict in the log |
| `LogTrue` | the log tells what happened (`LogTellsTruth`) | `Truthful`: while nothing was lost or stopped, each record has one request, one row and one verdict, and the ticket's winner is in the log or about to be |

The services:

| Theorem | Says | Argument |
|---|---|---|
| `IdempotencyProofs!RunsOnce` | a key runs two requests only after a race, an expiry, or a request that failed with its order stored (`RunsOnceUnlessRaced`) | the property speaks only of requests that have taken effect. `HoldsKey` adds those that have marked the key and may yet: such a request keeps the record from being free, and is the only one. It rests on `EffectiveRan` (how far a request that took effect has come) and `MarkedFree` (nobody marks a key found in use, because a failed order leaves no record and a failed payment is refused) |
| `IdempotencyProofs!ReplaysOwn` | a replayed answer is that of an effective request of the same key and body | `RecordsOwn`: a COMPLETED record names such a request; it needs no absence of races |
| `ServicesProofs!RateHolds` | a bucket that never refused keeps its rate (`WithinRate`) | `BucketInv`: with the types and `UnusedUnspent` (a missing bucket has granted nothing) each grant pays with the seconds since `lastRefill`, which it then moves; `RefillBounds` and `AfterBucket` are the arithmetic |
| `ServicesProofs!BucketTypeCorrect` | tokens stay between 0 and the capacity | the same invariant, refusals and lagging clocks included |
| `AdminProofs!AdminTypeCorrect` | `soldQty` counts the paid orders and, until the stock drifts, `reservedQty` those counted and not lowered again (after a drift it may be below, even negative) | orders counted by step (`Count`); an action moves one order, so each count changes by at most one (`CountMove`) |
| `AdminProofs!RoomHolds` | oversold only if an edit squeezed the type (`RoomUnlessSqueezed`) | `RoomInv`: an edit about to write asks for no less than it saw counted; a count since then marks it overtaken |
| `AdminProofs!StockHolds` | the stock key drifts only by an edit that overtook, or by the payment or end of an order whose creation was undone (`StockUnlessDrifted`), in whichever order a handler tells the two stores and whether or not the hold has lapsed | `StockInv`: the orders between the stores are counted on either side (`Owing`, `Given`); a SET on its way that nothing has overtaken carries the right value, and once none is on its way the key is right; a DEL comes after its row is gone |
| `AdminProofs!TicketsHaveGates` | the types of `GateAdmin`, `TicketsAtGates` | `GateInv`: while nothing overlapped, clashed or stopped, the one call under way knows at each of its awaits which tickets are not yet at their new gate (`Stage`) |
| `AdminProofs!RebalanceIsEven` | `RebalanceSpreads` | `Round`: the tickets that have had their turn are where it put them, and the turns of any number of tickets differ by at most one per gate (`TurnsEven`: all turns of one gate but its first map one-to-one to earlier turns of another) |
| `AdminProofs!ResetSeeds` | a run of a seed script nobody met does not fail, and when it is done the tables it empties hold its data and nothing else (uploaded files, which no script deletes, stay); after a reset that nobody read or bought beside so do the listing, cached or about to be, and the stocks (`ResetLeavesSeed`) | `ResetInv`: the tables it has emptied are empty, those it has filled have its rows alone, gates stay beside their concerts, and a listing that waits to be cached is of its data unless the run has `heard` it; a run that finds neither a missing parent nor a taken address does not fail |
| `ServicesProofs!StaleHolds` | `StaleUnlessMissed` | inductive with the types: a reader's version is the rows', or the change since then has yet to drop the document |
| `ServicesProofs!ZoneCacheHolds` | `ZoneCacheUnlessMissed` | inductive with `SeatInv` (the row holds no more reservations than it had changes) |
| `ServicesProofs!ReminderHolds` | `ReminderOnTime` | `JobInv` and `Calm`: until something upsets it one scheduling runs at a time, a PATCH that does not schedule changes nothing, and `Knows` says what it knows at each step of the row, the old job and its own |
| `ServicesProofs!SessionHolds` | `SessionUnlessCrossed` | `SessionInv`: an answer names the user its token was minted for, and a refused one had none or an ended one (`Answers`) |
| `ServicesProofs!SessionTypeCorrect` | the types of `ShopSession`: every token stored or sent is one a login minted; *at least one tab* | inductive with `SessionInv` (`SessionRest`) |
| `ServicesProofs!SeatsHold` | `SeatsMatchOrder` | `SelectionInv` and `Kept`: what is stored is what the page shows, and no more than its map and the customer's allowance let it sell |
| `ServicesProofs!SecondOrderExcused` | `NoSecondOrder` | over the invariant of `RunsOnce`, as every step of the server is one of `Idempotency`: `Minded` says that an order to pay is the pending one or has the stored key, and that a press has the stored key too unless its key's order exists; `TabInv` that the page is open only without a pending order |
| `ServicesProofs!DeskHolds` | `DeskAsTold` | `DeskInv`: a save under way was asked to drop only what its panel had lost by hand (`Removing`), and a submitted form has made the tiers it has passed (`FormSent`) |
| `ServicesProofs!RoomTypeCorrect` | the types of `WaitingRoom`; the sessions known have joined | inductive; one lemma per kind of step says what it makes of a tab |
| `ServicesProofs!TurnsStayOver` | `TurnNotRenewed` | `TokenKept`: a step that gives a tab another token of the same session gives it that session's own, and an ended turn stays ended |
| `ServicesProofs!RoomStaysShut` | `AbandonedKeepRoomShut` | the sessions nobody polls are among those that wait, so `WaitingCount` alone reaches the threshold at the next join |
| `ServicesProofs!GuestsOnce` | `GuestsListedOnce` | `OneJob`: the one worker of the queue has one job; `Inserted`: what it looked up is still so when it inserts, a finished file is listed, and guests without address are as many as a sum over the listed files says |

The theorems about D say what the races cost. Two handlers on one order, a
handler that stops between two counters, a creation that is undone: each of
these really makes the stores disagree (section 7), and `StockContained` and
`LimitContained` bound the damage by the tickets of the orders it happened to,
D being all others. Around D everything is allowed: the orders outside D are
handled by any number of handlers at a time, which stop and fail at any await,
and on the orders of D calls still fail, come late and are repeated, keys lapse,
handlers stop elsewhere. *Not undone after its row was written*
(`NothingUndone(D)`) excludes two outcomes of `createOrder`: the inventory
transaction refuses tickets that Redis had granted, or fails; or no payment URL
is made. Either leaves a PENDING_PAYMENT row that no counter knows. *No empty
cart* is needed because an order without items, which the DTO allows (`items`
is `@IsArray` only), can be deleted when its creation is undone, and decided
orders with it.

That the handlers implement the one-step sale (`SaleSpec`) is model-checked in
`serial` and not proved: it holds only where none of these races can occur, and
a theorem with all of them as hypotheses would say little of the code.

Sums over orders and keys are proved without induction over data: of the
finite sets for which a sum misbehaves a smallest one is taken, and a set one
element smaller contradicts it. `FiniteSums` has these lemmas, for reservation
keys as for the rows of guest lists.

The type invariants of `TicketStore`, `OrderLifecycle`, `CheckinSync` and
`OneHoldPerOrder` are proved, so no run repeats them; the other modules' types
are the invariant `TypesOK` of `services`. Those of `TicketTypeAdmin`,
`ConcertCache`, `SeatMap`, `Reminders`, `ShopSession`, `SeatSelection`,
`Checkout`, `TokenBucket`, `WaitingRoom`, `FileImport` and `EventDesk` are stated
by theorems besides, those of `GateAdmin` with `TicketsAtGates`, those of
`SystemReset` as a part of `ResetInv` (`ResetTypeCorrect`).

Only model-checked:

* liveness (`PendingDecided`, `PaidIssued`, `QueueDrains`, `QueuedFilesEnd`):
  fairness and ENABLED are beyond the prover;
* `TypesOK` as written: it joins the modules' types, each proved for all
  constants, at the constants of one instance.

Where a theorem has a condition in italics, nothing is claimed beyond it. One
handler per order, requests of one type, no process that stops half-way and no
creation undone are conditions without which the runs or the experiments of
section 7 show a property false.

## 7. What the checks found

### Kept as runs

* `oversell`: `handlePaymentSuccess` does not look at the status inside its
  transaction. Two SUCCESS webhooks for one order that both read
  PENDING_PAYMENT issue its tickets twice, and `soldQty` exceeds `totalQty`.
* `leak`: the reservation key lapses before the delayed expire job runs, so the
  job finds no key and neither stock nor user limit is given back. The
  documents promise they are.
* `seatmap` (`MapsCatchUp`): an update is applied only if its ticket type and
  zone ids are those of the map. Polls carry no ticket type, broadcasts name the
  ticket type as zone; so a map that is open never changes until the page is
  loaded again, whatever `interactive-seatmap.md` says of realtime.
* `cart` (`OneTypePerOrder`): the reservation key is per order, so the second
  item of a request is always refused; no order for two ticket types can exist.
* `gates` (`UnknownBlocksQueue`): a record of a ticket that is not in the
  database makes the batch fail with HTTP 500 each time, because its log row
  violates the foreign key. The device never syncs anything scanned after it.
* `services` (`WithinRate`): a refusal stores the refilled tokens with the old
  `lastRefill`, so a client who keeps asking is credited the same seconds at
  each request. The property holds only of buckets that never refused;
  `rate-limit.md` has `lastRefill` as the time of the last refill.
* `services` (`TurnNotRenewed`): a session whose turn is over is answered with
  its old token at every join, poll and access check. The tab goes from the
  seats to the waiting page and back for good.
* `services` (`AbandonedKeepRoomShut`): sessions that wait and are never polled
  again are counted as load until the server restarts; once there are as many as
  the threshold, everybody has to wait.
* `services` (`DeskAsTold`): the panel of ticket types has no key. Edit on
  another event while it is open keeps the first event's tiers, and Save deletes
  the second event's ticket types. And a save that deleted a row and then failed
  can never be saved again: it asks for that row's deletion each time.

### Exceptions the properties name

TLC finds each of these as soon as its exception is left out of the property.

* `StockUnlessDrifted`, `RoomUnlessSqueezed`: an edit of a ticket type sets
  `stock:{id}` from a row read before other awaits, over reservations made
  since; its check that `totalQty` covers `soldQty + reservedQty` is of a row
  read earlier still. A request that stops before its SET leaves the old stock.
  An order whose creation was undone after its row was written stays, and can be
  paid, cancelled or expire: `reservedQty`, which does not count it, is lowered
  all the same, by a cancel or the expire job even below zero.
  A FAILED webhook and the cron lower `reservedQty` first and release the key
  afterwards, and a hold that has lapsed is lowered without giving anything back:
  the property corrects for both, so neither is among its exceptions.
* `TicketsAtGates`: tickets are moved by gate NAME, so renaming or removing a
  gate moves those of a namesake gate of another concert; two calls that
  overlap, an issue during a removal, or a stop half-way leave tickets at gates
  that do not exist. `RebalanceSpreads` needs the rebalance to run alone.
* `RunsOnceUnlessRaced`, `NoSecondOrder`: two requests with one key that both
  look before either marks run twice; the result of SET NX is ignored. And an
  order may be stored and its request fail afterwards (a compensation that
  throws, `order.delete` refused by the order's items, the expire job not
  added): the interceptor deletes the key, the page sends the order again, and a
  second one is made beside the first. That needs no race and no expiry.
* `ReminderOnTime`: under a fixed job id `add` does nothing while an old job is
  left; a failed job stays under that id, so the concert never gets a reminder
  again, and schedulings that overlap may leave none. A PATCH decides whether to
  reschedule by the row it read before its other awaits: one that gives the date
  it had read, and meanwhile another has changed it, writes the old date again
  and leaves the job at the other's.
* `GuestsListedOnce`: a retried import inserts guests without e-mail address
  again. `QueuedFilesEnd`: a file whose last attempt cannot write FAILED, or
  whose job stalls twice, stays PROCESSING.
* `StaleUnlessMissed`, `ZoneCacheUnlessMissed`: a reader or refresh that stores
  what a change has overtaken, a failing DEL, and changes that drop nothing
  leave old documents until they expire.
* `SessionUnlessCrossed`: the token is read before an await and stored after it.
  A profile on its way undoes a logout; a 401 of an old token ends a newer
  session. Other tabs go on showing the user.
* `SeatsMatchOrder`: seats come back without their zone if it is sold out; a
  zone given up stays stored and is ordered from a page reached by the browser's
  buttons; the customer's orders arrive late and leave fewer tickets than seats.
* `ResetLeavesSeed`: a request between two deletes makes the reset fail
  half-way, with tables emptied; a listing read meanwhile is cached, and one
  read before the flush too, by a reader that stores it after; an order between
  `findMany` and `seedStock`, of which `health.controller.ts:127` wants no race,
  or with a hold that is not counted yet at `findMany`, is overwritten. Rows of
  `UploadedFile` survive every reset, without their concert.
* `DeskAsTold`: the form submits the ticket types it had when the button was
  pressed. One added meanwhile is not made and one removed meanwhile is,
  although neither button is disabled.
* `LogTellsTruth`: a scan whose reply is lost goes to the offline path and is
  let in as valid; its own earlier check-in then makes its sync record a
  REJECTED_CONFLICT. The same happens to a batch sent again while the first copy
  runs, and after a stop between a ticket's update and its log row.

### Seen with one handler changed or one bound raised

* With two handlers on one order (`PerOrder = 2`) `SaleSpec` and
  `DecisionsFinal` fail: cancel, expire job, cron and FAILED webhook check and
  write apart, so an order can be decided twice and its decrement of
  `reservedQty` can happen twice.
* With one ticket (`Total` 1, two per customer) `SaleSpec` fails although each
  order has one handler at a time and nothing fails: a cancel gives the key back
  before it lowers `reservedQty`, a second order reserves the ticket, writes its
  row and finds the counter full. `createOrder` gives the key back, but the row
  stays PENDING_PAYMENT (its items forbid the delete) and can be paid.
* When the first item of a request is refused for lack of stock or by the user's
  limit, a later item still gets the order's key; the rollback covers only the
  items before the first refused one, so that hold stays, without an order,
  until its key lapses, and its stock never returns. `NoOrphanHold` is violated
  in the `cart` instance, and so is not among the properties of that run.
* If the gateway fails, `order.delete` meets the `OrderItem` foreign key, and a
  PENDING_PAYMENT order stays whose counters are already given back; later
  cancellation or expiry decrements them again.
* With one stop (`MaxCrashes = 1` in `serial`) `SaleSpec`, `StockFollowsOrders`,
  `TicketsWithinLimit` and `NoOrphanHold` fail: a cancel that stops after the
  release leaves the order PENDING_PAYMENT without a key, a late SUCCESS issues
  its tickets, and stock and limit are free for the next order.
* A stop between marking an order PAID in the cron and adding the issue job
  leaves it without tickets (`PaidIssued` with a crash).

### Seen while reading

* Requests without a user share the bucket `__none__` across all routes, although
  `rate-limit.service.ts:144` says the script treats the key as non-existent.
* `notification.processor.ts:96` says "Idempotent per user", but a retried
  reminder job mails every batch again.
* Only the first page of the default listing is dropped from the cache.
* A key in progress is answered 409, and the checkout page retries fifteen times
  with the same key, also for a selection that has changed since.
* The form of a new event may be submitted again after a refused ticket type,
  and makes a second concert, since its slug gets a random suffix.
* `interactive-seatmap.md:317` rules out a choice of single seats, which the page
  offers.
* `forgotPassword` writes the new hash before it mails the password; a failing
  mail leaves the customer with neither.
* The seed scripts never delete `UploadedFile` rows, and run by hand they leave
  Redis as it was.
* A staff member who logs out during a scan and in again has a second instance
  of the check-in page, whose guard against a second scan or sync does not see
  the first one's.

## 8. Abstractions

Common to all modules: validation, rate limiting and formatting succeed, and so
does authentication outside `ShopSession`; identifiers are model values; each
order id is used once.

Store: a missing counter key is 0 together with the fact that it is missing.
Values that are not numbers, and scripts called with a wrong argument count,
are left out.

Orders:
* `ensureRedisStock` and `ensureRedisUserLimit` read their counters together,
  and their SET NX commands are one step.
* The reserve scripts of one request run in the request's order (one
  connection); the reload after NOSCRIPT, which could reorder them, is left out.
* The parallel releases of one order are one step: at most one finds its key.
* The cron is a handler per order, not a loop over a batch of 50.
* The result of a webhook is its effect on the order; signature, amount check
  and e-mail are left out. `verifyTransaction` answers anything.
* `tries`, `MaxCrashes`, `PerOrder` are bounds, not code.

Check-in:
* `getUnsynced` and the POST are one step; so are a request's last statement
  and its reply, unless the device has given up the call before.
* One scan at a time (`isScanning` of the page), one sync at a time
  (`isSyncingRef`).
* `isOnline` may be wrong at any time: both scan actions are always enabled.
* A code is a ticket and whether its token and signature fit; gates are fixed
  during a run (`GateAdmin` moves them). Statuses CANCELLED and REFUNDED of a
  ticket are never set by the backend and left out.
* A failing `getUnsynced` is a sync that does not start.

Services of the backend:
* `TicketTypeAdmin`: one ticket per order, one handler at a time on each; its
  orders have only the steps that touch the row or `stock:{id}`, the rest is in
  `OrderLifecycle`. An administrator's direct edits of `soldQty` and `reservedQty` are left out.
* `GateAdmin`: names are numbers in alphabetical order, a signature is the name
  it covers; the concert's checks of a scan other than gate and signature hold.
* `Reminders`: time in steps of a reminder; a batch of mails is one step, and
  what a mail says is left out.
* `FileImport`: a row is its address; loading, parsing and the language model
  either deliver or fail. BullMQ gives a stalled job back once.
* `Idempotency`: a hash is its body; records live fifteen minutes from their
  last SET, and `Expire` may end one at any time.
* `TokenBucket`: tokens in units of the refill rate; whole seconds, as the code
  has them.
* `ConcertCache`: the rows are a version number; two documents stand for all.
* `SeatMap`: one ticket type, one zone; the row is what the map shows of it.
* `SystemReset`: a row is the generation of data it hangs on; a script's inserts
  into one table are one step, and so are an order, its items and its count;
  readers of the listing that found the same are one; the statements of others
  are bounded.

Browsers:
* Events and the effects they set off are one step: nothing runs between them.
* `WaitingRoom`: waiting times and the lifetime of a token are steps that may
  happen any time; a customer has one tab.
* `Checkout`: one concert; a press sent again after 409 is the same request.
* `ShopSession`: a user is its identity; the two keys of localStorage are
  written together; a token ends at any time.
* `SeatSelection`: a seat is its number and the zone it was pressed in (the code
  keeps the number alone).
* `EventDesk`: a ticket type is its row's id, what its fields say is left out,
  so updates of rows that stay do nothing.

## 9. Not modelled, and the plan

Not modelled, with the reason:

* The payment circuit breaker: an opossum instance with options; the order
  model has its outcome, a gateway call that fails.
* Tickets and QR codes, administration statistics, dashboards, revenue, the
  health checks: queries and formatting.
* User administration, registration and change or reset of a password on the
  server: one statement per request, nothing shared but the row.
* Mail, the mock payment page, prompts, PDF text: pure I/O.
* The pages of the customer, admin and check-in applications beyond the modules
  above: markup, styling, charts; camera and QR decoding; the admin pages for
  guests, settings, users and the detail of an event, whose requests the
  backend's modules have.

About a sixth of the implementation's lines is mapped. The rest is mostly what
these tools have nothing to say about: roughly 3,600 lines are the rows of four
seed scripts (two scripts, each twice in the repository; the modelled parts are
their deletes and the order of their inserts), nearly 14,000 are page markup,
and most of the remainder DTOs, controllers that pass calls on, queries, mail
templates and migrations.

What is left, most important first:

1. `CheckinSync` with two page instances on one device, and the scanner.
2. `TicketTypeAdmin` as a refinement: an inventory that an edit resizes.
3. The guests page of the admin web: answers for a concert no longer selected.
