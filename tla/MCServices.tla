------------------------------ MODULE MCServices ------------------------------
(***************************************************************************)
(* The services around the sale, on small instances.  They share no state  *)
(* the modules speak of, so a behaviour runs one of them (part) and leaves *)
(* the others in a fixed initial state.                                    *)
(***************************************************************************)
EXTENDS TicketTypeAdmin, GateAdmin, Reminders, FileImport, Checkout,
        TokenBucket, ConcertCache, SeatMap, WaitingRoom, ShopSession,
        SeatSelection, EventDesk, SystemReset

VARIABLE part

CONSTANTS o1, o2, a1, a2, ga, gb, gc, c1, c2, s1, s2, fa, fb, fp, ea, eb, none,
          r1, r2, r3, k1, k2, b1, p1, u1, anyone, ip1, w1, w2, f1, f2, v1, t1, t2,
          d1, d2, ua, ub, za, zb, x1, x2

MCConcertOf == [g \in {ga, gb} |-> "x"] @@ [g \in {gc} |-> "y"]
                 @@ (1 :> "x") @@ (2 :> "x")
MCQueue == (fa :> "csv") @@ (fb :> "csv") @@ (fp :> "bio")
MCCsvRows == (fa :> <<ea, eb, none>>) @@ (fb :> <<ea, ea, none>>) @@ (fp :> <<>>)
MCHandlerOf == (b1 :> "order") @@ (p1 :> "payment")

Part == {"types", "gates", "reminders", "files", "requests", "checkouts",
         "limits", "caches", "map", "rooms", "sessions", "seats", "desk", "form",
         "resets"}

(* The choices of the initial states, made where the part runs. *)
Fixed ==
    /\ part # "types" => typeRow.total = 2
    /\ edit[a2] = NoRequest
    /\ gateName[ga] = 1 /\ gateName[gb] = 2 /\ gateName[gc] = 1
    /\ part # "reminders" => concert.status = "DRAFT" /\ concert.at = 1
    /\ lastRow = 1 /\ eventOf[1] = za /\ form.tiers = {ea}
    /\ part # "resets" => listing = {} /\ stock[Old] = NoStock

(* Orders are alike, and so are requests of administrators; beside two of  *)
(* these one order is enough.  Of two orders the second may be one whose   *)
(* creation is undone.                                                     *)
FirstOfAlike ==
    /\ buyer'[o2].at # "new" => buyer'[o1].at \notin {"new", "left"}
    /\ edit[a2] = NoRequest /\ edit'[a2] # NoRequest => edit[a1] # NoRequest
    /\ edits' = 2 => buyer'[o2].at = "new"

(* The second customer queues and leaves, without going on to the seats. *)
SecondWaits == tab'[t2].page \in {"away", "waiting"}

(* Requests with different keys have nothing in common. *)
OneKey == \A r \in Req : req'[r].step # "new" => req'[r].key = k1

(* Customers log in on one tab, ua first; the other is reloaded.  Pages of *)
(* the first save profiles, those of the second fetch other data.          *)
FirstTab ==
    /\ \A c \in Fetch :
         /\ fetch'[c].kind \in {"login", "profile"} => fetch'[c].tab = t1
         /\ fetch'[c].kind \in {"me", "other"} => fetch'[c].tab = t2
    /\ minted' # <<>> => Head(minted') = ua

(* Runs that meet each other are beside one statement of others. *)
OneStray == strays' = 2 => \E r \in Run : reset'[r].step = "idle"

Init ==
    /\ part \in Part
    /\ AdminInit /\ GateInit /\ ReminderInit /\ ImportInit
    /\ CheckoutInit /\ BucketInit /\ CacheInit /\ SeatInit /\ RoomInit
    /\ SessionInit /\ SelectionInit /\ DeskInit /\ ResetInit
    /\ Fixed

vars == <<part, adminVars, gateVars, reminderVars, importVars, idemVars,
          tabVars, bucketVars, cacheVars, seatVars, roomVars, sessionVars,
          selectionVars, deskVars, resetVars>>

OnlyTypes == UNCHANGED <<part, gateVars, reminderVars, importVars, idemVars,
                         tabVars, bucketVars, cacheVars, seatVars, roomVars,
                         sessionVars, selectionVars, deskVars, resetVars>>
OnlyGates == UNCHANGED <<part, adminVars, reminderVars, importVars, idemVars,
                         tabVars, bucketVars, cacheVars, seatVars, roomVars,
                         sessionVars, selectionVars, deskVars, resetVars>>
OnlyReminders == UNCHANGED <<part, adminVars, gateVars, importVars, idemVars,
                             tabVars, bucketVars, cacheVars, seatVars,
                             roomVars, sessionVars, selectionVars, deskVars,
                             resetVars>>
OnlyFiles == UNCHANGED <<part, adminVars, gateVars, reminderVars, idemVars,
                         tabVars, bucketVars, cacheVars, seatVars, roomVars,
                         sessionVars, selectionVars, deskVars, resetVars>>
OnlyRequests == UNCHANGED <<part, adminVars, gateVars, reminderVars,
                            importVars, tabVars, bucketVars, cacheVars,
                            seatVars, roomVars, sessionVars, selectionVars,
                            deskVars, resetVars>>
OnlyCheckouts == UNCHANGED <<part, adminVars, gateVars, reminderVars,
                             importVars, bucketVars, cacheVars, seatVars,
                             roomVars, sessionVars, selectionVars, deskVars,
                             resetVars>>
OnlyLimits == UNCHANGED <<part, adminVars, gateVars, reminderVars, importVars,
                          idemVars, tabVars, cacheVars, seatVars, roomVars,
                          sessionVars, selectionVars, deskVars, resetVars>>
OnlyCaches == UNCHANGED <<part, adminVars, gateVars, reminderVars, importVars,
                          idemVars, tabVars, bucketVars, seatVars, roomVars,
                          sessionVars, selectionVars, deskVars, resetVars>>
OnlyMap == UNCHANGED <<part, adminVars, gateVars, reminderVars, importVars,
                       idemVars, tabVars, bucketVars, cacheVars, roomVars,
                       sessionVars, selectionVars, deskVars, resetVars>>
OnlyRooms == UNCHANGED <<part, adminVars, gateVars, reminderVars, importVars,
                         idemVars, tabVars, bucketVars, cacheVars, seatVars,
                         sessionVars, selectionVars, deskVars, resetVars>>
OnlySessions == UNCHANGED <<part, adminVars, gateVars, reminderVars,
                            importVars, idemVars, tabVars, bucketVars,
                            cacheVars, seatVars, roomVars, selectionVars,
                            deskVars, resetVars>>
OnlySeats == UNCHANGED <<part, adminVars, gateVars, reminderVars, importVars,
                         idemVars, tabVars, bucketVars, cacheVars, seatVars,
                         roomVars, sessionVars, deskVars, resetVars>>
OnlyDesk == UNCHANGED <<part, adminVars, gateVars, reminderVars, importVars,
                        idemVars, tabVars, bucketVars, cacheVars, seatVars,
                        roomVars, sessionVars, selectionVars, resetVars>>
OnlyResets == UNCHANGED <<part, adminVars, gateVars, reminderVars, importVars,
                          idemVars, tabVars, bucketVars, cacheVars, seatVars,
                          roomVars, sessionVars, selectionVars, deskVars>>

Next ==
    \/ part = "types" /\ AdminNext /\ FirstOfAlike /\ OnlyTypes
    \/ part = "gates" /\ GateNext /\ ~ broken /\ OnlyGates
    \/ part = "reminders" /\ ReminderNext /\ OnlyReminders
    \/ part = "files" /\ ImportNext /\ OnlyFiles
    \/ part = "requests" /\ IdempotencyNext /\ OneKey /\ OnlyRequests
    \/ part = "checkouts" /\ CheckoutNext /\ OnlyCheckouts
    \/ part = "limits" /\ BucketNext /\ OnlyLimits
    \/ part = "caches" /\ CacheNext /\ OnlyCaches
    \/ part = "map" /\ SeatNext /\ OnlyMap
    \/ part = "rooms" /\ RoomNext /\ SecondWaits /\ OnlyRooms
    \/ part = "sessions" /\ SessionNext /\ FirstTab /\ OnlySessions
    \/ part = "seats" /\ SelectionNext /\ OnlySeats
    \/ part = "desk" /\ PanelNext /\ OnlyDesk
    \/ part = "form" /\ FormNext /\ OnlyDesk
    \/ part = "resets" /\ ResetNext /\ OneStray /\ OnlyResets

Spec == Init /\ [][Next]_vars

(* The state of the part that runs has the types its module declares.  The *)
(* others stay as they are initially, which each part checks of its own.   *)
TypesOK ==
    /\ part = "types" => AdminTypeOK
    /\ part = "gates" => GateTypeOK
    /\ part = "reminders" => ReminderTypeOK
    /\ part = "files" => ImportTypeOK
    /\ part \in {"requests", "checkouts"} => CheckoutTypeOK
    /\ part = "limits" => BucketTypeOK
    /\ part = "caches" => CacheTypeOK
    /\ part = "map" => SeatTypeOK
    /\ part = "rooms" => RoomTypeOK
    /\ part = "sessions" => SessionTypeOK
    /\ part = "seats" => SelectionTypeOK
    /\ part \in {"desk", "form"} => DeskTypeOK
    /\ part = "resets" => ResetTypeOK
=============================================================================
