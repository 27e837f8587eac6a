------------------------------- MODULE SeatMap -------------------------------
(***************************************************************************)
(* The seat map of one concert with one ticket type: SeatmapService and    *)
(* its zone cache, the updates it broadcasts when an order has changed the *)
(* TicketType row, and the customer web's map (useSeatMap), which loads    *)
(* once, polls and listens.  Requests are cut at their awaits.             *)
(*                                                                         *)
(* The row is reduced to what the map shows of it.  missed is history: the *)
(* zone cache was filled from a row that had changed in between, a refresh *)
(* failed, or an administrator changed the row, which refreshes nothing.   *)
(***************************************************************************)
EXTENDS Integers, Sequences

CONSTANTS
    Seats,          \* most tickets the ticket type may have left
    Refresh,        \* refreshAndBroadcast calls in progress
    Viewer,         \* browsers that show the map
    MaxChanges,     \* bound: changes of the row
    MaxLoads        \* bound: reloads of the page

ASSUME SeatAssumption == Seats \in Nat /\ MaxChanges \in Nat /\ MaxLoads \in Nat

VARIABLES
    seatRow,        \* left: total - sold - reserved, and reserved
    zoneCache,      \* seatmap:{concert}:{type}:zones, NoZone when missing
    refresh,        \* refresh[f]: step, the row and the old status it has read
    poll,           \* poll[v]: step of a poll, the row or answer it has
    view,           \* view[v]: the zone as the map shows it
    inbox,          \* inbox[v]: broadcast updates on their way
    changes, loads, missed

seatVars == <<seatRow, zoneCache, refresh, poll, view, inbox, changes, loads, missed>>

Zone == [left : 0..Seats, status : {"AVAILABLE", "RESERVED", "SOLD_OUT"}]
NoZone == [left |-> 0, status |-> "NONE"]
SeatRow == [left : 0..Seats, reserved : 0..MaxChanges]
NoRow == [left |-> 0, reserved |-> 0]

(* Ids of the ticket type, and of its zone in the browser: zone-{id}, or   *)
(* the id the SVG gives it.  Updates of a poll name no ticket type.        *)
TypeId == "tt"
MapZoneId == "zone-tt"
NoType == "undefined"
Update == [type : {TypeId, NoType}, zone : {TypeId, MapZoneId}, shows : Zone]
NoUpdate == [type |-> NoType, zone |-> NoType, shows |-> NoZone]

SeatTypeOK ==
    /\ seatRow \in SeatRow
    /\ zoneCache \in Zone \cup {NoZone}
    /\ refresh \in [Refresh -> [step : {"idle", "row", "old", "del", "set"},
                                seen : SeatRow, old : Zone \cup {NoZone}]]
    /\ poll \in [Viewer -> [step : {"idle", "row", "set", "answer"},
                            seen : SeatRow, update : Update \cup {NoUpdate}]]
    /\ view \in [Viewer -> Zone]
    /\ inbox \in [Viewer -> Seq(Update)]
    /\ changes \in 0..MaxChanges /\ loads \in 0..MaxLoads
    /\ missed \in BOOLEAN

(* computeZoneAvailability *)
ZoneOf(row) ==
    [left |-> row.left,
     status |-> CASE row.left = 0 -> "SOLD_OUT"
                  [] row.left > 0 /\ row.reserved > 0 -> "RESERVED"
                  [] row.left > 0 /\ row.reserved = 0 -> "AVAILABLE"]

(* deriveZoneStatus of the customer web *)
MapZoneOf(row) ==
    [left |-> row.left,
     status |-> CASE row.left = 0 -> "SOLD_OUT"
                  [] row.left > 0 /\ row.left <= row.reserved -> "RESERVED"
                  [] row.left > 0 /\ row.left > row.reserved -> "AVAILABLE"]

IdleRefresh == [step |-> "idle", seen |-> NoRow, old |-> NoZone]
IdlePoll == [step |-> "idle", seen |-> NoRow, update |-> NoUpdate]

SeatInit ==
    /\ seatRow = [left |-> Seats, reserved |-> 0]
    /\ zoneCache = NoZone
    /\ refresh = [f \in Refresh |-> IdleRefresh]
    /\ poll = [v \in Viewer |-> IdlePoll]
    /\ view = [v \in Viewer |-> MapZoneOf(seatRow)]
    /\ inbox = [v \in Viewer |-> <<>>]
    /\ changes = 0 /\ loads = 0 /\ missed = FALSE

-----------------------------------------------------------------------------
(* The row and the refreshes *)

(* A committed reserve, cancel or expiry, or payment: each is followed by  *)
(* a refresh nobody waits for.                                             *)
OrderChangesRow(f, left, reserved) ==
    /\ changes < MaxChanges /\ refresh[f].step = "idle"
    /\ <<left, reserved>> \in {<<-1, 1>>, <<1, -1>>, <<0, -1>>}
    /\ seatRow.left + left \in 0..Seats /\ seatRow.reserved + reserved >= 0
    /\ seatRow' = [left |-> seatRow.left + left, reserved |-> seatRow.reserved + reserved]
    /\ changes' = changes + 1
    /\ refresh' = [refresh EXCEPT ![f] = [IdleRefresh EXCEPT !.step = "row"]]
    /\ UNCHANGED <<zoneCache, poll, view, inbox, loads, missed>>

AdminChangesRow(left) ==
    /\ changes < MaxChanges /\ left # seatRow.left
    /\ seatRow' = [seatRow EXCEPT !.left = left]
    /\ changes' = changes + 1
    /\ missed' = TRUE
    /\ UNCHANGED <<zoneCache, refresh, poll, view, inbox, loads>>

RefreshReadsRow(f) ==
    /\ refresh[f].step = "row"
    /\ refresh' = [refresh EXCEPT ![f] = [step |-> "old", seen |-> seatRow, old |-> NoZone]]
    /\ UNCHANGED <<seatRow, zoneCache, poll, view, inbox, changes, loads, missed>>

RefreshReadsCache(f) ==
    /\ refresh[f].step = "old"
    /\ refresh' = [refresh EXCEPT ![f].step = "del", ![f].old = zoneCache]
    /\ UNCHANGED <<seatRow, zoneCache, poll, view, inbox, changes, loads, missed>>

RefreshDeletes(f) ==
    /\ refresh[f].step = "del"
    /\ zoneCache' = NoZone
    /\ missed' = FALSE
    /\ refresh' = [refresh EXCEPT ![f].step = "set"]
    /\ UNCHANGED <<seatRow, poll, view, inbox, changes, loads>>

(* A cache entry is set from the row read before. *)
FillCache(row) ==
    /\ zoneCache' = ZoneOf(row)
    /\ missed' = (ZoneOf(row) # ZoneOf(seatRow))

(* Mutant of RefreshSets: what was in the cache stays there. *)
RefreshSetsOld(f) ==
    /\ refresh[f].step = "set"
    /\ zoneCache' = refresh[f].old /\ missed' = FALSE
    /\ refresh' = [refresh EXCEPT ![f] = IdleRefresh]
    /\ UNCHANGED <<seatRow, poll, view, inbox, changes, loads>>

(* Only a change of status is broadcast, and only if the old one was still *)
(* in the cache.                                                           *)
RefreshSets(f) ==
    LET now == ZoneOf(refresh[f].seen)
        tell == refresh[f].old # NoZone /\ refresh[f].old.status # now.status
    IN /\ refresh[f].step = "set"
       /\ FillCache(refresh[f].seen)
       /\ inbox' = [v \in Viewer |-> IF tell
             THEN Append(inbox[v], [type |-> TypeId, zone |-> TypeId, shows |-> now])
             ELSE inbox[v]]
       /\ refresh' = [refresh EXCEPT ![f] = IdleRefresh]
       /\ UNCHANGED <<seatRow, poll, view, changes, loads>>

RefreshFails(f) ==
    /\ refresh[f].step # "idle"
    /\ refresh' = [refresh EXCEPT ![f] = IdleRefresh]
    /\ missed' = TRUE
    /\ UNCHANGED <<seatRow, zoneCache, poll, view, inbox, changes, loads>>

ZoneExpires ==
    /\ zoneCache # NoZone
    /\ zoneCache' = NoZone
    /\ missed' = FALSE
    /\ UNCHANGED <<seatRow, refresh, poll, view, inbox, changes, loads>>

-----------------------------------------------------------------------------
(* The browsers *)

(* applyZoneAvailabilityUpdates: both ids have to match. *)
Apply(zone, u) == IF u.type = TypeId /\ u.zone = MapZoneId THEN u.shows ELSE zone

PollUpdate(zone) == [type |-> NoType, zone |-> TypeId, shows |-> zone]

(* getAvailability: the cache, ... *)
PollReadsCache(v) ==
    /\ poll[v].step = "idle"
    /\ poll' = [poll EXCEPT ![v] =
         IF zoneCache = NoZone THEN [IdlePoll EXCEPT !.step = "row"]
                               ELSE [IdlePoll EXCEPT !.step = "answer",
                                                     !.update = PollUpdate(zoneCache)]]
    /\ UNCHANGED <<seatRow, zoneCache, refresh, view, inbox, changes, loads, missed>>

(* ... or else the row, ... *)
PollReadsRow(v) ==
    /\ poll[v].step = "row"
    /\ poll' = [poll EXCEPT ![v] = [IdlePoll EXCEPT !.step = "set", !.seen = seatRow]]
    /\ UNCHANGED <<seatRow, zoneCache, refresh, view, inbox, changes, loads, missed>>

(* ... which goes into the cache. *)
PollSetsCache(v) ==
    /\ poll[v].step = "set"
    /\ FillCache(poll[v].seen)
    /\ poll' = [poll EXCEPT ![v] = [IdlePoll EXCEPT !.step = "answer",
                                      !.update = PollUpdate(ZoneOf(poll[v].seen))]]
    /\ UNCHANGED <<seatRow, refresh, view, inbox, changes, loads>>

(* The web server's fallback when the backend's answer is an error: the    *)
(* ticket types, with the ids of the map.                                  *)
PollFallsBack(v) ==
    /\ poll[v].step \in {"row", "set"}
    /\ poll' = [poll EXCEPT ![v] = [IdlePoll EXCEPT !.step = "answer",
         !.update = [type |-> TypeId, zone |-> MapZoneId, shows |-> MapZoneOf(seatRow)]]]
    /\ UNCHANGED <<seatRow, zoneCache, refresh, view, inbox, changes, loads, missed>>

PollArrives(v) ==
    /\ poll[v].step = "answer"
    /\ view' = [view EXCEPT ![v] = Apply(@, poll[v].update)]
    /\ poll' = [poll EXCEPT ![v] = IdlePoll]
    /\ UNCHANGED <<seatRow, zoneCache, refresh, inbox, changes, loads, missed>>

BroadcastArrives(v) ==
    /\ inbox[v] # <<>>
    /\ view' = [view EXCEPT ![v] = Apply(@, Head(inbox[v]))]
    /\ inbox' = [inbox EXCEPT ![v] = Tail(@)]
    /\ UNCHANGED <<seatRow, zoneCache, refresh, poll, changes, loads, missed>>

(* The page is loaded again: the ticket types, with a new socket. *)
LoadMap(v) ==
    /\ loads < MaxLoads
    /\ loads' = loads + 1
    /\ view' = [view EXCEPT ![v] = MapZoneOf(seatRow)]
    /\ inbox' = [inbox EXCEPT ![v] = <<>>]
    /\ poll' = [poll EXCEPT ![v] = IdlePoll]
    /\ UNCHANGED <<seatRow, zoneCache, refresh, changes, missed>>

PollSteps(v) == PollReadsCache(v) \/ PollReadsRow(v) \/ PollSetsCache(v) \/ PollArrives(v)
RefreshSteps(f) ==
    RefreshReadsRow(f) \/ RefreshReadsCache(f) \/ RefreshDeletes(f) \/ RefreshSets(f)

SeatNext ==
    \/ \E f \in Refresh :
         \/ \E left, reserved \in {-1, 0, 1} : OrderChangesRow(f, left, reserved)
         \/ RefreshSteps(f) \/ RefreshFails(f)
    \/ \E left \in 0..Seats : AdminChangesRow(left)
    \/ ZoneExpires
    \/ \E v \in Viewer : PollSteps(v) \/ PollFallsBack(v) \/ BroadcastArrives(v) \/ LoadMap(v)

(* The browser's timer, the network and Redis' expiry keep going. *)
SeatFairness ==
    /\ WF_seatVars(ZoneExpires)
    /\ \A f \in Refresh : WF_seatVars(RefreshSteps(f))
    /\ \A v \in Viewer : WF_seatVars(PollSteps(v)) /\ WF_seatVars(BroadcastArrives(v))
SeatSpec == SeatInit /\ [][SeatNext]_seatVars /\ SeatFairness

-----------------------------------------------------------------------------
(***************************************************************************)
(* The zone cache shows the row, or a refresh that has still to read it or *)
(* has read what it is now is under way: refreshes that overlap, expiry    *)
(* and polls that fill the cache do not matter, unless one of them stored  *)
(* a row changed meanwhile, failed, or the row was edited.                 *)
(***************************************************************************)
ZoneCacheUnlessMissed ==
    zoneCache \in {NoZone, ZoneOf(seatRow)} \/ missed \/
      \E f \in Refresh :
        \/ refresh[f].step = "row"
        \/ refresh[f].step # "idle" /\ ZoneOf(refresh[f].seen) = ZoneOf(seatRow)

(***************************************************************************)
(* Once sales pause, every map that is open shows what is left: the        *)
(* availability "is updated in real time from the backend" through         *)
(* broadcasts and, should they be missed, the poll every 30 seconds        *)
(* (interactive-seatmap.md).  The ids of the updates are not those of the  *)
(* map, so no broadcast and no poll changes it.                            *)
(***************************************************************************)
MapsCatchUp == <>[](\A v \in Viewer : view[v].left = seatRow.left)
=============================================================================
