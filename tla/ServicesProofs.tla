---------------------------- MODULE ServicesProofs ----------------------------
(***************************************************************************)
(* What holds of the services around the sale for every set of readers,    *)
(* refreshes, polls, schedulings, tabs, requests, zones, files and events: *)
(* the caches are stale, the reminder absent, the session another one's,   *)
(* the seats other than ordered, a guest listed twice and a ticket type    *)
(* deleted only for the reasons the modules name; the waiting room opens   *)
(* to nobody whose turn is over; buckets keep their rate.                  *)
(*                                                                         *)
(* Each property is a part of an invariant that also says what a run under *)
(* way knows of the rows it has read, for as long as nothing overtook it.  *)
(***************************************************************************)
EXTENDS ConcertCache, SeatMap, Reminders, ShopSession, SeatSelection,
        Checkout, WaitingRoom, EventDesk, FileImport, TokenBucket,
        IdempotencyProofs, FiniteSums, FiniteSetTheorems, TLAPS

-----------------------------------------------------------------------------
(* A reader of the cache. *)
Reading == [step : {"idle", "read", "store"}, doc : Document, version : Version]

LEMMA ReadType ==
    /\ IdleReader \in Reading
    /\ \A x \in Reading, d \in Document : [x EXCEPT !.step = "read", !.doc = d] \in Reading
    /\ \A x \in Reading, n \in Version : [x EXCEPT !.step = "store", !.version = n] \in Reading
<1>1. IdleReader \in Reading
  BY CacheAssumption DEF Reading, IdleReader, Version, Document
<1> QED
  BY <1>1 DEF Reading

LEMMA CacheTypeInit == CacheInit => CacheTypeOK
BY CacheAssumption DEF CacheInit, CacheTypeOK, Version, NotCached, IdleReader, Document

LEMMA CacheTypeNext == CacheTypeOK /\ [CacheNext]_cacheVars => CacheTypeOK'
<1> SUFFICES ASSUME CacheTypeOK, [CacheNext]_cacheVars PROVE CacheTypeOK'
  OBVIOUS
<1> USE CacheAssumption
<1>1. CASE UNCHANGED cacheVars
  BY <1>1 DEF CacheTypeOK, cacheVars
<1>2. ASSUME NEW r \in Reader, NEW d \in Document, CacheMiss(r, d) PROVE CacheTypeOK'
  <2>1. [IdleReader EXCEPT !.step = "read", !.doc = d] \in Reading
    BY ReadType
  <2>2. reader' \in [Reader -> Reading] /\ lapses' \in 0..MaxLapses
    BY <1>2, <2>1 DEF CacheTypeOK, CacheMiss, Reading
  <2> QED
    BY <1>2, <2>2 DEF CacheTypeOK, CacheMiss, Reading
<1>3. ASSUME NEW r \in Reader, ReadRows(r) PROVE CacheTypeOK'
  <2>1. reader \in [Reader -> Reading] /\ rows.version \in Version
    BY DEF CacheTypeOK, Reading
  <2>2. [reader[r] EXCEPT !.step = "store", !.version = rows.version] \in Reading
    BY <2>1, ReadType
  <2>3. reader' \in [Reader -> Reading]
    BY <1>3, <2>1, <2>2, ReadType DEF ReadRows
  <2> QED
    BY <1>3, <2>3 DEF CacheTypeOK, ReadRows, Reading
<1>4. ASSUME NEW r \in Reader, StoreDocument(r) PROVE CacheTypeOK'
  <2>1. reader \in [Reader -> Reading]
    BY DEF CacheTypeOK, Reading
  <2>2. reader' \in [Reader -> Reading] /\ reader[r].version \in Version /\ reader[r].doc \in Document
    BY <1>4, <2>1, ReadType DEF StoreDocument, Reading
  <2> QED
    BY <1>4, <2>2 DEF CacheTypeOK, StoreDocument, Reading
<1>5. ASSUME NEW d \in Document, ExpireDocument(d) PROVE CacheTypeOK'
  BY <1>5 DEF CacheTypeOK, ExpireDocument
<1>6. ASSUME NEW w \in Writer, NEW status \in {"PUBLIC", "DRAFT", "GONE"},
             ChangeRows(w, status)
      PROVE  CacheTypeOK'
  BY <1>6 DEF CacheTypeOK, ChangeRows, Version, ToDrop
<1>7. ASSUME NEW w \in Writer, NEW d \in Document, DropDocument(w, d) PROVE CacheTypeOK'
  BY <1>7 DEF CacheTypeOK, DropDocument
<1>8. CASE ChangeQuietly
  BY <1>8 DEF CacheTypeOK, ChangeQuietly, Version
<1> QED
  BY <1>1, <1>2, <1>3, <1>4, <1>5, <1>6, <1>7, <1>8 DEF CacheNext

LEMMA StaleNext ==
    CacheTypeOK /\ StaleUnlessMissed /\ [CacheNext]_cacheVars => StaleUnlessMissed'
<1> SUFFICES ASSUME CacheTypeOK, StaleUnlessMissed, [CacheNext]_cacheVars,
                    NEW e \in Document, e \notin stranded',
                    cached'[e] \notin {NotCached, rows'.version}
             PROVE  \E w \in Writer : e \in dropping'[w]
  BY DEF StaleUnlessMissed, NotCached
<1> USE DEF CacheTypeOK
<1>1. CASE UNCHANGED cacheVars
  BY <1>1 DEF StaleUnlessMissed, cacheVars
<1>2. ASSUME NEW r \in Reader, NEW d \in Document, CacheMiss(r, d)
      PROVE  \E w \in Writer : e \in dropping'[w]
  BY <1>2 DEF CacheMiss, StaleUnlessMissed
<1>3. ASSUME NEW r \in Reader, ReadRows(r) PROVE \E w \in Writer : e \in dropping'[w]
  BY <1>3 DEF ReadRows, StaleUnlessMissed
<1>4. ASSUME NEW r \in Reader, StoreDocument(r) PROVE \E w \in Writer : e \in dropping'[w]
  BY <1>4 DEF StoreDocument, StaleUnlessMissed
<1>5. ASSUME NEW d \in Document, ExpireDocument(d) PROVE \E w \in Writer : e \in dropping'[w]
  BY <1>5 DEF ExpireDocument, StaleUnlessMissed
<1>6. ASSUME NEW w \in Writer, NEW status \in {"PUBLIC", "DRAFT", "GONE"},
             ChangeRows(w, status)
      PROVE  \E x \in Writer : e \in dropping'[x]
  BY <1>6 DEF ChangeRows, ToDrop
<1>7. ASSUME NEW w \in Writer, NEW d \in Document, DropDocument(w, d)
      PROVE  \E x \in Writer : e \in dropping'[x]
  BY <1>7 DEF DropDocument, StaleUnlessMissed
<1>8. CASE ChangeQuietly
  BY <1>8 DEF ChangeQuietly
<1> QED
  BY <1>1, <1>2, <1>3, <1>4, <1>5, <1>6, <1>7, <1>8 DEF CacheNext

(***************************************************************************)
(* Document caches of concerts (ConcertCache): a document older than the   *)
(* rows is in the cache only while the invalidation that deletes it is     *)
(* under way, for any number of readers, changes and expiries, unless a    *)
(* reader stored what a change had overtaken, a DEL failed or the change   *)
(* deletes nothing.  It is inductive together with the types.              *)
(***************************************************************************)
THEOREM StaleHolds == CacheSpec => [](CacheTypeOK /\ StaleUnlessMissed)
<1>1. CacheInit => StaleUnlessMissed
  BY DEF CacheInit, StaleUnlessMissed
<1> QED
  BY <1>1, CacheTypeInit, CacheTypeNext, StaleNext, PTL DEF CacheSpec

-----------------------------------------------------------------------------
Refreshing == [step : {"idle", "row", "old", "del", "set"}, seen : SeatRow,
               old : Zone \cup {NoZone}]
Polling == [step : {"idle", "row", "set", "answer"}, seen : SeatRow,
            update : Update \cup {NoUpdate}]

(***************************************************************************)
(* The row holds no more reservations than it has had changes.             *)
(***************************************************************************)
SeatInv == SeatTypeOK /\ seatRow.reserved <= changes

LEMMA ZoneType ==
    \A row \in SeatRow : ZoneOf(row) \in Zone /\ MapZoneOf(row) \in Zone
BY SeatAssumption DEF SeatRow, Zone, ZoneOf, MapZoneOf

LEMMA RefreshType ==
    /\ IdleRefresh \in Refreshing
    /\ \A x \in Refreshing : /\ [x EXCEPT !.step = "row"] \in Refreshing
                             /\ [x EXCEPT !.step = "set"] \in Refreshing
    /\ \A x \in Refreshing, z \in Zone \cup {NoZone} :
         [x EXCEPT !.step = "del", !.old = z] \in Refreshing
<1>1. IdleRefresh \in Refreshing
  BY SeatAssumption DEF IdleRefresh, Refreshing, NoRow, SeatRow
<1> QED
  BY <1>1 DEF Refreshing

LEMMA PollType ==
    /\ IdlePoll \in Polling
    /\ \A x \in Polling : [x EXCEPT !.step = "row"] \in Polling
    /\ \A x \in Polling, u \in Update : [x EXCEPT !.step = "answer", !.update = u] \in Polling
    /\ \A x \in Polling, row \in SeatRow : [x EXCEPT !.step = "set", !.seen = row] \in Polling
<1>1. IdlePoll \in Polling
  BY SeatAssumption DEF IdlePoll, Polling, NoRow, SeatRow
<1> QED
  BY <1>1 DEF Polling

LEMMA UpdateType ==
    \A z \in Zone : /\ PollUpdate(z) \in Update
                    /\ [type |-> TypeId, zone |-> TypeId, shows |-> z] \in Update
                    /\ [type |-> TypeId, zone |-> MapZoneId, shows |-> z] \in Update
                    /\ \A u \in Update \cup {NoUpdate} : Apply(z, u) \in Zone
BY DEF PollUpdate, Update, NoUpdate, Apply, MapZoneId, NoType, TypeId

LEMMA SeatTypeInit == SeatInit => SeatInv
<1> SUFFICES ASSUME SeatInit PROVE SeatInv
  OBVIOUS
<1>1. seatRow \in SeatRow /\ seatRow.reserved = 0 /\ changes = 0
  BY SeatAssumption DEF SeatInit, SeatRow
<1>2. \A v \in Viewer : MapZoneOf(seatRow) \in Zone
  BY <1>1, ZoneType
<1>3. inbox \in [Viewer -> Seq(Update)]
  <2>1. <<>> \in Seq(Update)
    OBVIOUS
  <2> QED
    BY <2>1 DEF SeatInit
<1>4. /\ refresh \in [Refresh -> Refreshing] /\ poll \in [Viewer -> Polling]
      /\ view \in [Viewer -> Zone]
  BY <1>2, RefreshType, PollType DEF SeatInit
<1>5. /\ zoneCache \in Zone \cup {NoZone} /\ missed \in BOOLEAN
      /\ changes \in 0..MaxChanges /\ loads \in 0..MaxLoads
  <2>1. zoneCache = NoZone /\ missed = FALSE /\ changes = 0 /\ loads = 0
    BY DEF SeatInit
  <2>2. missed \in BOOLEAN
    BY <2>1
  <2>3. changes \in 0..MaxChanges /\ loads \in 0..MaxLoads
    BY <2>1, SeatAssumption
  <2> QED
    BY <2>1, <2>2, <2>3
<1> QED
  BY <1>1, <1>3, <1>4, <1>5 DEF SeatInv, SeatTypeOK, Refreshing, Polling

LEMMA RefreshNextType ==
    ASSUME SeatInv, NEW f \in Refresh, RefreshSteps(f) \/ RefreshFails(f)
    PROVE  SeatInv'
<1>1. refresh \in [Refresh -> Refreshing] /\ seatRow \in SeatRow
      /\ zoneCache \in Zone \cup {NoZone}
  BY DEF SeatInv, SeatTypeOK, Refreshing
<1>2. refresh[f].seen \in SeatRow /\ ZoneOf(refresh[f].seen) \in Zone
  BY <1>1, ZoneType DEF Refreshing
<1>3. refresh' \in [Refresh -> Refreshing]
  <2>1. CASE RefreshReadsRow(f)
    <3>1. [step |-> "old", seen |-> seatRow, old |-> NoZone] \in Refreshing
      BY <1>1 DEF Refreshing
    <3> QED
      BY <1>1, <2>1, <3>1 DEF RefreshReadsRow
  <2>2. CASE RefreshReadsCache(f)
    <3>1. refresh' = [refresh EXCEPT ![f] = [refresh[f] EXCEPT !.step = "del", !.old = zoneCache]]
      BY <1>1, <2>2 DEF RefreshReadsCache
    <3> QED
      BY <1>1, <3>1, RefreshType
  <2>3. CASE RefreshDeletes(f)
    <3>1. refresh' = [refresh EXCEPT ![f] = [refresh[f] EXCEPT !.step = "set"]]
      BY <1>1, <2>3 DEF RefreshDeletes
    <3> QED
      BY <1>1, <3>1, RefreshType
  <2>4. CASE RefreshSets(f) \/ RefreshFails(f)
    BY <1>1, <2>4, RefreshType DEF RefreshSets, RefreshFails
  <2> QED
    BY <2>1, <2>2, <2>3, <2>4 DEF RefreshSteps
<1>4. zoneCache' \in Zone \cup {NoZone} /\ missed' \in BOOLEAN
  BY <1>2 DEF SeatInv, SeatTypeOK, RefreshSteps, RefreshReadsRow, RefreshReadsCache,
              RefreshDeletes, RefreshSets, RefreshFails, FillCache
<1>5. inbox' \in [Viewer -> Seq(Update)]
  <2> DEFINE u == [type |-> TypeId, zone |-> TypeId, shows |-> ZoneOf(refresh[f].seen)]
  <2>1. u \in Update /\ inbox \in [Viewer -> Seq(Update)]
    BY <1>2, UpdateType DEF SeatInv, SeatTypeOK
  <2>2. inbox' = inbox \/ \E tell \in BOOLEAN :
          inbox' = [w \in Viewer |-> IF tell THEN Append(inbox[w], u) ELSE inbox[w]]
    BY DEF RefreshSteps, RefreshReadsRow, RefreshReadsCache, RefreshDeletes, RefreshSets,
           RefreshFails
  <2> HIDE DEF u
  <2>3. \A w \in Viewer : Append(inbox[w], u) \in Seq(Update)
    BY <2>1
  <2> QED
    BY <2>1, <2>2, <2>3
<1>6. UNCHANGED <<seatRow, poll, view, changes, loads>>
  BY DEF RefreshSteps, RefreshReadsRow, RefreshReadsCache, RefreshDeletes, RefreshSets,
         RefreshFails
<1> QED
  BY <1>3, <1>4, <1>5, <1>6 DEF SeatInv, SeatTypeOK, Refreshing

LEMMA PollNextType ==
    ASSUME SeatInv, NEW v \in Viewer,
           PollSteps(v) \/ PollFallsBack(v) \/ BroadcastArrives(v) \/ LoadMap(v)
    PROVE  SeatInv'
<1>1. poll \in [Viewer -> Polling] /\ seatRow \in SeatRow /\ view \in [Viewer -> Zone]
      /\ zoneCache \in Zone \cup {NoZone} /\ inbox \in [Viewer -> Seq(Update)]
  BY DEF SeatInv, SeatTypeOK, Polling
<1>2. poll[v].seen \in SeatRow /\ ZoneOf(poll[v].seen) \in Zone /\ MapZoneOf(seatRow) \in Zone
      /\ poll[v].update \in Update \cup {NoUpdate}
  BY <1>1, ZoneType DEF Polling
<1>3. poll' \in [Viewer -> Polling]
  <2>1. CASE PollReadsCache(v)
    <3>1. [IdlePoll EXCEPT !.step = "row"] \in Polling
      BY PollType
    <3>2. ASSUME zoneCache # NoZone
          PROVE  [IdlePoll EXCEPT !.step = "answer", !.update = PollUpdate(zoneCache)] \in Polling
      <4>1. PollUpdate(zoneCache) \in Update
        BY <1>1, <3>2, UpdateType
      <4> QED
        BY <4>1, PollType
    <3> QED
      BY <1>1, <2>1, <3>1, <3>2 DEF PollReadsCache
  <2>2. CASE PollReadsRow(v)
    <3>1. [IdlePoll EXCEPT !.step = "set", !.seen = seatRow] \in Polling
      BY <1>1, PollType
    <3> QED
      BY <1>1, <2>2, <3>1 DEF PollReadsRow
  <2>3. CASE PollSetsCache(v)
    <3>1. PollUpdate(ZoneOf(poll[v].seen)) \in Update
      BY <1>2, UpdateType
    <3>2. [IdlePoll EXCEPT !.step = "answer", !.update = PollUpdate(ZoneOf(poll[v].seen))]
            \in Polling
      BY <3>1, PollType
    <3> QED
      BY <1>1, <2>3, <3>2 DEF PollSetsCache
  <2>4. CASE PollFallsBack(v)
    <3>1. [type |-> TypeId, zone |-> MapZoneId, shows |-> MapZoneOf(seatRow)] \in Update
      BY <1>2, UpdateType
    <3>2. [IdlePoll EXCEPT !.step = "answer",
             !.update = [type |-> TypeId, zone |-> MapZoneId, shows |-> MapZoneOf(seatRow)]]
            \in Polling
      BY <3>1, PollType
    <3> QED
      BY <1>1, <2>4, <3>2 DEF PollFallsBack
  <2>5. CASE PollArrives(v) \/ LoadMap(v) \/ BroadcastArrives(v)
    BY <1>1, <2>5, PollType DEF PollArrives, LoadMap, BroadcastArrives
  <2> QED
    BY <2>1, <2>2, <2>3, <2>4, <2>5 DEF PollSteps
<1>4. view' \in [Viewer -> Zone] /\ inbox' \in [Viewer -> Seq(Update)]
  <2>1. inbox[v] # <<>> => Head(inbox[v]) \in Update /\ Tail(inbox[v]) \in Seq(Update)
    BY <1>1
  <2>2. Apply(view[v], poll[v].update) \in Zone
        /\ (inbox[v] # <<>> => Apply(view[v], Head(inbox[v])) \in Zone)
    BY <1>1, <1>2, <2>1, UpdateType
  <2>3. view' \in [Viewer -> Zone]
    BY <1>1, <1>2, <2>2
    DEF PollSteps, PollReadsCache, PollReadsRow, PollSetsCache, PollArrives, PollFallsBack,
        BroadcastArrives, LoadMap
  <2>4. \/ inbox' = inbox \/ inbox' = [inbox EXCEPT ![v] = <<>>]
        \/ inbox[v] # <<>> /\ inbox' = [inbox EXCEPT ![v] = Tail(@)]
    BY DEF PollSteps, PollReadsCache, PollReadsRow, PollSetsCache, PollArrives, PollFallsBack,
           BroadcastArrives, LoadMap
  <2>5. <<>> \in Seq(Update)
    OBVIOUS
  <2> QED
    BY <1>1, <2>1, <2>3, <2>4, <2>5
<1>5. zoneCache' \in Zone \cup {NoZone} /\ missed' \in BOOLEAN /\ loads' \in 0..MaxLoads
  <2>1. loads' \in 0..MaxLoads
    <3>1. loads \in 0..MaxLoads
      BY DEF SeatInv, SeatTypeOK
    <3>2. loads' = loads \/ (loads < MaxLoads /\ loads' = loads + 1)
      BY DEF PollSteps, PollReadsCache, PollReadsRow, PollSetsCache, PollArrives,
             PollFallsBack, BroadcastArrives, LoadMap
    <3> QED
      BY <3>1, <3>2, SeatAssumption
  <2>2. \/ PollSetsCache(v)
        \/ UNCHANGED <<zoneCache, missed>>
    BY DEF PollSteps, PollReadsCache, PollReadsRow, PollSetsCache, PollArrives,
           PollFallsBack, BroadcastArrives, LoadMap
  <2> QED
    BY <1>2, <2>1, <2>2 DEF SeatInv, SeatTypeOK, PollSetsCache, FillCache
<1>6. UNCHANGED <<seatRow, refresh, changes>>
  BY DEF PollSteps, PollReadsCache, PollReadsRow, PollSetsCache, PollArrives, PollFallsBack,
         BroadcastArrives, LoadMap
<1>7. /\ seatRow' \in SeatRow /\ changes' \in 0..MaxChanges /\ seatRow'.reserved <= changes'
      /\ refresh' \in [Refresh -> Refreshing]
  BY <1>6 DEF SeatInv, SeatTypeOK, Refreshing
<1> QED
  BY <1>3, <1>4, <1>5, <1>7 DEF SeatInv, SeatTypeOK, Refreshing, Polling

LEMMA SeatTypeNext == SeatInv /\ [SeatNext]_seatVars => SeatInv'
<1> SUFFICES ASSUME SeatInv, [SeatNext]_seatVars PROVE SeatInv'
  OBVIOUS
<1> USE SeatAssumption
<1>1. CASE UNCHANGED seatVars
  BY <1>1 DEF SeatInv, SeatTypeOK, seatVars
<1>2. ASSUME NEW f \in Refresh, NEW l \in {-1, 0, 1}, NEW v \in {-1, 0, 1},
             OrderChangesRow(f, l, v)
      PROVE  SeatInv'
  <2>1. refresh \in [Refresh -> Refreshing] /\ seatRow \in SeatRow
        /\ changes \in 0..MaxChanges /\ seatRow.reserved <= changes
    BY DEF SeatInv, SeatTypeOK, Refreshing
  <2>2. seatRow.left \in Nat /\ seatRow.reserved \in Nat
    BY <2>1 DEF SeatRow
  <2>3. changes' \in 0..MaxChanges /\ changes' = changes + 1
    BY <1>2, <2>1 DEF OrderChangesRow
  <2>4. v <= 1 /\ seatRow.reserved + v >= 0
        /\ seatRow' = [left |-> seatRow.left + l, reserved |-> seatRow.reserved + v]
        /\ seatRow.left + l \in 0..Seats
    BY <1>2 DEF OrderChangesRow
  <2>5. seatRow' \in SeatRow /\ seatRow'.reserved <= changes'
    <3>1. seatRow.reserved + v <= changes' /\ seatRow.reserved + v \in 0..MaxChanges
      BY <2>1, <2>2, <2>3, <2>4
    <3> QED
      BY <2>4, <3>1 DEF SeatRow
  <2>6. refresh' \in [Refresh -> Refreshing]
    <3>1. [IdleRefresh EXCEPT !.step = "row"] \in Refreshing
      BY RefreshType
    <3> QED
      BY <1>2, <2>1, <3>1 DEF OrderChangesRow
  <2> QED
    BY <1>2, <2>3, <2>5, <2>6 DEF OrderChangesRow, SeatInv, SeatTypeOK, Refreshing
<1>3. ASSUME NEW l \in 0..Seats, AdminChangesRow(l) PROVE SeatInv'
  <2>1. seatRow \in SeatRow /\ changes \in 0..MaxChanges /\ seatRow.reserved <= changes
    BY DEF SeatInv, SeatTypeOK
  <2>2. changes' \in 0..MaxChanges /\ changes' = changes + 1 /\ seatRow.reserved \in Nat
    BY <1>3, <2>1 DEF AdminChangesRow, SeatRow
  <2>3. seatRow' \in SeatRow /\ seatRow'.reserved = seatRow.reserved
    BY <1>3, <2>1 DEF AdminChangesRow, SeatRow
  <2> QED
    BY <1>3, <2>1, <2>2, <2>3 DEF AdminChangesRow, SeatInv, SeatTypeOK
<1>4. CASE ZoneExpires
  BY <1>4 DEF ZoneExpires, SeatInv, SeatTypeOK
<1> QED
  BY <1>1, <1>2, <1>3, <1>4, RefreshNextType, PollNextType DEF SeatNext

LEMMA ZoneNext ==
    SeatInv /\ ZoneCacheUnlessMissed /\ [SeatNext]_seatVars => ZoneCacheUnlessMissed'
<1> SUFFICES ASSUME SeatInv, ZoneCacheUnlessMissed, [SeatNext]_seatVars
             PROVE  ZoneCacheUnlessMissed'
  OBVIOUS
<1>1. refresh \in [Refresh -> Refreshing]
  BY DEF SeatInv, SeatTypeOK, Refreshing
<1>2. CASE UNCHANGED seatVars
  BY <1>2 DEF ZoneCacheUnlessMissed, seatVars
<1>3. ASSUME NEW f \in Refresh, NEW l \in {-1, 0, 1}, NEW v \in {-1, 0, 1},
             OrderChangesRow(f, l, v)
      PROVE  ZoneCacheUnlessMissed'
  <2>1. [IdleRefresh EXCEPT !.step = "row"].step = "row"
    BY RefreshType DEF Refreshing
  <2>2. refresh'[f].step = "row"
    BY <1>1, <1>3, <2>1 DEF OrderChangesRow
  <2> QED
    BY <2>2 DEF ZoneCacheUnlessMissed
<1>4. ASSUME NEW l \in 0..Seats, AdminChangesRow(l) PROVE ZoneCacheUnlessMissed'
  BY <1>4 DEF AdminChangesRow, ZoneCacheUnlessMissed
<1>5. CASE ZoneExpires
  BY <1>5 DEF ZoneExpires, ZoneCacheUnlessMissed
<1>6. ASSUME NEW f \in Refresh, RefreshReadsRow(f) PROVE ZoneCacheUnlessMissed'
  <2>1. refresh'[f].step = "old" /\ refresh'[f].seen = seatRow' 
    BY <1>1, <1>6 DEF RefreshReadsRow
  <2> QED
    BY <2>1 DEF ZoneCacheUnlessMissed
<1>7. ASSUME NEW f \in Refresh, RefreshReadsCache(f) PROVE ZoneCacheUnlessMissed'
  <2>1. /\ \A g \in Refresh \ {f} : refresh'[g] = refresh[g]
        /\ refresh[f].step = "old" /\ refresh'[f].step = "del"
        /\ refresh'[f].seen = refresh[f].seen
    BY <1>1, <1>7 DEF RefreshReadsCache, Refreshing
  <2>2. UNCHANGED <<seatRow, zoneCache, missed>>
    BY <1>7 DEF RefreshReadsCache
  <2> QED
    BY <2>1, <2>2 DEF ZoneCacheUnlessMissed
<1>8. ASSUME NEW f \in Refresh, RefreshDeletes(f) PROVE ZoneCacheUnlessMissed'
  BY <1>8 DEF RefreshDeletes, ZoneCacheUnlessMissed
<1>9. ASSUME NEW f \in Refresh, RefreshSets(f) PROVE ZoneCacheUnlessMissed'
  BY <1>9 DEF RefreshSets, FillCache, ZoneCacheUnlessMissed
<1>10. ASSUME NEW f \in Refresh, RefreshFails(f) PROVE ZoneCacheUnlessMissed'
  BY <1>10 DEF RefreshFails, ZoneCacheUnlessMissed
<1>11. ASSUME NEW v \in Viewer, PollSetsCache(v) PROVE ZoneCacheUnlessMissed'
  BY <1>11 DEF PollSetsCache, FillCache, ZoneCacheUnlessMissed
<1>12. ASSUME NEW v \in Viewer,
              \/ PollReadsCache(v) \/ PollReadsRow(v) \/ PollArrives(v)
              \/ PollFallsBack(v) \/ BroadcastArrives(v) \/ LoadMap(v)
       PROVE  ZoneCacheUnlessMissed'
  <2>1. UNCHANGED <<seatRow, zoneCache, refresh, missed>>
    BY <1>12 DEF PollReadsCache, PollReadsRow, PollArrives, PollFallsBack, BroadcastArrives,
                 LoadMap
  <2> QED
    BY <2>1 DEF ZoneCacheUnlessMissed
<1> QED
  BY <1>2, <1>3, <1>4, <1>5, <1>6, <1>7, <1>8, <1>9, <1>10, <1>11, <1>12
  DEF SeatNext, RefreshSteps, PollSteps

(***************************************************************************)
(* Zone cache of the seat map (SeatMap): whatever refreshes and polls      *)
(* overlap, the cached zone shows the row, or a refresh that will store    *)
(* what the row is now is under way, unless one of them stored a row       *)
(* changed meanwhile, failed, or the row was edited.                       *)
(***************************************************************************)
THEOREM ZoneCacheHolds == SeatSpec => [](SeatTypeOK /\ ZoneCacheUnlessMissed)
<1>1. SeatInit => ZoneCacheUnlessMissed
  BY DEF SeatInit, ZoneCacheUnlessMissed
<1>2. SeatInv => SeatTypeOK
  BY DEF SeatInv
<1> QED
  BY <1>1, <1>2, SeatTypeInit, SeatTypeNext, ZoneNext, PTL DEF SeatSpec

-----------------------------------------------------------------------------
Scheduling == [step : {"idle", "write", "read", "cancel", "look", "remove", "clear", "add",
                       "store"},
               at : Nat, late : BOOLEAN]
Job == [state : {"none", "delayed", "active", "failed"}, due : Nat, made : 0..Attempts]

Patch == [gives : SUBSET Field, new : RowSeen, old : RowSeen]

LEMMA NoPatchType == NoPatch \in Patch /\ NoPatch.gives = {}
BY DEF NoPatch, Patch, RowSeen, ConcertStatus

(***************************************************************************)
(* A job that will run has an attempt left, the worker sends batches of    *)
(* the active job only, and a PATCH gives a time a concert may have.       *)
(***************************************************************************)
JobInv ==
    /\ ReminderTypeOK
    /\ job.state \in {"delayed", "active"} => job.made < Attempts
    /\ run > 0 => job.state = "active"
    /\ \A s \in Sched : "at" \in patch[s].gives => patch[s].new.at \in RemindAt

(***************************************************************************)
(* What a run of scheduleReminder knows that nothing has met: the row as   *)
(* it read it, no job once cancelReminder is through, its own job once add *)
(* is.                                                                     *)
(***************************************************************************)
Knows(x) ==
    /\ x.step \notin {"idle", "write", "read"} =>
         concert.status = "PUBLISHED" /\ x.at = concert.at /\ (x.late => x.at <= now)
    /\ x.step \in {"clear", "add"} => job.state = "none"
    /\ x.step = "store" => job.state = "delayed" /\ job.due = x.at

BeforeLook == \A s \in Sched : sched[s].step \in {"idle", "write", "read", "cancel"}

Calm ==
    /\ \A r, s \in Busy : r = s
    /\ job.state # "failed"
    /\ job.state = "active" => Busy = {}
    /\ \A s \in Sched : Knows(sched[s])
    /\ BeforeLook /\ job.state = "delayed" => concert.jobId
    /\ ReminderOnTime

CalmUnlessUpset == ~ upset => Calm

LEMMA SchedulingType ==
    /\ Idle \in Scheduling /\ Idle.step = "idle"
    /\ \A t \in {"write", "read"} :
         LET y == [Idle EXCEPT !.step = t] IN y \in Scheduling /\ y.step = t
    /\ \A x \in Scheduling, t \in {"look", "remove", "clear", "add", "store"} :
         LET y == [x EXCEPT !.step = t]
         IN  y \in Scheduling /\ y.step = t /\ y.at = x.at /\ y.late = x.late
<1>1. Idle \in Scheduling /\ Idle.step = "idle"
  BY DEF Idle, Scheduling
<1>2. \A x \in Scheduling, t \in {"write", "read"} :
        LET y == [x EXCEPT !.step = t] IN y \in Scheduling /\ y.step = t
  BY DEF Scheduling
<1>3. ASSUME NEW x \in Scheduling, NEW t \in {"look", "remove", "clear", "add", "store"}
      PROVE  LET y == [x EXCEPT !.step = t]
             IN  y \in Scheduling /\ y.step = t /\ y.at = x.at /\ y.late = x.late
  BY DEF Scheduling
<1> QED
  BY <1>1, <1>2, <1>3

LEMMA JobType ==
    /\ NoJob \in Job /\ NoJob.state = "none"
    /\ \A x \in Job, t \in {"delayed", "active", "failed"}, n \in 0..Attempts :
         LET y == [x EXCEPT !.state = t, !.made = n]
         IN  y \in Job /\ y.state = t /\ y.due = x.due /\ y.made = n
    /\ \A x \in Job :
         LET y == [x EXCEPT !.state = "active"]
         IN  y \in Job /\ y.state = "active" /\ y.due = x.due /\ y.made = x.made
    /\ \A n \in Nat :
         LET y == [state |-> "delayed", due |-> n, made |-> 0]
         IN  y \in Job /\ y.state = "delayed" /\ y.due = n /\ y.made = 0
<1>1. NoJob \in Job /\ NoJob.state = "none"
  BY ReminderAssumption DEF Job, NoJob
<1>2. ASSUME NEW x \in Job, NEW t \in {"delayed", "active", "failed"}, NEW n \in 0..Attempts
      PROVE  LET y == [x EXCEPT !.state = t, !.made = n]
             IN  y \in Job /\ y.state = t /\ y.due = x.due /\ y.made = n
  BY DEF Job
<1>3. ASSUME NEW x \in Job
      PROVE  LET y == [x EXCEPT !.state = "active"]
             IN  y \in Job /\ y.state = "active" /\ y.due = x.due /\ y.made = x.made
  BY DEF Job
<1>4. ASSUME NEW n \in Nat
      PROVE  LET y == [state |-> "delayed", due |-> n, made |-> 0]
             IN  y \in Job /\ y.state = "delayed" /\ y.due = n /\ y.made = 0
  BY ReminderAssumption DEF Job
<1> QED
  BY <1>1, <1>2, <1>3, <1>4

(***************************************************************************)
(* What each step of scheduleReminder does to its own run and to others.   *)
(***************************************************************************)
LEMMA ProceedOne ==
    ASSUME sched \in [Sched -> Scheduling], NEW s \in Sched,
           NEW t \in {"look", "remove", "clear", "add", "store"}, Proceed(s, t)
    PROVE  /\ sched' \in [Sched -> Scheduling]
           /\ sched'[s].step = t /\ sched'[s].at = sched[s].at /\ sched'[s].late = sched[s].late
           /\ \A r \in Sched \ {s} : sched'[r] = sched[r]
<1>1. sched' = [sched EXCEPT ![s] = [sched[s] EXCEPT !.step = t]]
  BY DEF Proceed
<1> DEFINE y == [sched[s] EXCEPT !.step = t]
<1>2. y \in Scheduling /\ y.step = t /\ y.at = sched[s].at /\ y.late = sched[s].late
  <2>1. sched[s] \in Scheduling
    OBVIOUS
  <2> QED
    BY ONLY <2>1, t \in {"look", "remove", "clear", "add", "store"} DEF Scheduling
<1> HIDE DEF y
<1> QED
  BY <1>1, <1>2 DEF y

LEMMA EndsOne ==
    ASSUME sched \in [Sched -> Scheduling], NEW s \in Sched, EndsAt(s)
    PROVE  /\ sched' \in [Sched -> Scheduling]
           /\ sched'[s].step = "idle"
           /\ \A r \in Sched \ {s} : sched'[r] = sched[r]
BY SchedulingType DEF EndsAt

LEMMA AfterOne ==
    ASSUME sched \in [Sched -> Scheduling], NEW s \in Sched, AfterCancel(s)
    PROVE  /\ sched' \in [Sched -> Scheduling]
           /\ \/ sched[s].late /\ sched'[s].step = "idle"
              \/ /\ ~ sched[s].late
                 /\ sched'[s].step = "add" /\ sched'[s].at = sched[s].at
                 /\ sched'[s].late = sched[s].late
           /\ \A r \in Sched \ {s} : sched'[r] = sched[r]
BY ProceedOne, EndsOne DEF AfterCancel

LEMMA JobInvInit == ReminderInit => JobInv
<1> SUFFICES ASSUME ReminderInit PROVE JobInv
  OBVIOUS
<1>1. job = NoJob /\ run = 0 /\ now = 0 /\ updates = 0 /\ upset = FALSE
  BY DEF ReminderInit
<1>2. PICK a \in RemindAt, st \in {"DRAFT", "PUBLISHED"}, s \in Sched :
        /\ concert = [status |-> st, at |-> a, jobId |-> FALSE]
        /\ sched = [r \in Sched |-> IF r = s /\ st = "PUBLISHED"
                                      THEN [Idle EXCEPT !.step = "read"] ELSE Idle]
  BY DEF ReminderInit
<1>3. sched \in [Sched -> Scheduling] /\ job \in Job /\ job.state = "none"
  BY <1>1, <1>2, SchedulingType, JobType
<1>4. concert \in [status : ConcertStatus, at : RemindAt, jobId : BOOLEAN]
  BY <1>2 DEF ConcertStatus
<1>5. run \in 0..Batch /\ now \in 0..MaxNow /\ updates \in 0..MaxUpdates
  BY <1>1, ReminderAssumption
<1>6. upset \in BOOLEAN
  BY <1>1
<1>7. patch \in [Sched -> Patch] /\ \A r \in Sched : patch[r].gives = {}
  BY NoPatchType DEF ReminderInit
<1> QED
  BY <1>1, <1>3, <1>4, <1>5, <1>6, <1>7 DEF JobInv, ReminderTypeOK, Scheduling, Job, Patch

LEMMA CalmInit == ReminderInit => CalmUnlessUpset
<1> SUFFICES ASSUME ReminderInit PROVE Calm
  BY DEF CalmUnlessUpset
<1>1. job.state = "none" /\ now = 0
  BY JobType DEF ReminderInit
<1>2. PICK a \in RemindAt, st \in {"DRAFT", "PUBLISHED"}, s \in Sched :
        /\ concert = [status |-> st, at |-> a, jobId |-> FALSE]
        /\ sched = [r \in Sched |-> IF r = s /\ st = "PUBLISHED"
                                      THEN [Idle EXCEPT !.step = "read"] ELSE Idle]
  BY DEF ReminderInit
<1>3. /\ sched[s].step = (IF st = "PUBLISHED" THEN "read" ELSE "idle")
      /\ \A r \in Sched \ {s} : sched[r].step = "idle"
  BY <1>2, SchedulingType
<1>4. concert.status = st
  BY <1>2
<1>5. ReminderOnTime
  BY <1>3, <1>4 DEF ReminderOnTime, Busy, Scheduled
<1> QED
  BY <1>1, <1>3, <1>5 DEF Calm, Busy, Scheduled, Knows

-----------------------------------------------------------------------------
(***************************************************************************)
(* A PATCH before it schedules is no run of scheduleReminder: only what    *)
(* others know of the row can suffer from it, when it changes.             *)
(***************************************************************************)
LEMMA QuietStep ==
    ASSUME Calm, ~ upset, NEW s \in Sched, sched[s].step \in {"idle", "write"},
           sched'[s].step \in {"idle", "write"}, \A r \in Sched \ {s} : sched'[r] = sched[r],
           concert'.status = concert.status, concert'.at = concert.at,
           concert'.jobId = concert.jobId, UNCHANGED <<job, now>>
    PROVE  Calm'
<1>1. Busy' = Busy
  BY DEF Busy, Scheduled
<1>2. ReminderOnTime'
  BY <1>1 DEF Calm, ReminderOnTime
<1>3. \A r \in Sched : Knows(sched[r])'
  BY DEF Calm, Knows
<1>4. BeforeLook' <=> BeforeLook
  BY DEF BeforeLook
<1> QED
  BY <1>1, <1>2, <1>3, <1>4 DEF Calm

LEMMA UpdateStep ==
    ASSUME JobInv, CalmUnlessUpset, NEW s \in Sched, NEW gives \in SUBSET Field,
           NEW st \in ConcertStatus, NEW a \in RemindAt, StartUpdate(s, gives, st, a)
    PROVE  JobInv' /\ CalmUnlessUpset'
<1> USE ReminderAssumption
<1>1. /\ sched \in [Sched -> Scheduling] /\ patch \in [Sched -> Patch]
      /\ concert \in [status : ConcertStatus, at : RemindAt, jobId : BOOLEAN]
      /\ updates \in 0..MaxUpdates /\ sched[s].step = "idle"
  BY DEF JobInv, ReminderTypeOK, Scheduling, Patch, StartUpdate
<1>2. /\ sched' \in [Sched -> Scheduling] /\ sched'[s].step = "write"
      /\ \A r \in Sched \ {s} : sched'[r] = sched[r]
  BY <1>1, SchedulingType DEF StartUpdate
<1>3. UNCHANGED <<concert, job, run, now, upset>> /\ updates' \in 0..MaxUpdates
  BY <1>1 DEF StartUpdate
<1>4. /\ patch' \in [Sched -> Patch]
      /\ \A r \in Sched : "at" \in patch'[r].gives => patch'[r].new.at \in RemindAt
  <2>1. [status |-> st, at |-> a] \in RowSeen
        /\ [status |-> concert.status, at |-> concert.at] \in RowSeen
    BY <1>1 DEF RowSeen
  <2> QED
    BY <1>1, <2>1 DEF StartUpdate, Patch, JobInv
<1>5. JobInv'
  BY <1>2, <1>3, <1>4 DEF JobInv, ReminderTypeOK, Scheduling, Patch
<1>6. ~ upset /\ Calm => Calm'
  BY <1>1, <1>2, <1>3, QuietStep
<1> QED
  BY <1>3, <1>5, <1>6 DEF CalmUnlessUpset

LEMMA UpdateEnds ==
    ASSUME JobInv, CalmUnlessUpset, NEW s \in Sched, UpdateFails(s)
    PROVE  JobInv' /\ CalmUnlessUpset'
<1>1. /\ sched \in [Sched -> Scheduling] /\ patch \in [Sched -> Patch]
      /\ sched[s].step = "write"
  BY DEF JobInv, ReminderTypeOK, Scheduling, Patch, UpdateFails
<1>2. /\ sched' \in [Sched -> Scheduling] /\ sched'[s].step = "idle"
      /\ \A r \in Sched \ {s} : sched'[r] = sched[r]
  BY <1>1, SchedulingType DEF UpdateFails
<1>3. /\ UNCHANGED <<concert, job, run, now, updates, upset>> /\ patch' \in [Sched -> Patch]
      /\ \A r \in Sched : "at" \in patch'[r].gives => patch'[r].new.at \in RemindAt
  BY <1>1, NoPatchType DEF UpdateFails, JobInv
<1>4. JobInv'
  BY <1>2, <1>3 DEF JobInv, ReminderTypeOK, Scheduling, Patch
<1>5. ~ upset /\ Calm => Calm'
  BY <1>1, <1>2, <1>3, QuietStep
<1> QED
  BY <1>3, <1>4, <1>5 DEF CalmUnlessUpset

LEMMA WriteStep ==
    ASSUME JobInv, CalmUnlessUpset, NEW s \in Sched, WriteConcert(s)
    PROVE  JobInv' /\ CalmUnlessUpset'
<1> USE ReminderAssumption
<1> DEFINE p == patch[s]
           newStatus == IF "status" \in p.gives THEN p.new.status ELSE concert.status
           newAt == IF "at" \in p.gives THEN p.new.at ELSE concert.at
<1>1. /\ sched \in [Sched -> Scheduling] /\ patch \in [Sched -> Patch] /\ job \in Job
      /\ concert \in [status : ConcertStatus, at : RemindAt, jobId : BOOLEAN]
      /\ updates \in 0..MaxUpdates /\ upset \in BOOLEAN /\ sched[s].step = "write"
  BY DEF JobInv, ReminderTypeOK, Scheduling, Patch, Job, WriteConcert
<1>2. concert' = [concert EXCEPT !.status = newStatus, !.at = newAt]
  BY DEF WriteConcert
<1>3. newStatus \in ConcertStatus /\ newAt \in RemindAt
  <2>1. "at" \in patch[s].gives => patch[s].new.at \in RemindAt
    BY DEF JobInv
  <2>2. patch[s].new.status \in ConcertStatus
    BY <1>1 DEF Patch, RowSeen
  <2> QED
    BY <1>1, <2>1, <2>2
<1>4. /\ UNCHANGED <<job, run, now, updates>> /\ patch' \in [Sched -> Patch]
      /\ \A r \in Sched : "at" \in patch'[r].gives => patch'[r].new.at \in RemindAt
      /\ upset' \in BOOLEAN
  BY <1>1, NoPatchType DEF WriteConcert, JobInv
<1>5. /\ sched' \in [Sched -> Scheduling]
      /\ sched'[s].step = IF Reschedules(s) THEN "read" ELSE "idle"
      /\ \A r \in Sched \ {s} : sched'[r] = sched[r]
  BY <1>1, SchedulingType DEF WriteConcert
<1>6. /\ upset' = (upset \/ IF Reschedules(s)
                              THEN Busy # {} \/ job.state \in {"active", "failed"}
                              ELSE newStatus # concert.status \/ newAt # concert.at)
  BY DEF WriteConcert
<1> HIDE DEF p, newStatus, newAt
<1>7. /\ concert' \in [status : ConcertStatus, at : RemindAt, jobId : BOOLEAN]
      /\ concert'.jobId = concert.jobId /\ concert'.status = newStatus /\ concert'.at = newAt
  BY <1>1, <1>2, <1>3
<1>8. JobInv'
  BY <1>4, <1>5, <1>7 DEF JobInv, ReminderTypeOK, Scheduling, Patch
<1>9. ASSUME ~ upset' PROVE Calm'
  <2>1. Calm /\ ~ upset
    BY <1>6, <1>9 DEF CalmUnlessUpset
  <2>2. CASE Reschedules(s)
    <3>1. Busy = {} /\ job.state \notin {"active", "failed"}
      BY <1>6, <1>9, <2>2
    <3>2. \A r \in Sched : sched[r].step \in {"idle", "write"}
      BY <3>1 DEF Busy, Scheduled
    <3>3. Busy' = {s}
      BY <1>5, <2>2, <3>2 DEF Busy, Scheduled
    <3>4. \A r \in Sched : sched'[r].step \in {"idle", "write", "read"}
      BY <1>5, <2>2, <3>2
    <3>5. job.state = "delayed" => concert.jobId
      BY <2>1, <3>2 DEF Calm, BeforeLook
    <3> QED
      BY <1>4, <1>7, <3>1, <3>3, <3>4, <3>5 DEF Calm, Knows, ReminderOnTime
  <2>3. CASE ~ Reschedules(s)
    <3>1. newStatus = concert.status /\ newAt = concert.at
      BY <1>6, <1>9, <2>3
    <3>2. sched'[s].step = "idle"
      BY <1>5, <2>3
    <3> QED
      BY <1>1, <1>4, <1>5, <1>7, <2>1, <3>1, <3>2, QuietStep
  <2> QED
    BY <2>2, <2>3
<1> QED
  BY <1>8, <1>9 DEF CalmUnlessUpset

(***************************************************************************)
(* A step of the only run of scheduleReminder keeps Calm if it knows what  *)
(* Knows says afterwards, or ends where nothing has to be due.             *)
(***************************************************************************)
LEMMA OneStep ==
    ASSUME JobInv, Calm, NEW s \in Sched, Scheduled(s),
           sched' \in [Sched -> Scheduling], \A r \in Sched \ {s} : sched'[r] = sched[r],
           concert'.status = concert.status, concert'.at = concert.at, UNCHANGED now,
           job'.state \in {"none", "delayed"},
           Knows(sched[s])', sched'[s].step \notin {"write", "read"},
           sched'[s].step \in {"idle", "cancel"} /\ job'.state = "delayed" => concert'.jobId,
           sched'[s].step = "idle" /\ concert.status = "PUBLISHED" /\ concert.at > now =>
             job'.state = "delayed" /\ job'.due = concert.at
    PROVE  Calm'
<1>1. \A r \in Sched \ {s} : sched'[r].step \in {"idle", "write"}
  BY DEF Calm, Busy, Scheduled
<1>2. \A r \in Sched \ {s} : Knows(sched[r])'
  BY <1>1 DEF Knows
<1>3. \A q, r \in Busy' : q = r
  BY <1>1 DEF Busy, Scheduled
<1>4. BeforeLook' /\ job'.state = "delayed" => concert'.jobId
  BY DEF BeforeLook
<1>5. ReminderOnTime'
  BY DEF ReminderOnTime, Busy, Scheduled
<1> QED
  BY <1>2, <1>3, <1>4, <1>5 DEF Calm

SchedSteps(s) ==
    \/ ReadConcert(s) \/ ReadJobId(s) \/ LookAtJob(s) \/ RemoveJob(s)
    \/ ClearJobId(s) \/ AddJob(s) \/ StoreJobId(s)

LEMMA SchedType ==
    ASSUME JobInv, NEW s \in Sched, SchedSteps(s)
    PROVE  JobInv' /\ \A r \in Sched \ {s} : sched'[r] = sched[r]
<1> USE ReminderAssumption
<1>1. /\ sched \in [Sched -> Scheduling] /\ job \in Job
      /\ concert \in [status : ConcertStatus, at : RemindAt, jobId : BOOLEAN]
      /\ run \in 0..Batch /\ now \in 0..MaxNow /\ updates \in 0..MaxUpdates
      /\ upset \in BOOLEAN
  BY DEF JobInv, ReminderTypeOK, Scheduling, Job
<1>2. UNCHANGED <<run, patch, now, updates, upset>>
  BY DEF SchedSteps, ReadConcert, ReadJobId, LookAtJob, RemoveJob, ClearJobId, AddJob,
         StoreJobId
<1>3. sched' \in [Sched -> Scheduling] /\ \A r \in Sched \ {s} : sched'[r] = sched[r]
  <2>1. CASE ReadConcert(s)
    <3> DEFINE overdue == concert.at <= now
    <3>1. overdue \in BOOLEAN
      OBVIOUS
    <3>2. sched' = [sched EXCEPT ![s] = [step |-> "cancel", at |-> concert.at, late |-> overdue]]
          \/ EndsAt(s)
      BY <2>1 DEF ReadConcert
    <3> HIDE DEF overdue
    <3>3. concert.at \in Nat
      BY <1>1
    <3>4. [step |-> "cancel", at |-> concert.at, late |-> overdue] \in Scheduling
      BY <3>1, <3>3 DEF Scheduling
    <3> QED
      BY <1>1, <3>2, <3>4, EndsOne
  <2>2. CASE ReadJobId(s)
    BY <1>1, <2>2, ProceedOne, AfterOne DEF ReadJobId
  <2>3. CASE LookAtJob(s)
    BY <1>1, <2>3, ProceedOne DEF LookAtJob
  <2>4. CASE RemoveJob(s)
    BY <1>1, <2>4, ProceedOne DEF RemoveJob
  <2>5. CASE ClearJobId(s)
    BY <1>1, <2>5, AfterOne DEF ClearJobId
  <2>6. CASE AddJob(s)
    BY <1>1, <2>6, ProceedOne DEF AddJob
  <2>7. CASE StoreJobId(s)
    BY <1>1, <2>7, EndsOne DEF StoreJobId
  <2> QED
    BY <2>1, <2>2, <2>3, <2>4, <2>5, <2>6, <2>7 DEF SchedSteps
<1>4. /\ job' \in Job
      /\ job'.state \in {"delayed", "active"} => job'.made < Attempts
      /\ run > 0 => job'.state = "active"
  <2>1. CASE RemoveJob(s)
    BY <1>1, <2>1, JobType DEF RemoveJob, JobInv
  <2>2. CASE AddJob(s)
    <3>1. sched[s].at \in Nat
      BY <1>1 DEF Scheduling
    <3>2. \/ job' = job
          \/ /\ job.state = "none" /\ job' \in Job
             /\ job'.state = "delayed" /\ job'.made = 0
      BY <1>1, <2>2, <3>1, JobType DEF AddJob
    <3> QED
      BY <1>1, <3>2 DEF JobInv
  <2>3. CASE ~ RemoveJob(s) /\ ~ AddJob(s)
    <3>1. job' = job
      BY <2>3 DEF SchedSteps, ReadConcert, ReadJobId, LookAtJob, ClearJobId, StoreJobId
    <3> QED
      BY <1>1, <3>1 DEF JobInv
  <2> QED
    BY <2>1, <2>2, <2>3
<1>5. concert' \in [status : ConcertStatus, at : RemindAt, jobId : BOOLEAN]
  BY <1>1 DEF SchedSteps, ReadConcert, ReadJobId, LookAtJob, RemoveJob, ClearJobId, AddJob,
              StoreJobId
<1> QED
  BY <1>1, <1>2, <1>3, <1>4, <1>5 DEF JobInv, ReminderTypeOK, Scheduling, Job

LEMMA SchedCalm ==
    ASSUME JobInv, Calm, NEW s \in Sched, SchedSteps(s)
    PROVE  Calm'
<1> USE ReminderAssumption
<1>1. /\ sched \in [Sched -> Scheduling] /\ job \in Job
      /\ concert \in [status : ConcertStatus, at : RemindAt, jobId : BOOLEAN]
      /\ now \in Nat /\ concert.at \in Nat
  <2>1. concert \in [status : ConcertStatus, at : RemindAt, jobId : BOOLEAN] /\ now \in 0..MaxNow
    BY DEF JobInv, ReminderTypeOK
  <2>2. sched \in [Sched -> Scheduling] /\ job \in Job
    BY DEF JobInv, ReminderTypeOK, Scheduling, Job
  <2>3. concert.at \in RemindAt
    BY <2>1
  <2>4. \A n \in 0..MaxNow : n \in Nat
    OBVIOUS
  <2>5. \A n \in RemindAt : n \in Nat
    OBVIOUS
  <2> QED
    BY <2>1, <2>2, <2>3, <2>4, <2>5, Zenon
<1>2. /\ sched' \in [Sched -> Scheduling] /\ \A r \in Sched \ {s} : sched'[r] = sched[r]
      /\ now' = now
  BY SchedType DEF JobInv, ReminderTypeOK, Scheduling, SchedSteps, ReadConcert, ReadJobId,
                   LookAtJob, RemoveJob, ClearJobId, AddJob, StoreJobId
<1>3. Scheduled(s)
  BY DEF SchedSteps, ReadConcert, ReadJobId, LookAtJob, RemoveJob, ClearJobId, AddJob,
         StoreJobId, Scheduled
<1>4. /\ job.state \in {"none", "delayed"}
      /\ \A r \in Sched \ {s} : sched[r].step \in {"idle", "write"}
  BY <1>1, <1>3 DEF Calm, Busy, Job, Scheduled
<1>5. sched[s].step \in {"read", "cancel"} /\ job.state = "delayed" => concert.jobId
  BY <1>4 DEF Calm, BeforeLook
<1>6. Knows(sched[s])
  BY DEF Calm
<1>7. CASE ReadConcert(s)
  <2>1. UNCHANGED <<concert, job>> /\ sched[s].step = "read"
    BY <1>7 DEF ReadConcert
  <2>2. CASE concert.status # "PUBLISHED"
    <3>1. sched'[s].step = "idle"
      BY <1>1, <1>7, <2>2, EndsOne DEF ReadConcert
    <3> QED
      BY <1>2, <1>3, <1>4, <1>5, <2>1, <2>2, <3>1, OneStep DEF Knows
  <2>3. CASE concert.status = "PUBLISHED"
    <3> DEFINE overdue == concert.at <= now
    <3>1. sched'[s] = [step |-> "cancel", at |-> concert.at, late |-> overdue]
      BY <1>1, <1>7, <2>3 DEF ReadConcert
    <3>2. /\ sched'[s].step = "cancel" /\ sched'[s].at = concert.at
          /\ sched'[s].late => concert.at <= now
      <4> HIDE DEF overdue
      <4>1. /\ sched'[s].step = "cancel" /\ sched'[s].at = concert.at /\ sched'[s].late = overdue
        BY <3>1
      <4> QED
        BY <4>1 DEF overdue
    <3>3. Knows(sched[s])'
      BY <1>2, <2>1, <2>3, <3>2 DEF Knows
    <3> QED
      BY <1>2, <1>3, <1>4, <1>5, <2>1, <3>2, <3>3, OneStep
  <2> QED
    BY <2>2, <2>3
<1>8. CASE ReadJobId(s)
  <2>1. UNCHANGED <<concert, job>> /\ sched[s].step = "cancel"
    BY <1>8 DEF ReadJobId
  <2>2. CASE concert.jobId
    <3>1. /\ sched'[s].step = "look" /\ sched'[s].at = sched[s].at
          /\ sched'[s].late = sched[s].late
      BY <1>1, <1>8, <2>2, ProceedOne DEF ReadJobId
    <3>2. Knows(sched[s])'
      BY <1>2, <1>6, <2>1, <3>1 DEF Knows
    <3> QED
      BY <1>2, <1>3, <1>4, <2>1, <3>1, <3>2, OneStep
  <2>3. CASE ~ concert.jobId
    <3>1. job.state = "none"
      BY <1>4, <1>5, <2>1, <2>3
    <3>2. \/ sched[s].late /\ sched'[s].step = "idle"
          \/ /\ sched'[s].step = "add" /\ sched'[s].at = sched[s].at
             /\ sched'[s].late = sched[s].late
      BY <1>1, <1>8, <2>3, AfterOne DEF ReadJobId
    <3>3. Knows(sched[s])'
      BY <1>2, <1>6, <2>1, <3>1, <3>2 DEF Knows
    <3>4. sched'[s].step = "idle" => concert.at <= now
      BY <1>6, <2>1, <3>2 DEF Knows
    <3> QED
      BY <1>1, <1>2, <1>3, <1>4, <2>1, <3>1, <3>2, <3>3, <3>4, OneStep
  <2> QED
    BY <2>2, <2>3
<1>9. CASE LookAtJob(s)
  <2>1. UNCHANGED <<concert, job>> /\ sched[s].step = "look"
    BY <1>9 DEF LookAtJob
  <2>2. /\ sched'[s].step = (IF job.state \in {"delayed", "active"} THEN "remove" ELSE "clear")
        /\ sched'[s].at = sched[s].at /\ sched'[s].late = sched[s].late
    BY <1>1, <1>9, ProceedOne DEF LookAtJob
  <2>3. Knows(sched[s])'
    BY <1>2, <1>4, <1>6, <2>1, <2>2 DEF Knows
  <2> QED
    BY <1>2, <1>3, <1>4, <2>1, <2>2, <2>3, OneStep
<1>10. CASE RemoveJob(s)
  <2>1. UNCHANGED concert /\ sched[s].step = "remove" /\ job' = NoJob
    BY <1>4, <1>10 DEF RemoveJob
  <2>2. /\ sched'[s].step = "clear" /\ sched'[s].at = sched[s].at
        /\ sched'[s].late = sched[s].late
    BY <1>1, <1>10, ProceedOne DEF RemoveJob
  <2>3. job'.state = "none"
    BY <2>1, JobType
  <2>4. Knows(sched[s])'
    BY <1>2, <1>6, <2>1, <2>2, <2>3 DEF Knows
  <2> QED
    BY <1>2, <1>3, <2>1, <2>2, <2>3, <2>4, OneStep
<1>11. CASE ClearJobId(s)
  <2>1. UNCHANGED job /\ sched[s].step = "clear" /\ job.state = "none"
    BY <1>6, <1>11 DEF ClearJobId, Knows
  <2>2. concert'.status = concert.status /\ concert'.at = concert.at
    BY <1>1, <1>11 DEF ClearJobId
  <2>3. \/ sched[s].late /\ sched'[s].step = "idle"
        \/ /\ sched'[s].step = "add" /\ sched'[s].at = sched[s].at
           /\ sched'[s].late = sched[s].late
    BY <1>1, <1>11, AfterOne DEF ClearJobId
  <2>4. Knows(sched[s])'
    BY <1>2, <1>6, <2>1, <2>2, <2>3 DEF Knows
  <2>5. sched'[s].step = "idle" => concert.at <= now
    BY <1>6, <2>1, <2>3 DEF Knows
  <2> QED
    BY <1>1, <1>2, <1>3, <2>1, <2>2, <2>3, <2>4, <2>5, OneStep
<1>12. CASE AddJob(s)
  <2>1. UNCHANGED concert /\ sched[s].step = "add" /\ job.state = "none"
    BY <1>6, <1>12 DEF AddJob, Knows
  <2>2. job'.state = "delayed" /\ job'.due = sched[s].at
    BY <1>12, <2>1 DEF AddJob
  <2>3. /\ sched'[s].step = "store" /\ sched'[s].at = sched[s].at
        /\ sched'[s].late = sched[s].late
    BY <1>1, <1>12, ProceedOne DEF AddJob
  <2>4. Knows(sched[s])'
    BY <1>2, <1>6, <2>1, <2>2, <2>3 DEF Knows
  <2> QED
    BY <1>2, <1>3, <2>1, <2>2, <2>3, <2>4, OneStep
<1>13. CASE StoreJobId(s)
  <2>1. UNCHANGED job /\ sched[s].step = "store" /\ job.state = "delayed"
        /\ job.due = concert.at
    BY <1>6, <1>13 DEF StoreJobId, Knows
  <2>2. concert'.status = concert.status /\ concert'.at = concert.at /\ concert'.jobId
    BY <1>1, <1>13 DEF StoreJobId
  <2>3. sched'[s].step = "idle"
    BY <1>1, <1>13, EndsOne DEF StoreJobId
  <2> QED
    BY <1>2, <1>3, <2>1, <2>2, <2>3, OneStep DEF Knows
<1> QED
  BY <1>7, <1>8, <1>9, <1>10, <1>11, <1>12, <1>13 DEF SchedSteps

LEMMA FailsStep ==
    ASSUME JobInv, NEW s \in Sched, ScheduleFails(s)
    PROVE  JobInv' /\ CalmUnlessUpset'
<1>1. sched \in [Sched -> Scheduling]
  BY DEF JobInv, ReminderTypeOK, Scheduling
<1>2. sched' \in [Sched -> Scheduling]
  BY <1>1, EndsOne DEF ScheduleFails
<1>3. upset' = TRUE /\ UNCHANGED <<concert, job, run, patch, now, updates>>
  BY DEF ScheduleFails
<1>4. upset' \in BOOLEAN
  BY <1>3
<1> QED
  BY <1>2, <1>3, <1>4 DEF JobInv, ReminderTypeOK, Scheduling, CalmUnlessUpset

(***************************************************************************)
(* The clock and the worker                                                *)
(***************************************************************************)
LEMMA ReminderJobStep ==
    ASSUME JobInv, CalmUnlessUpset,
           ReminderTick \/ StartJob \/ CheckConcert \/ SendBatch \/ AttemptFails
    PROVE  JobInv' /\ CalmUnlessUpset'
<1> USE ReminderAssumption
<1>1. /\ sched \in [Sched -> Scheduling] /\ job \in Job
      /\ concert \in [status : ConcertStatus, at : RemindAt, jobId : BOOLEAN]
      /\ run \in 0..Batch /\ now \in 0..MaxNow /\ updates \in 0..MaxUpdates
      /\ upset \in BOOLEAN /\ job.due \in Nat /\ concert.at \in Nat
      /\ \A s \in Sched : sched[s].at \in Nat
  BY DEF JobInv, ReminderTypeOK, Scheduling, Job
<1>2. UNCHANGED <<concert, sched, patch, updates>>
  BY DEF ReminderTick, StartJob, CheckConcert, SendBatch, AttemptFails
<1>3. CASE ReminderTick
  <2>1. now' \in 0..MaxNow /\ now' = now + 1 /\ UNCHANGED <<job, run, upset>>
    BY <1>1, <1>3 DEF ReminderTick
  <2>2. Calm => Calm'
    BY <1>1, <1>2, <2>1 DEF Calm, Knows, Busy, Scheduled, BeforeLook, ReminderOnTime
  <2> QED
    BY <1>1, <1>2, <2>1, <2>2 DEF JobInv, ReminderTypeOK, CalmUnlessUpset
<1>4. CASE StartJob
  <2>1. /\ job' \in Job /\ job'.state = "active" /\ job'.made = job.made
        /\ job.state = "delayed" /\ job.due <= now
        /\ UNCHANGED <<run, now>> /\ upset' \in BOOLEAN
    BY <1>1, <1>4, JobType DEF StartJob
  <2>2. JobInv'
    BY <1>1, <1>2, <2>1 DEF JobInv, ReminderTypeOK, Job
  <2>3. ASSUME ~ upset' PROVE Calm'
    <3>1. ~ upset /\ Busy = {}
      BY <1>4, <2>3 DEF StartJob
    <3>2. Calm
      BY <3>1 DEF CalmUnlessUpset
    <3>3. \A s \in Sched : sched[s].step \in {"idle", "write"}
      BY <3>1 DEF Busy, Scheduled
    <3>4. ReminderOnTime'
      BY <1>1, <1>2, <2>1, <3>1, <3>2 DEF Calm, ReminderOnTime
    <3>5. Busy' = {}
      BY <1>2, <3>1 DEF Busy, Scheduled
    <3> QED
      BY <1>2, <2>1, <3>3, <3>4, <3>5 DEF Calm, Knows
  <2> QED
    BY <2>2, <2>3 DEF CalmUnlessUpset
<1>5. CASE CheckConcert \/ SendBatch
  <2>1. /\ job.state = "active" /\ job' \in {job, NoJob} /\ run' \in 0..Batch
        /\ run' > 0 => job' = job
        /\ UNCHANGED <<now, upset>>
    BY <1>1, <1>5 DEF CheckConcert, SendBatch, JobInv
  <2>2. job' \in Job /\ (job' = job \/ job'.state = "none")
    <3>1. NoJob \in Job /\ NoJob.state = "none"
      BY JobType
    <3> QED
      BY <1>1, <2>1, <3>1
  <2>3. JobInv'
    BY <1>1, <1>2, <2>1, <2>2 DEF JobInv, ReminderTypeOK, Job
  <2>4. ASSUME ~ upset, Calm PROVE Calm'
    <3>1. Busy = {} /\ \A s \in Sched : sched[s].step \in {"idle", "write"}
      BY <2>1, <2>4 DEF Calm, Busy, Scheduled
    <3>2. concert.status = "PUBLISHED" => concert.at <= now
      BY <1>1, <2>1, <2>4, <3>1 DEF Calm, ReminderOnTime
    <3>3. ReminderOnTime'
      BY <1>1, <1>2, <2>1, <3>2 DEF ReminderOnTime
    <3>4. Busy' = {}
      BY <1>2, <3>1 DEF Busy, Scheduled
    <3> QED
      BY <1>2, <2>1, <2>2, <3>1, <3>3, <3>4 DEF Calm, Knows
  <2> QED
    BY <2>1, <2>3, <2>4 DEF CalmUnlessUpset
<1>6. CASE AttemptFails
  <2>1. job.made \in Nat /\ job.made < Attempts
    BY <1>1, <1>6 DEF AttemptFails, JobInv, Job
  <2> DEFINE st == IF job.made + 1 < Attempts THEN "delayed" ELSE "failed"
  <2>2. job' = [job EXCEPT !.state = st, !.made = job.made + 1] /\ st \in {"delayed", "failed"}
        /\ job.made + 1 \in 0..Attempts
    BY <1>6, <2>1 DEF AttemptFails
  <2> HIDE DEF st
  <2>3. job' \in Job /\ job'.state = st /\ job'.made = job.made + 1
    <3> DEFINE n == job.made + 1
    <3>1. n \in 0..Attempts /\ job' = [job EXCEPT !.state = st, !.made = n]
      BY <2>2
    <3> HIDE DEF n
    <3>2. job' \in Job /\ job'.state = st /\ job'.made = n
      BY <1>1, <2>2, <3>1 DEF Job
    <3> QED
      BY <3>2 DEF n
  <2>4. upset' = TRUE /\ run' = 0 /\ now' = now
    BY <1>6 DEF AttemptFails
  <2>5. upset' \in BOOLEAN
    BY <2>4
  <2>6. job'.state \in {"delayed", "active"} => job'.made < Attempts
    BY <2>3 DEF st
  <2>7. run' \in 0..Batch /\ ~ run' > 0
    BY <2>4
  <2> QED
    BY <1>1, <1>2, <2>3, <2>4, <2>5, <2>6, <2>7
    DEF JobInv, ReminderTypeOK, Job, CalmUnlessUpset
<1> QED
  BY <1>3, <1>4, <1>5, <1>6

(***************************************************************************)
(* Reminders: once no scheduling runs, a published concert has a job due   *)
(* at its own time, whatever came before, unless two schedulings met, one  *)
(* met the running job, something failed, or a PATCH changed a row it had  *)
(* read before another one wrote it, and so did not reschedule.            *)
(***************************************************************************)
THEOREM ReminderHolds == ReminderSpec => [](ReminderTypeOK /\ ReminderOnTime)
<1>1. JobInv /\ CalmUnlessUpset /\ [ReminderNext]_reminderVars => JobInv' /\ CalmUnlessUpset'
  <2> SUFFICES ASSUME JobInv, CalmUnlessUpset, [ReminderNext]_reminderVars
               PROVE  JobInv' /\ CalmUnlessUpset'
    OBVIOUS
  <2>1. CASE UNCHANGED reminderVars
    BY <2>1 DEF reminderVars, JobInv, ReminderTypeOK, CalmUnlessUpset, Calm, Busy, Scheduled, Knows,
                BeforeLook, ReminderOnTime
  <2>2. ASSUME NEW s \in Sched, SchedSteps(s) PROVE JobInv' /\ CalmUnlessUpset'
    <3>1. upset' = upset
      BY <2>2 DEF SchedSteps, ReadConcert, ReadJobId, LookAtJob, RemoveJob, ClearJobId,
                  AddJob, StoreJobId
    <3> QED
      BY <2>2, <3>1, SchedType, SchedCalm DEF CalmUnlessUpset
  <2> QED
    BY <2>1, <2>2, UpdateStep, WriteStep, UpdateEnds, FailsStep, ReminderJobStep DEF ReminderNext, SchedSteps
<1>2. JobInv /\ CalmUnlessUpset => ReminderTypeOK /\ ReminderOnTime
  BY DEF JobInv, CalmUnlessUpset, Calm, ReminderOnTime
<1> QED
  BY <1>1, <1>2, JobInvInit, CalmInit, PTL DEF ReminderSpec

-----------------------------------------------------------------------------
Asked == [kind : {"none", "login", "me", "profile", "other"}, tab : ShopTab \cup {NoFetch.tab},
          token : Nat, status : {"none", "ok", "unauthorized"},
          user : Customer \cup {NoCustomer}]

(***************************************************************************)
(* An answer names the user its token was minted for; one that is refused  *)
(* had no token, or one that has ended.                                    *)
(***************************************************************************)
Answers(x) ==
    /\ x.token <= Len(minted)
    /\ x.kind = "login" => x.user \in Customer
    /\ x.status = "ok" => x.token # 0 /\ x.user = minted[x.token]
    /\ x.status = "unauthorized" => x.token = 0 \/ x.token \in ended

SessionInv ==
    /\ minted \in Seq(Customer) /\ crossed \in BOOLEAN
    /\ session \in [token : Nat, user : Customer \cup {NoCustomer}]
    /\ session.token <= Len(minted)
    /\ fetch \in [Fetch -> Asked]
    /\ \A c \in Fetch : Answers(fetch[c])
    /\ SessionUnlessCrossed

LEMMA FetchType ==
    /\ NoFetch \in Asked /\ NoFetch.token = 0 /\ NoFetch.status = "none"
    /\ NoFetch.kind = "none"
    /\ NoLogin \in [token : Nat, user : Customer \cup {NoCustomer}]
    /\ NoLogin.token = 0 /\ NoLogin.user = NoCustomer
<1>1. NoFetch.token = 0 /\ NoFetch.status = "none" /\ NoFetch.kind = "none"
      /\ NoFetch.user = NoCustomer
      /\ NoFetch = [kind |-> "none", tab |-> NoFetch.tab, token |-> 0, status |-> "none",
                    user |-> NoCustomer]
  BY DEF NoFetch
<1>2. NoFetch \in Asked
  BY <1>1 DEF Asked
<1>3. NoLogin \in [token : Nat, user : Customer \cup {NoCustomer}]
      /\ NoLogin.token = 0 /\ NoLogin.user = NoCustomer
  BY DEF NoLogin
<1> QED
  BY <1>1, <1>2, <1>3

(***************************************************************************)
(* A request that is sent has the stored token and no answer.              *)
(***************************************************************************)
LEMMA SendStep ==
    ASSUME SessionInv, NEW c \in Fetch, NEW t \in ShopTab,
           NEW kind \in {"login", "profile", "other"}, NEW u \in Customer \cup {NoCustomer},
           kind = "login" => u \in Customer,
           Send(c, t, kind, u), UNCHANGED <<session, minted, ended, wish, crossed>>
    PROVE  SessionInv'
<1> DEFINE x == [kind |-> kind, tab |-> t, token |-> session.token, status |-> "none", user |-> u]
<1>1. x \in Asked /\ x.status = "none" /\ x.token = session.token
     /\ x.kind = kind /\ x.user = u
  BY DEF Asked, SessionInv
<1>2. fetch' = [fetch EXCEPT ![c] = x]
  BY DEF Send
<1> HIDE DEF x
<1>3. fetch' \in [Fetch -> Asked] /\ \A d \in Fetch : Answers(fetch'[d])
  BY <1>1, <1>2 DEF SessionInv, Answers
<1> QED
  BY <1>3 DEF SessionInv, Answers, SessionUnlessCrossed

LEMMA LoadStep ==
    ASSUME SessionInv, NEW c \in Fetch, NEW t \in ShopTab, LoadPage(c, t)
    PROVE  SessionInv'
<1> DEFINE stays == [d \in Fetch |-> IF fetch[d].tab = t THEN NoFetch ELSE fetch[d]]
           x == [NoFetch EXCEPT !.kind = "me", !.tab = t, !.token = session.token]
<1>1. UNCHANGED <<session, minted, ended, wish, crossed>>
  BY DEF LoadPage
<1>2. fetch' = stays \/ fetch' = [stays EXCEPT ![c] = x]
  BY DEF LoadPage
<1>3. \A y \in Asked, n \in Nat :
        LET z == [y EXCEPT !.kind = "me", !.tab = t, !.token = n]
        IN  z \in Asked /\ z.status = y.status /\ z.token = n /\ z.kind = "me"
  BY DEF Asked
<1>4. x \in Asked /\ x.status = "none" /\ x.token = session.token /\ x.kind = "me"
  <2>1. session.token \in Nat
    BY DEF SessionInv
  <2>2. NoFetch \in Asked /\ NoFetch.status = "none"
    BY FetchType DEF NoFetch
  <2> QED
    BY ONLY <1>3, <2>1, <2>2
<1>5. stays \in [Fetch -> Asked] /\ \A d \in Fetch : Answers(stays[d])
  BY FetchType DEF SessionInv, Answers
<1> HIDE DEF stays, x
<1>6. fetch' \in [Fetch -> Asked] /\ \A d \in Fetch : Answers(fetch'[d])
  BY <1>2, <1>4, <1>5 DEF SessionInv, Answers
<1> QED
  BY <1>1, <1>6 DEF SessionInv, Answers, SessionUnlessCrossed

LEMMA MintStep ==
    ASSUME SessionInv, NEW c \in Fetch, MintToken(c)
    PROVE  SessionInv'
<1>1. /\ UNCHANGED <<session, ended, wish, crossed>>
      /\ minted' = Append(minted, fetch[c].user)
      /\ fetch[c].kind = "login"
  BY DEF MintToken
<1>2. fetch \in [Fetch -> Asked] /\ minted \in Seq(Customer) /\ fetch[c].user \in Customer
  BY <1>1 DEF SessionInv, Answers
<1>3. /\ minted' \in Seq(Customer) /\ Len(minted') = Len(minted) + 1 /\ Len(minted) \in Nat
      /\ minted'[Len(minted')] = fetch[c].user
      /\ \A n \in Nat : n # 0 /\ n <= Len(minted) => minted'[n] = minted[n]
  BY <1>1, <1>2
<1> DEFINE x == [fetch[c] EXCEPT !.status = "ok", !.token = Len(minted')]
<1>4. fetch' = [fetch EXCEPT ![c] = x]
  BY <1>2 DEF MintToken
<1>6. x \in Asked /\ x.status = "ok" /\ x.token = Len(minted') /\ x.user = fetch[c].user
  <2> DEFINE n == Len(minted')
  <2>1. n \in Nat
    BY <1>3
  <2> HIDE DEF n
  <2>2. \A y \in Asked : LET z == [y EXCEPT !.status = "ok", !.token = n]
                         IN  z \in Asked /\ z.status = "ok" /\ z.token = n /\ z.user = y.user
    BY <2>1 DEF Asked
  <2>3. fetch[c] \in Asked
    BY <1>2
  <2> QED
    BY <2>2, <2>3 DEF n
<1> HIDE DEF x
<1>7. fetch' \in [Fetch -> Asked] /\ Answers(fetch[c])'
  BY <1>2, <1>3, <1>4, <1>6 DEF Answers
<1>8. ASSUME NEW d \in Fetch, d # c PROVE Answers(fetch[d])'
  <2>1. fetch'[d] = fetch[d] /\ fetch[d] \in Asked /\ Answers(fetch[d])
    BY <1>2, <1>4, <1>8 DEF SessionInv
  <2> QED
    BY <1>1, <1>3, <2>1 DEF Answers, Asked
<1>9. SessionUnlessCrossed'
  BY <1>1, <1>3 DEF SessionInv, SessionUnlessCrossed
<1> QED
  BY <1>1, <1>3, <1>7, <1>8, <1>9 DEF SessionInv

LEMMA AnswerStep ==
    ASSUME SessionInv, NEW c \in Fetch, Answer(c)
    PROVE  SessionInv'
<1>1. UNCHANGED <<session, minted, ended, wish, crossed>> /\ fetch[c].kind # "login"
  BY DEF Answer
<1>2. fetch \in [Fetch -> Asked] /\ minted \in Seq(Customer) /\ fetch[c] \in Asked
      /\ Answers(fetch[c])
  BY DEF SessionInv
<1>4. \A y \in Asked :
        LET w == [y EXCEPT !.status = "unauthorized"]
        IN  w \in Asked /\ w.status = "unauthorized" /\ w.token = y.token /\ w.kind = y.kind
  BY DEF Asked
<1>5. PICK x : /\ fetch' = [fetch EXCEPT ![c] = x] /\ x \in Asked
               /\ \/ x.token \in {0} \cup ended /\ x.status = "unauthorized" /\ x.kind # "login"
                     /\ x.token = fetch[c].token
                  \/ x = NoFetch
                  \/ /\ x.token = fetch[c].token /\ x.status = "ok" /\ x.kind # "login"
                     /\ x.token # 0 /\ x.user = minted[x.token]
  <2>1. CASE ~ Accepted(fetch[c].token)
    <3>1. fetch' = [fetch EXCEPT ![c] = [fetch[c] EXCEPT !.status = "unauthorized"]]
      BY <1>2, <2>1 DEF Answer
    <3>2. fetch[c].token \in {0} \cup ended
      BY <2>1 DEF Accepted
    <3> QED
      BY <1>1, <1>2, <1>4, <3>1, <3>2
  <2>2. CASE Accepted(fetch[c].token) /\ fetch[c].kind = "other"
    <3>1. fetch' = [fetch EXCEPT ![c] = NoFetch]
      BY <1>2, <2>2 DEF Answer
    <3> QED
      BY <3>1, FetchType
  <2>3. CASE Accepted(fetch[c].token) /\ fetch[c].kind # "other"
    <3> DEFINE u == minted[fetch[c].token]
    <3>1. fetch' = [fetch EXCEPT ![c] = [fetch[c] EXCEPT !.status = "ok", !.user = u]]
      BY <1>2, <2>3 DEF Answer
    <3>2. fetch[c].token # 0 /\ u \in Customer
      <4>1. fetch[c].token \in 1..Len(minted)
        BY <1>2, <2>3 DEF Accepted, Answers, Asked
      <4> QED
        BY <1>2, <4>1
    <3> HIDE DEF u
    <3> DEFINE x == [fetch[c] EXCEPT !.status = "ok", !.user = u]
    <3>3. /\ x \in Asked /\ x.status = "ok" /\ x.token = fetch[c].token
          /\ x.kind = fetch[c].kind /\ x.user = u
      <4>1. \A y \in Asked :
              LET z == [y EXCEPT !.status = "ok", !.user = u]
              IN  z \in Asked /\ z.status = "ok" /\ z.token = y.token /\ z.kind = y.kind
                    /\ z.user = u
        BY <3>2 DEF Asked
      <4> QED
        BY <1>2, <4>1
    <3> HIDE DEF x
    <3>4. fetch' = [fetch EXCEPT ![c] = x]
      BY <3>1 DEF x
    <3> QED
      BY <1>1, <3>2, <3>3, <3>4 DEF u
  <2> QED
    BY <2>1, <2>2, <2>3
<1>6. Answers(x)
  BY <1>2, <1>5, FetchType DEF Answers, Asked
<1>7. fetch' \in [Fetch -> Asked] /\ \A d \in Fetch : Answers(fetch'[d])
  BY <1>2, <1>5, <1>6 DEF SessionInv
<1> QED
  BY <1>1, <1>7 DEF SessionInv, Answers, SessionUnlessCrossed

(***************************************************************************)
(* What arrives changes the store as SessionUnlessCrossed allows.          *)
(***************************************************************************)
LEMMA ArriveStep ==
    ASSUME SessionInv, NEW c \in Fetch,
           LoginArrives(c) \/ UserArrives(c) \/ UnauthorizedArrives(c) \/ OtherArrives(c)
    PROVE  SessionInv'
<1>1. UNCHANGED <<minted, ended>> /\ fetch' = [fetch EXCEPT ![c] = NoFetch]
  BY DEF LoginArrives, UserArrives, UnauthorizedArrives, OtherArrives
<1>2. fetch \in [Fetch -> Asked] /\ fetch[c] \in Asked /\ Answers(fetch[c])
      /\ minted \in Seq(Customer)
  BY DEF SessionInv
<1>3. fetch' \in [Fetch -> Asked] /\ \A d \in Fetch : Answers(fetch'[d])
  BY <1>1, <1>2, FetchType DEF SessionInv, Answers
<1>4. crossed' \in BOOLEAN
  BY DEF SessionInv, LoginArrives, UserArrives, UnauthorizedArrives, OtherArrives
<1>5. /\ session' \in [token : Nat, user : Customer \cup {NoCustomer}]
      /\ session'.token <= Len(minted)
      /\ SessionUnlessCrossed'
  <2>1. CASE LoginArrives(c) \/ UserArrives(c)
    <3>1. session' = [token |-> fetch[c].token, user |-> fetch[c].user] /\ fetch[c].status = "ok"
      BY <2>1 DEF LoginArrives, UserArrives, Stored
    <3>2. /\ session'.token = fetch[c].token /\ session'.user = fetch[c].user
          /\ session' \in [token : Nat, user : Customer \cup {NoCustomer}]
      BY <1>2, <3>1 DEF Asked
    <3>3. fetch[c].token # 0 /\ fetch[c].user = minted[fetch[c].token]
          /\ fetch[c].token <= Len(minted)
      BY <1>2, <3>1 DEF Answers
    <3>4. crossed' \/ session'.token = wish'
      <4>1. CASE LoginArrives(c)
        BY <3>2, <4>1 DEF LoginArrives
      <4>2. CASE UserArrives(c)
        <5>1. crossed' \/ (~ crossed /\ fetch[c].token = session.token)
          BY <4>2 DEF UserArrives, OfOther
        <5>2. wish' = wish
          BY <4>2 DEF UserArrives
        <5> QED
          BY <3>2, <3>3, <5>1, <5>2 DEF SessionInv, SessionUnlessCrossed
      <4> QED
        BY <2>1, <4>1, <4>2
    <3> QED
      BY <1>1, <3>2, <3>3, <3>4 DEF SessionUnlessCrossed
  <2>2. CASE UnauthorizedArrives(c) /\ LogsOut(fetch[c])
    <3>1. session' = NoLogin /\ wish' = wish /\ fetch[c].status = "unauthorized"
          /\ (crossed' \/ (~ crossed /\ fetch[c].token = session.token))
      BY <2>2 DEF UnauthorizedArrives, OfOther
    <3>2. fetch[c].token = 0 \/ fetch[c].token \in ended
      BY <1>2, <3>1 DEF Answers
    <3>3. crossed' \/ wish = 0 \/ wish \in ended
      BY <3>1, <3>2 DEF SessionInv, SessionUnlessCrossed
    <3>4. Len(minted) \in Nat
      BY <1>2
    <3> QED
      BY <1>1, <3>1, <3>3, <3>4, FetchType DEF SessionUnlessCrossed
  <2>3. CASE OtherArrives(c) \/ (UnauthorizedArrives(c) /\ ~ LogsOut(fetch[c]))
    <3>1. UNCHANGED <<session, crossed, wish>>
      BY <2>3 DEF OtherArrives, UnauthorizedArrives
    <3> QED
      BY <1>1, <3>1 DEF SessionInv, SessionUnlessCrossed
  <2> QED
    BY <2>1, <2>2, <2>3
<1> QED
  BY <1>1, <1>2, <1>3, <1>4, <1>5 DEF SessionInv, Answers

LEMMA SessionInvInit == SessionInit => SessionInv
<1> SUFFICES ASSUME SessionInit PROVE SessionInv
  OBVIOUS
<1>1. minted = <<>> /\ minted \in Seq(Customer) /\ Len(minted) = 0
  BY DEF SessionInit
<1>2. crossed = FALSE /\ crossed \in BOOLEAN
  BY DEF SessionInit
<1> QED
  BY <1>1, <1>2, FetchType DEF SessionInit, SessionInv, Answers, SessionUnlessCrossed

LEMMA SessionStep == SessionInv /\ [SessionNext]_sessionVars => SessionInv'
<1> SUFFICES ASSUME SessionInv, [SessionNext]_sessionVars PROVE SessionInv'
  OBVIOUS
<1>1. CASE UNCHANGED sessionVars
  BY <1>1 DEF sessionVars, SessionInv, Answers, SessionUnlessCrossed
<1>2. ASSUME NEW c \in Fetch, NEW t \in ShopTab, NEW u \in Customer, LogIn(c, t, u)
      PROVE  SessionInv'
  BY <1>2, SendStep DEF LogIn
<1>3. ASSUME NEW c \in Fetch, NEW t \in ShopTab, SaveProfile(c, t) \/ CallApi(c, t)
      PROVE  SessionInv'
  BY <1>3, SendStep DEF SaveProfile, CallApi
<1>4. ASSUME NEW t \in ShopTab, LogOut(t) PROVE SessionInv'
  <2>1. session' = NoLogin /\ wish' = 0 /\ UNCHANGED <<fetch, minted, ended, crossed>>
    BY <1>4 DEF LogOut
  <2>2. Len(minted) \in Nat
    BY DEF SessionInv
  <2> QED
    BY <2>1, <2>2, FetchType DEF SessionInv, Answers, SessionUnlessCrossed
<1>5. ASSUME NEW n \in 1..MaxLogins, TokenEnds(n) PROVE SessionInv'
  BY <1>5 DEF TokenEnds, SessionInv, Answers, SessionUnlessCrossed
<1> QED
  BY <1>1, <1>2, <1>3, <1>4, <1>5, LoadStep, MintStep, AnswerStep, ArriveStep DEF SessionNext

(***************************************************************************)
(* Session of the customer's shop: the stored user is the one the stored   *)
(* token speaks for, and the session is the one the customer last asked    *)
(* for unless answers to another session's requests came in, for any       *)
(* number of tabs, requests, customers and logins.                         *)
(***************************************************************************)
THEOREM SessionHolds == SessionSpec => []SessionUnlessCrossed
<1>1. SessionInv => SessionUnlessCrossed
  BY DEF SessionInv
<1> QED
  BY <1>1, SessionStep, SessionInvInit, PTL DEF SessionSpec

(* The types of what SessionInv leaves out. *)
SessionRest ==
    /\ Len(minted) <= MaxLogins /\ ended \subseteq 1..Len(minted)
    /\ userOf \in [ShopTab -> Customer \cup {NoCustomer}]
    /\ reloads \in 0..MaxReloads /\ wish \in 0..Len(minted)

(* An answer shows its user, or nobody, in its tab; a login is wished for. *)
LEMMA ArriveRest ==
    ASSUME SessionInv, SessionRest, NEW c \in Fetch,
           LoginArrives(c) \/ UserArrives(c) \/ UnauthorizedArrives(c) \/ OtherArrives(c)
    PROVE  SessionRest'
<1>1. UNCHANGED <<minted, ended, reloads>>
  BY DEF LoginArrives, UserArrives, UnauthorizedArrives, OtherArrives
<1>2. /\ fetch[c].token \in Nat /\ fetch[c].token <= Len(minted) /\ Len(minted) \in Nat
      /\ fetch[c].user \in Customer \cup {NoCustomer}
      /\ session.user \in Customer \cup {NoCustomer}
  BY DEF SessionInv, Answers, Asked
<1>3. wish' \in 0..Len(minted)
  BY <1>2 DEF SessionRest, LoginArrives, UserArrives, UnauthorizedArrives, OtherArrives
<1>4. userOf' \in [ShopTab -> Customer \cup {NoCustomer}]
  BY <1>2 DEF SessionRest, LoginArrives, UserArrives, UnauthorizedArrives, OtherArrives
<1> QED
  BY <1>1, <1>3, <1>4 DEF SessionRest

LEMMA SessionRestStep ==
    ASSUME SessionInv, SessionRest, [SessionNext]_sessionVars
    PROVE  SessionRest'
<1>0. Len(minted) \in Nat /\ MaxLogins \in Nat /\ MaxReloads \in Nat
  BY SessionAssumption DEF SessionInv, SessionAssumption
<1>1. CASE UNCHANGED sessionVars
  BY <1>1 DEF sessionVars, SessionRest
<1>2. ASSUME NEW c \in Fetch, NEW t \in ShopTab, NEW u \in Customer, LogIn(c, t, u)
      PROVE  SessionRest'
  BY <1>2 DEF LogIn, SessionRest
<1>3. ASSUME NEW c \in Fetch, NEW t \in ShopTab, SaveProfile(c, t) \/ CallApi(c, t)
      PROVE  SessionRest'
  BY <1>3 DEF SaveProfile, CallApi, SessionRest
<1>4. ASSUME NEW c \in Fetch, NEW t \in ShopTab, LoadPage(c, t) PROVE SessionRest'
  BY <1>0, <1>4 DEF LoadPage, SessionRest
<1>5. ASSUME NEW t \in ShopTab, LogOut(t) PROVE SessionRest'
  BY <1>0, <1>5 DEF LogOut, SessionRest
<1>6. ASSUME NEW c \in Fetch, MintToken(c) PROVE SessionRest'
  <2>1. UNCHANGED <<userOf, ended, reloads, wish>> /\ Len(minted) < MaxLogins
        /\ minted' = Append(minted, fetch[c].user)
    BY <1>6 DEF MintToken
  <2>2. Len(minted') = Len(minted) + 1
    BY <2>1 DEF SessionInv
  <2> QED
    BY <1>0, <2>1, <2>2 DEF SessionRest
<1>7. ASSUME NEW c \in Fetch, Answer(c) PROVE SessionRest'
  BY <1>7 DEF Answer, SessionRest
<1>8. ASSUME NEW n \in 1..MaxLogins, TokenEnds(n) PROVE SessionRest'
  BY <1>8 DEF TokenEnds, SessionRest
<1> QED
  BY <1>1, <1>2, <1>3, <1>4, <1>5, <1>6, <1>7, <1>8, ArriveRest DEF SessionNext

LEMMA SessionTypes ==
    ASSUME ShopTab # {}, SessionInv, SessionRest
    PROVE  SessionTypeOK
<1>1. NoFetch.tab \in ShopTab /\ Len(minted) \in Nat
  BY DEF NoFetch, SessionInv
<1>2. ASSUME NEW c \in Fetch
      PROVE  fetch[c] \in [kind : {"none", "login", "me", "profile", "other"},
                           tab : ShopTab, token : 0..Len(minted),
                           status : {"none", "ok", "unauthorized"},
                           user : Customer \cup {NoCustomer}]
  <2>1. fetch[c] \in Asked /\ fetch[c].token <= Len(minted)
    BY DEF SessionInv, Answers
  <2> QED
    BY <1>1, <2>1 DEF Asked
<1>3. fetch \in [Fetch -> [kind : {"none", "login", "me", "profile", "other"},
                           tab : ShopTab, token : 0..Len(minted),
                           status : {"none", "ok", "unauthorized"},
                           user : Customer \cup {NoCustomer}]]
  BY <1>2 DEF SessionInv
<1>4. session \in [token : 0..Len(minted), user : Customer \cup {NoCustomer}]
  BY <1>1 DEF SessionInv
<1> QED
  BY <1>3, <1>4 DEF SessionInv, SessionRest, SessionTypeOK

(***************************************************************************)
(* What is stored, shown and on its way has its types; above all, every    *)
(* token the browser keeps or a request carries is one that a login has    *)
(* minted, and a loaded page shows a customer or nobody.                   *)
(***************************************************************************)
THEOREM SessionTypeCorrect ==
    ASSUME ShopTab # {}
    PROVE  SessionSpec => []SessionTypeOK
<1>1. SessionInit => SessionRest
  <2>1. minted = <<>> => Len(minted) = 0
    OBVIOUS
  <2> QED
    BY <2>1, SessionAssumption DEF SessionInit, SessionRest, SessionAssumption
<1>2. SessionInv /\ SessionRest /\ [SessionNext]_sessionVars => SessionRest'
  BY SessionRestStep
<1>3. SessionInv /\ SessionRest => SessionTypeOK
  BY SessionTypes
<1> QED
  BY <1>1, <1>2, <1>3, SessionStep, SessionInvInit, PTL DEF SessionSpec

-----------------------------------------------------------------------------
LEMMA MinOf ==
    ASSUME NEW S \in SUBSET Nat, NEW m \in S, \A n \in S : m <= n
    PROVE  Min(S) = m
<1>1. \A x \in S : (\A n \in S : x <= n) => x = m
  BY Z3
<1> QED
  BY <1>1 DEF Min

(* maxQuantityForSelection, of the map and the allowance it is asked with. *)
MostOf(f, l, z) == Min({f[z], MaxPerUser, l[z]})

LEMMA MostIs ==
    ASSUME NEW f \in [Area -> 0..Places], NEW l \in [Area -> 0..MaxPerUser], NEW z \in Area
    PROVE  /\ MostOf(f, l, z) \in Nat
           /\ \A n \in Nat : n <= MostOf(f, l, z) <=> n <= f[z] /\ n <= MaxPerUser /\ n <= l[z]
<1>1. f[z] \in Nat /\ MaxPerUser \in Nat /\ l[z] \in Nat
  BY SelectionAssumption
<1> DEFINE S == {f[z], MaxPerUser, l[z]}
<1>2. PICK m \in S : \A n \in S : m <= n
  BY <1>1
<1>3. MostOf(f, l, z) = m
  BY <1>1, <1>2, MinOf DEF MostOf
<1> QED
  BY <1>1, <1>2, <1>3

LEMMA MostNow ==
    ASSUME NEW z
    PROVE  Most(z) = MostOf(free, left, z) /\ Most(z)' = MostOf(free', left', z)
BY DEF Most, MostOf

LEMMA MinPair ==
    ASSUME NEW m \in Nat, NEW n \in Nat, m <= n
    PROVE  Min({m, n}) = m
BY MinOf

SelectionInv ==
    /\ IsFiniteSet(seats) /\ IsFiniteSet(kept.seats)
    /\ at \in {"loading", "seats"} => seats = kept.seats
    /\ at = "loading" => chosen = NoChoice /\ lastZone = NoArea
    /\ at = "seats" => chosen.zone = lastZone
    /\ at = "seats" /\ chosen # NoChoice => kept.choice = chosen
    /\ at = "seats" /\ chosen = NoChoice /\ ~ orphaned => seats = {}
    /\ undone => kept.seats = {}

(***************************************************************************)
(* While none of the three has happened the stored seats are those of the  *)
(* stored choice, and the page could sell them.                            *)
(***************************************************************************)
Kept ==
    /\ \A s \in kept.seats : s.zone = kept.choice.zone
    /\ ~ undone => kept.choice.qty = Cardinality(kept.seats)
    /\ at = "loading" => \A z \in Area : Cardinality(seats) <= left[z]
    /\ at = "seats" /\ chosen # NoChoice => Cardinality(seats) <= MostOf(free, left, chosen.zone)
KeptUnless == orphaned \/ shrunk \/ Kept

LEMMA ChoiceType ==
    /\ NoChoice \in Choice /\ NoChoice.zone = NoArea /\ NoChoice.qty = 0
    /\ \A c \in Choice : /\ c.qty \in 0..MaxPerUser
                         /\ c = NoChoice <=> c.zone = NoArea
                         /\ c # NoChoice => c.zone \in Area
    /\ \A c \in Choice, n \in 0..MaxPerUser :
         c # NoChoice => LET d == [c EXCEPT !.qty = n]
                         IN  d \in Choice /\ d.zone = c.zone /\ d.qty = n /\ d # NoChoice
<1>1. NoChoice \in Choice /\ NoChoice.zone = NoArea /\ NoChoice.qty = 0
  BY DEF NoChoice, Choice
<1>2. ASSUME NEW c \in Choice
      PROVE  /\ c.qty \in 0..MaxPerUser
             /\ c = NoChoice <=> c.zone = NoArea
             /\ c # NoChoice => c.zone \in Area
  <2>1. CASE c = NoChoice
    BY <1>1, <2>1, SelectionAssumption
  <2>2. CASE c \in [zone : Area, qty : 0..MaxPerUser]
    BY <1>1, <2>2, SelectionAssumption
  <2> QED
    BY <2>1, <2>2 DEF Choice
<1>3. ASSUME NEW c \in Choice, NEW n \in 0..MaxPerUser, c # NoChoice
      PROVE  LET d == [c EXCEPT !.qty = n]
             IN  d \in Choice /\ d.zone = c.zone /\ d.qty = n /\ d # NoChoice
  <2>1. c \in [zone : Area, qty : 0..MaxPerUser]
    BY <1>3 DEF Choice
  <2> DEFINE d == [c EXCEPT !.qty = n]
  <2>2. d \in [zone : Area, qty : 0..MaxPerUser] /\ d.zone = c.zone /\ d.qty = n
    BY <2>1
  <2> HIDE DEF d
  <2>3. d \in Choice /\ d # NoChoice
    BY <1>1, <2>2, SelectionAssumption DEF Choice
  <2> QED
    BY <2>2, <2>3 DEF d
<1> QED
  BY <1>1, <1>2, <1>3

KeptType == [choice : Choice, seats : SUBSET Seat]

LEMMA EmptyType ==
    /\ \A c \in Choice : LET k == [choice |-> c, seats |-> {}]
                         IN  k \in KeptType /\ k.choice = c /\ k.seats = {}
    /\ \A c \in Choice, k \in KeptType :
         LET l == [k EXCEPT !.choice = c]
         IN  l \in KeptType /\ l.choice = c /\ l.seats = k.seats
    /\ \A S \in SUBSET Seat, k \in KeptType :
         LET l == [k EXCEPT !.seats = S]
         IN  l \in KeptType /\ l.choice = k.choice /\ l.seats = S
    /\ IsFiniteSet({}) /\ Cardinality({}) = 0
BY FS_EmptySet DEF KeptType

LEMMA SelectionInitOK ==
    SelectionInit => SelectionTypeOK /\ SelectionInv /\ KeptUnless
<1> SUFFICES ASSUME SelectionInit PROVE SelectionTypeOK /\ SelectionInv /\ KeptUnless
  OBVIOUS
<1>1. /\ kept \in KeptType /\ kept.choice = NoChoice /\ kept.seats = {}
      /\ chosen = NoChoice /\ lastZone = NoArea /\ seats = {} /\ at = "away"
  BY EmptyType, ChoiceType DEF SelectionInit
<1>2. free \in [Area -> 0..Places] /\ left \in [Area -> 0..MaxPerUser]
  BY SelectionAssumption DEF SelectionInit, Everything
<1>3. orphaned = FALSE /\ shrunk = FALSE /\ undone = FALSE
  BY DEF SelectionInit
<1>4. orphaned \in BOOLEAN /\ shrunk \in BOOLEAN /\ undone \in BOOLEAN
  BY <1>3
<1>5. SelectionTypeOK
  BY <1>1, <1>2, <1>4, ChoiceType DEF SelectionTypeOK, KeptType
<1>6. SelectionInv /\ KeptUnless
  BY <1>1, EmptyType, ChoiceType DEF SelectionInv, KeptUnless, Kept
<1> QED
  BY <1>5, <1>6

-----------------------------------------------------------------------------
SelInv == SelectionTypeOK /\ SelectionInv /\ KeptUnless

LEMMA OpenSeatStep == ASSUME SelInv, OpenSeatPage PROVE SelInv'
<1>1. /\ at' = "loading" /\ left' = Everything
      /\ chosen' = NoChoice /\ lastZone' = NoArea /\ seats' = kept.seats
      /\ UNCHANGED <<free, kept, orphaned, shrunk, undone>>
  BY DEF OpenSeatPage, Histories
<1>2. left' \in [Area -> 0..MaxPerUser] /\ \A z \in Area : left'[z] = MaxPerUser
  BY <1>1, SelectionAssumption DEF Everything
<1>3. SelectionTypeOK'
  BY <1>1, <1>2, ChoiceType DEF SelInv, SelectionTypeOK
<1>4. SelectionInv'
  BY <1>1 DEF SelInv, SelectionInv
<1>5. ASSUME Kept PROVE Kept'
  <2>1. Cardinality(kept.seats) <= MaxPerUser
    <3>1. kept.choice.qty \in 0..MaxPerUser
      BY ChoiceType DEF SelInv, SelectionTypeOK
    <3>2. undone => Cardinality(kept.seats) = 0
      BY EmptyType DEF SelInv, SelectionInv
    <3> QED
      BY <1>5, <3>1, <3>2, SelectionAssumption DEF Kept
  <2> QED
    BY <1>1, <1>2, <1>5, <2>1 DEF Kept
<1> QED
  BY <1>1, <1>3, <1>4, <1>5 DEF SelInv, KeptUnless

LEMMA MapStep ==
    ASSUME SelInv, NEW f \in [Area -> 0..Places], NEW R, MapArrives(f, R)
    PROVE  SelInv'
<1>1. /\ at = "loading" /\ at' = "seats" /\ free' = f
      /\ UNCHANGED <<left, seats, kept, shrunk, undone>>
  BY DEF MapArrives
<1>2. seats = kept.seats /\ chosen = NoChoice /\ lastZone = NoArea /\ kept.choice \in Choice
  BY <1>1 DEF SelInv, SelectionInv, SelectionTypeOK
<1>3. CASE Restorable(kept.choice, f, R)
  <2>1. /\ chosen' = kept.choice /\ lastZone' = kept.choice.zone /\ orphaned' = orphaned
        /\ kept.choice # NoChoice /\ f[kept.choice.zone] >= kept.choice.qty
    BY <1>3 DEF MapArrives, Restorable
  <2>2. SelectionTypeOK'
    BY <1>1, <1>2, <2>1, ChoiceType DEF SelInv, SelectionTypeOK
  <2>3. SelectionInv'
    BY <1>1, <1>2, <2>1 DEF SelInv, SelectionInv
  <2>4. ASSUME Kept PROVE Kept'
    <3> DEFINE z == kept.choice.zone
               n == Cardinality(seats)
    <3>1. z \in Area /\ kept.choice.qty \in 0..MaxPerUser
      BY <1>2, <2>1, ChoiceType
    <3>2. undone => n = 0
      BY <1>2, EmptyType DEF SelInv, SelectionInv
    <3>3. n \in Nat
      BY FS_CardinalityType DEF SelInv, SelectionInv
    <3>4. n <= f[z] /\ n <= MaxPerUser /\ n <= left[z]
      <4>1. n <= left[z]
        BY <1>1, <2>4, <3>1 DEF Kept
      <4>2. f[z] \in Nat
        BY <3>1
      <4>3. ~ undone => n = kept.choice.qty
        BY <1>2, <2>4 DEF Kept
      <4> HIDE DEF n, z
      <4> QED
        BY <2>1, <3>1, <3>2, <4>1, <4>2, <4>3, SelectionAssumption DEF z
    <3>5. n <= MostOf(f, left, z)
      <4>1. left \in [Area -> 0..MaxPerUser]
        BY DEF SelInv, SelectionTypeOK
      <4> HIDE DEF n, z
      <4> QED
        BY <3>1, <3>3, <3>4, <4>1, MostIs DEF z
    <3>6. Cardinality(seats') <= MostOf(free', left', chosen'.zone)
      BY <1>1, <2>1, <3>5
    <3> QED
      BY <1>1, <1>2, <2>1, <2>4, <3>6 DEF Kept
  <2> QED
    BY <1>1, <2>1, <2>2, <2>3, <2>4 DEF SelInv, KeptUnless
<1>4. CASE ~ Restorable(kept.choice, f, R)
  <2>1. /\ chosen' = NoChoice /\ lastZone' = NoArea
        /\ orphaned' = (orphaned \/ seats # {})
    BY <1>2, <1>4 DEF MapArrives
  <2>2. orphaned' \in BOOLEAN
    BY <2>1
  <2>3. SelectionTypeOK'
    BY <1>1, <1>2, <2>1, <2>2, ChoiceType DEF SelInv, SelectionTypeOK
  <2>4. SelectionInv'
    BY <1>1, <1>2, <2>1, ChoiceType DEF SelInv, SelectionInv
  <2>5. Kept => Kept'
    BY <1>1, <1>2, <2>1 DEF Kept
  <2> QED
    BY <1>1, <2>1, <2>3, <2>4, <2>5 DEF SelInv, KeptUnless
<1> QED
  BY <1>3, <1>4

LEMMA OrdersStep ==
    ASSUME SelInv, NEW l \in [Area -> 0..MaxPerUser], OrdersArrive(l)
    PROVE  SelInv'
<1>1. /\ left' = l /\ shrunk' = (shrunk \/ \E z \in Area : l[z] < Cardinality(seats))
      /\ UNCHANGED <<at, free, chosen, lastZone, seats, kept, orphaned, undone>>
  BY DEF OrdersArrive
<1>2. shrunk' \in BOOLEAN
  BY <1>1
<1>3. SelectionTypeOK'
  BY <1>1, <1>2 DEF SelInv, SelectionTypeOK
<1>4. SelectionInv'
  BY <1>1 DEF SelInv, SelectionInv
<1>5. ASSUME ~ orphaned', ~ shrunk' PROVE Kept'
  <2>1. Kept
    BY <1>1, <1>5 DEF SelInv, KeptUnless
  <2>2. Cardinality(seats) \in Nat
    BY FS_CardinalityType DEF SelInv, SelectionInv
  <2>3. \A z \in Area : Cardinality(seats) <= l[z]
    <3> SUFFICES ASSUME NEW z \in Area PROVE Cardinality(seats) <= l[z]
      OBVIOUS
    <3>1. ~ l[z] < Cardinality(seats)
      BY <1>1, <1>5
    <3>2. l[z] \in Nat
      BY SelectionAssumption
    <3> QED
      BY <2>2, <3>1, <3>2
  <2>4. ASSUME at = "seats", chosen # NoChoice
        PROVE  Cardinality(seats) <= MostOf(free, l, chosen.zone)
    <3>1. /\ chosen.zone \in Area /\ free \in [Area -> 0..Places]
          /\ left \in [Area -> 0..MaxPerUser]
      BY <2>4, ChoiceType DEF SelInv, SelectionTypeOK
    <3>3. Cardinality(seats) <= MostOf(free, left, chosen.zone)
      BY <2>1, <2>4 DEF Kept
    <3>4. Cardinality(seats) <= free[chosen.zone] /\ Cardinality(seats) <= MaxPerUser
      BY <2>2, <3>1, <3>3, MostIs
    <3> QED
      BY <2>2, <2>3, <3>1, <3>4, MostIs
  <2> QED
    BY <1>1, <2>1, <2>3, <2>4 DEF Kept
<1> QED
  BY <1>3, <1>4, <1>5 DEF SelInv, KeptUnless

(* An effect of another zone on the seats. *)
LEMMA ResetType ==
    ASSUME SelInv, at = "seats", NEW c \in Choice, ResetSeats(c)
    PROVE  /\ kept' \in KeptType /\ kept'.choice = c
           /\ orphaned' \in BOOLEAN /\ shrunk' \in BOOLEAN
           /\ seats' = kept'.seats
           /\ lastZone # NoArea \/ ~ orphaned => seats' = {}
           /\ lastZone = NoArea => seats' = seats /\ UNCHANGED <<orphaned, shrunk>>
<1>1. kept \in KeptType /\ kept.choice \in Choice /\ seats = kept.seats
      /\ orphaned \in BOOLEAN /\ shrunk \in BOOLEAN /\ chosen \in Choice
  BY DEF SelInv, SelectionTypeOK, SelectionInv, KeptType
<1>2. CASE lastZone # NoArea
  <2>1. /\ seats' = {} /\ kept' = [choice |-> c, seats |-> {}]
        /\ orphaned' = FALSE /\ shrunk' = FALSE
    BY <1>2 DEF ResetSeats, Emptied
  <2>2. orphaned' \in BOOLEAN /\ shrunk' \in BOOLEAN
    BY <2>1
  <2> QED
    BY <1>2, <2>1, <2>2, EmptyType
<1>3. CASE lastZone = NoArea
  <2>1. kept' = [kept EXCEPT !.choice = c] /\ UNCHANGED <<seats, orphaned, shrunk>>
    BY <1>3 DEF ResetSeats, Emptied
  <2>2. kept' \in KeptType /\ kept'.choice = c /\ kept'.seats = kept.seats
    BY <1>1, <2>1, EmptyType
  <2>3. ~ orphaned => seats = {}
    BY <1>1, <1>3, ChoiceType DEF SelInv, SelectionInv
  <2> QED
    BY <1>1, <1>3, <2>1, <2>2, <2>3
<1> QED
  BY <1>2, <1>3

LEMMA SelectStep == ASSUME SelInv, NEW z \in Area, SelectZone(z) PROVE SelInv'
<1> DEFINE c == [zone |-> z, qty |-> 0]
<1>1. c \in Choice /\ c.zone = z /\ c.qty = 0 /\ c # NoChoice
  <2>1. c \in [zone : Area, qty : 0..MaxPerUser] /\ c.zone = z /\ c.qty = 0
    BY SelectionAssumption
  <2> QED
    BY <2>1, ChoiceType, SelectionAssumption DEF Choice
<1>2. /\ at = "seats" /\ chosen' = c /\ lastZone' = z /\ undone' = FALSE
      /\ ResetSeats(c) /\ UNCHANGED <<at, free, left>>
  BY DEF SelectZone
<1> HIDE DEF c
<1>3. /\ kept' \in KeptType /\ kept'.choice = c
      /\ orphaned' \in BOOLEAN /\ shrunk' \in BOOLEAN
      /\ seats' = kept'.seats
      /\ lastZone # NoArea \/ ~ orphaned => seats' = {}
      /\ lastZone = NoArea => seats' = seats /\ UNCHANGED <<orphaned, shrunk>>
  BY <1>1, <1>2, ResetType
<1>4. undone' \in BOOLEAN /\ IsFiniteSet(seats') /\ kept'.seats \in SUBSET Seat
  BY <1>2, <1>3, EmptyType DEF SelInv, SelectionInv, KeptType
<1>5. SelectionTypeOK'
  BY <1>1, <1>2, <1>3, <1>4 DEF SelInv, SelectionTypeOK, KeptType
<1>6. SelectionInv'
  BY <1>1, <1>2, <1>3, <1>4 DEF SelectionInv
<1>7. ASSUME ~ orphaned', ~ shrunk' PROVE Kept'
  <2>1. seats' = {} /\ kept'.seats = {}
    BY <1>3, <1>7
  <2>2. MostOf(free', left', z) \in Nat
    BY <1>5, MostIs DEF SelectionTypeOK
  <2>3. Cardinality(seats') = 0 /\ Cardinality(kept'.seats) = 0 /\ at' = "seats"
    BY <1>2, <2>1, EmptyType
  <2>4. Cardinality(seats') <= MostOf(free', left', z)
    BY <2>2, <2>3
  <2> QED
    BY <1>1, <1>2, <1>3, <2>1, <2>3, <2>4 DEF Kept
<1> QED
  BY <1>5, <1>6, <1>7 DEF SelInv, KeptUnless

LEMMA GiveUpStep == ASSUME SelInv, GiveUpZone PROVE SelInv'
<1>1. /\ at = "seats" /\ chosen # NoChoice /\ chosen' = NoChoice /\ lastZone' = NoArea
      /\ ResetSeats(kept.choice) /\ undone' = (kept.choice.qty > 0)
      /\ UNCHANGED <<at, free, left>>
  BY DEF GiveUpZone
<1>2. kept.choice \in Choice /\ kept.choice.qty \in Nat /\ lastZone # NoArea
  BY <1>1, ChoiceType DEF SelInv, SelectionTypeOK, SelectionInv
<1>3. /\ kept' \in KeptType /\ kept'.choice = kept.choice
      /\ orphaned' \in BOOLEAN /\ shrunk' \in BOOLEAN
      /\ seats' = {} /\ kept'.seats = {}
  BY <1>1, <1>2, ResetType
<1>4. undone' \in BOOLEAN /\ (~ undone' => kept.choice.qty = 0)
  <2>1. undone' \in BOOLEAN
    BY <1>1
  <2>2. ~ undone' => ~ kept.choice.qty > 0
    BY <1>1
  <2> QED
    BY <1>2, <2>1, <2>2
<1>5. SelectionTypeOK'
  BY <1>1, <1>3, <1>4, ChoiceType DEF SelInv, SelectionTypeOK, KeptType
<1>6. SelectionInv'
  BY <1>1, <1>3, EmptyType, ChoiceType DEF SelectionInv
<1>7. Kept'
  BY <1>1, <1>3, <1>4, EmptyType DEF Kept
<1> QED
  BY <1>5, <1>6, <1>7 DEF SelInv, KeptUnless

LEMMA PressStep == ASSUME SelInv, NEW p \in Place, PressSeat(p) PROVE SelInv'
<1> DEFINE z == chosen.zone
           most == MostOf(free, left, z)
           n == Cardinality(seats)
<1>1. /\ at = "seats" /\ chosen # NoChoice
      /\ Pressed(p) # {} \/ n < most
      /\ seats' = IF Pressed(p) # {} THEN seats \ Pressed(p)
                  ELSE seats \cup {[place |-> p, zone |-> z]}
      /\ SetQuantity(seats')
      /\ UNCHANGED <<at, free, left, lastZone, orphaned, shrunk>>
  BY MostNow DEF PressSeat
<1>2. /\ chosen \in Choice /\ z \in Area /\ kept.choice = chosen /\ seats = kept.seats
      /\ seats \subseteq Seat /\ IsFiniteSet(seats) /\ kept \in KeptType
      /\ free \in [Area -> 0..Places] /\ left \in [Area -> 0..MaxPerUser]
  BY <1>1, ChoiceType DEF SelInv, SelectionTypeOK, SelectionInv, KeptType
<1>3. n \in Nat /\ most \in Nat /\ left[z] \in Nat /\ most <= left[z] /\ most <= MaxPerUser
  BY <1>2, FS_CardinalityType, MostIs, SelectionAssumption
<1>4. /\ seats' \in SUBSET Seat /\ IsFiniteSet(seats') /\ Cardinality(seats') \in Nat
      /\ n <= most => Cardinality(seats') <= most
      /\ (\A s \in seats : s.zone = z) => \A s \in seats' : s.zone = z
  <2>1. CASE Pressed(p) # {}
    <3>1. seats' \subseteq seats
      BY <1>1, <2>1
    <3>2. IsFiniteSet(seats') /\ Cardinality(seats') <= n
      BY <1>2, <3>1, FS_Subset
    <3>3. Cardinality(seats') \in Nat
      BY <3>2, FS_CardinalityType
    <3> QED
      BY <1>2, <1>3, <3>1, <3>2, <3>3
  <2>2. CASE Pressed(p) = {}
    <3> DEFINE s == [place |-> p, zone |-> z]
    <3>1. s \in Seat /\ s.zone = z
      BY <1>2 DEF Seat
    <3>2. seats' = seats \cup {s} /\ n < most
      BY <1>1, <2>2
    <3> HIDE DEF s
    <3>3. IsFiniteSet(seats') /\ (Cardinality(seats') = n \/ Cardinality(seats') = n + 1)
      BY <1>2, <3>2, FS_AddElement
    <3>4. seats' \in SUBSET Seat
      BY <1>2, <3>1, <3>2
    <3>5. Cardinality(seats') \in Nat /\ Cardinality(seats') <= most
      <4> HIDE DEF n, most
      <4> QED
        BY <1>3, <3>2, <3>3
    <3> QED
      BY <3>1, <3>2, <3>3, <3>4, <3>5
  <2> QED
    BY <2>1, <2>2
<1>5. left[z] = 0 => seats # {} /\ ~ n <= most
  <2> SUFFICES ASSUME left[z] = 0 PROVE seats # {} /\ ~ n <= most
    OBVIOUS
  <2>1. Pressed(p) # {}
    BY <1>1, <1>3
  <2>2. seats # {}
    BY <2>1 DEF Pressed
  <2>3. n # 0
    BY <1>2, <2>2, FS_EmptySet
  <2> QED
    BY <1>3, <2>2, <2>3
<1>6. CASE left[z] = 0
  <2>1. UNCHANGED <<chosen, undone>> /\ kept' = [kept EXCEPT !.seats = seats']
    BY <1>1, <1>6 DEF SetQuantity
  <2>2. kept' \in KeptType /\ kept'.choice = chosen /\ kept'.seats = seats'
    <3>1. \A S \in SUBSET Seat, k \in KeptType :
            LET l == [k EXCEPT !.seats = S]
            IN  l \in KeptType /\ l.choice = k.choice /\ l.seats = S
      BY EmptyType
    <3> QED
      BY <1>2, <1>4, <2>1, <3>1
  <2>3. ~ undone /\ ~ Kept
    BY <1>1, <1>2, <1>5, <1>6 DEF SelInv, SelectionInv, Kept
  <2>4. SelectionTypeOK'
    BY <1>1, <1>4, <2>1, <2>2 DEF SelInv, SelectionTypeOK, KeptType
  <2>5. SelectionInv'
    BY <1>1, <1>4, <2>1, <2>2, <2>3 DEF SelInv, SelectionInv
  <2> QED
    BY <1>1, <2>3, <2>4, <2>5 DEF SelInv, KeptUnless
<1>7. CASE left[z] # 0
  <2> DEFINE m == Min({Cardinality(seats'), most})
  <2>1. /\ chosen' = [chosen EXCEPT !.qty = m]
        /\ kept' = [choice |-> chosen', seats |-> seats'] /\ undone' = FALSE
    BY <1>1, <1>7, MostNow DEF SetQuantity
  <2>2. m \in 0..MaxPerUser /\ (Cardinality(seats') <= most => m = Cardinality(seats'))
    <3>1. CASE Cardinality(seats') <= most
      <4>1. m = Cardinality(seats')
        BY <1>3, <1>4, <3>1, MinPair
      <4> HIDE DEF m, most
      <4> QED
        BY <1>3, <1>4, <3>1, <4>1, SelectionAssumption
    <3>2. CASE ~ Cardinality(seats') <= most
      <4>1. {Cardinality(seats'), most} = {most, Cardinality(seats')}
            /\ most <= Cardinality(seats')
        BY <1>3, <1>4, <3>2
      <4>2. m = most
        BY <1>3, <1>4, <4>1, MinPair
      <4> HIDE DEF m, most
      <4> QED
        BY <1>3, <3>2, <4>2, SelectionAssumption
    <3> QED
      BY <3>1, <3>2
  <2> HIDE DEF m
  <2>3. chosen' \in Choice /\ chosen'.zone = z /\ chosen'.qty = m /\ chosen' # NoChoice
    BY <1>1, <1>2, <2>1, <2>2, ChoiceType
  <2>4. kept' \in KeptType /\ kept'.choice = chosen' /\ kept'.seats = seats'
    BY <1>4, <2>1, <2>3 DEF KeptType
  <2>5. undone' \in BOOLEAN /\ ~ undone'
    BY <2>1
  <2>6. SelectionTypeOK'
    BY <1>1, <1>4, <2>3, <2>4, <2>5 DEF SelInv, SelectionTypeOK, KeptType
  <2>7. SelectionInv'
    BY <1>1, <1>4, <2>3, <2>4, <2>5 DEF SelInv, SelectionInv
  <2>8. ASSUME Kept PROVE Kept'
    <3>1. n <= most /\ \A s \in seats : s.zone = z
      BY <1>1, <1>2, <2>8 DEF Kept
    <3>2. Cardinality(seats') <= most /\ m = Cardinality(seats')
          /\ \A s \in seats' : s.zone = z
      BY <1>4, <2>2, <3>1
    <3> QED
      BY <1>1, <2>3, <2>4, <3>2 DEF Kept
  <2> QED
    BY <1>1, <2>6, <2>7, <2>8 DEF SelInv, KeptUnless
<1> QED
  BY <1>6, <1>7

LEMMA LeaveStep ==
    ASSUME SelInv, HandleProceed \/ GoForward \/ OrderTaken \/ LeaveShop
    PROVE  SelInv'
<1>1. CASE HandleProceed
  <2>1. /\ at = "seats" /\ at' = "checkout" /\ chosen.qty > 0
        /\ kept' = [kept EXCEPT !.choice = chosen]
        /\ UNCHANGED <<free, left, chosen, lastZone, seats, orphaned, shrunk, undone>>
    BY <1>1 DEF HandleProceed, Histories
  <2>2. chosen # NoChoice
    BY <2>1, ChoiceType
  <2>3. kept \in KeptType /\ kept.choice = chosen /\ chosen \in Choice
    BY <2>1, <2>2 DEF SelInv, SelectionTypeOK, SelectionInv, KeptType
  <2>4. kept' \in KeptType /\ kept'.choice = kept.choice /\ kept'.seats = kept.seats
    BY <2>1, <2>3, EmptyType
  <2> QED
    BY <2>1, <2>4 DEF SelInv, SelectionTypeOK, SelectionInv, KeptUnless, Kept, KeptType
<1>2. CASE GoForward \/ LeaveShop
  <2>1. /\ at' \in {"checkout", "away"}
        /\ UNCHANGED <<free, left, chosen, lastZone, seats, kept, orphaned, shrunk, undone>>
    BY <1>2 DEF GoForward, LeaveShop, Histories
  <2> QED
    BY <2>1 DEF SelInv, SelectionTypeOK, SelectionInv, KeptUnless, Kept
<1>3. CASE OrderTaken
  <2>1. /\ at' = "away" /\ kept' = [choice |-> NoChoice, seats |-> {}]
        /\ chosen' = NoChoice /\ lastZone' = NoArea /\ seats' = {}
        /\ orphaned' = FALSE /\ shrunk' = FALSE /\ undone' = FALSE
        /\ UNCHANGED <<free, left>>
    BY <1>3 DEF OrderTaken
  <2>2. orphaned' \in BOOLEAN /\ shrunk' \in BOOLEAN /\ undone' \in BOOLEAN
    BY <2>1
  <2>3. kept' \in KeptType /\ kept'.choice = NoChoice /\ kept'.seats = {}
    BY <2>1, EmptyType, ChoiceType
  <2>4. SelectionTypeOK'
    BY <2>1, <2>2, <2>3, ChoiceType DEF SelInv, SelectionTypeOK, KeptType
  <2> QED
    BY <2>1, <2>3, <2>4, EmptyType, ChoiceType DEF SelInv, SelectionInv, KeptUnless, Kept
<1> QED
  BY <1>1, <1>2, <1>3

(***************************************************************************)
(* Seat selection: the checkout page lists as many seats as it orders, of  *)
(* the zone it orders, unless seats came back without their zone, the      *)
(* customer's orders left less than was chosen, or a zone given up was     *)
(* still stored, for every plan of the hall and every limit.               *)
(***************************************************************************)
THEOREM SeatsHold == SelectionSpec => [](SelectionTypeOK /\ SeatsMatchOrder)
<1>1. SelInv /\ [SelectionNext]_selectionVars => SelInv'
  <2> SUFFICES ASSUME SelInv, [SelectionNext]_selectionVars PROVE SelInv'
    OBVIOUS
  <2>1. CASE UNCHANGED selectionVars
    BY <2>1 DEF selectionVars, SelInv, SelectionTypeOK, SelectionInv, KeptUnless, Kept
  <2> QED
    BY <2>1, OpenSeatStep, MapStep, OrdersStep, SelectStep, GiveUpStep, PressStep, LeaveStep
    DEF SelectionNext
<1>2. SelInv => SelectionTypeOK /\ SeatsMatchOrder
  BY DEF SelInv, KeptUnless, Kept, SeatsMatchOrder
<1>3. SelectionInit => SelInv
  BY SelectionInitOK DEF SelInv
<1> QED
  BY <1>1, <1>2, <1>3, PTL DEF SelectionSpec

-----------------------------------------------------------------------------
(***************************************************************************)
(* Keys are in their owner's list, and the checkout page shows nothing     *)
(* while an order waits for payment; no press has had the key that is      *)
(* stored beside a pending order.                                          *)
(***************************************************************************)
TabInv ==
    /\ \A r \in pressed : req[r].key \in issued
    /\ stored.key \in issued \cup {Unkeyed}
    /\ stored.pending \in effective \cup {Nobody}
    /\ page = "checkout" => stored.pending = Nobody
    /\ stored.pending # Nobody => \A r \in pressed : req[r].key # stored.key

(* The key of a press is the stored one, or an order with it exists. *)
KeyKnown(r) == req[r].key = stored.key \/ \E o \in effective : req[o].key = req[r].key

(* An order to pay is the pending one, or has the stored key. *)
Remembered(o) ==
    req[o].key \in raced \cup expired \cup torn \cup {stored.key} \/ stored.pending = o

Minded == ~ forgot => /\ \A r \in pressed : KeyKnown(r)
                      /\ \A o \in Pending : Remembered(o)

CheckoutInv == CheckoutTypeOK /\ IInv /\ TabInv /\ Minded

TabStore == [key : Key \cup {Unkeyed}, sel : Body \cup {NoBody}, pending : Req \cup {Nobody}]

LEMMA StoredType ==
    /\ Nothing \in TabStore /\ Nothing.key = Unkeyed /\ Nothing.pending = Nobody
    /\ \A x \in TabStore, o \in Req \cup {Nobody} :
         LET y == [x EXCEPT !.pending = o]
         IN  y \in TabStore /\ y.key = x.key /\ y.pending = o
    /\ \A x \in TabStore, k \in Key :
         LET y == [x EXCEPT !.key = k]
         IN  y \in TabStore /\ y.key = k /\ y.pending = x.pending
<1>1. Nothing \in TabStore /\ Nothing.key = Unkeyed /\ Nothing.pending = Nobody
  BY DEF Nothing, TabStore
<1>2. \A x \in TabStore, o \in Req \cup {Nobody} :
         LET y == [x EXCEPT !.pending = o]
         IN  y \in TabStore /\ y.key = x.key /\ y.pending = o
  BY DEF TabStore
<1>3. \A x \in TabStore, k \in Key :
         LET y == [x EXCEPT !.key = k]
         IN  y \in TabStore /\ y.key = k /\ y.pending = x.pending
  BY DEF TabStore
<1> QED
  BY <1>1, <1>2, <1>3

(* The key a press gets: the stored one, or one no press has had. *)
LEMMA KeyForType ==
    ASSUME CheckoutInv, HasKey
    PROVE  /\ KeyFor \in Key
           /\ KeyFor = stored.key \/ (stored.key = Unkeyed /\ KeyFor \notin issued)
<1>1. stored.key \in Key \cup {Unkeyed}
  BY DEF CheckoutInv, CheckoutTypeOK
<1>2. CASE stored.key = Unkeyed
  <2>1. Fresh # {} /\ KeyFor = CHOOSE k \in Fresh : TRUE
    BY <1>2 DEF HasKey, KeyFor
  <2>2. (CHOOSE k \in Fresh : TRUE) \in Fresh
    BY <2>1
  <2> QED
    BY <1>2, <2>1, <2>2 DEF Fresh
<1>3. CASE stored.key # Unkeyed
  BY <1>1, <1>3 DEF KeyFor
<1> QED
  BY <1>2, <1>3

LEMMA CheckoutInvInit == CheckoutInit => CheckoutInv
<1> SUFFICES ASSUME CheckoutInit PROVE CheckoutInv
  OBVIOUS
<1>1. IInv
  BY InitIInv, IdempotencyAssumption DEF CheckoutInit
<1> QED
  BY <1>1, StoredType
  DEF CheckoutInit, CheckoutInv, CheckoutTypeOK, TabInv, Minded, Pending, TabStore, IInv

(* A step of the server: requests keep their keys, effects stay. *)
LEMMA ServerKeeps ==
    ASSUME CheckoutInv, ServerStep \/ \E r \in Req : SendAgain(r)
    PROVE  /\ IInv' /\ UNCHANGED tabVars
           /\ effective \subseteq effective' /\ raced \subseteq raced'
               /\ expired \subseteq expired' /\ torn \subseteq torn'
           /\ \A s \in Req : req'[s].key = req[s].key
<1>0. IdempotencyTypeOK
  BY DEF CheckoutInv, IInv
<1>1. ASSUME NEW r \in Req, SendAgain(r)
      PROVE  /\ IInv' /\ UNCHANGED <<effective, raced, expired, torn, tabVars>>
             /\ \A s \in Req : req'[s].key = req[s].key
  <2>1. UNCHANGED <<record, effective, raced, expired, torn, tabVars>>
        /\ req[r].step = "conflict"
    BY <1>1 DEF SendAgain
  <2>2. KeepsRequests(r) /\ req'[r].step = "lookup"
    BY <1>0, <1>1 DEF SendAgain, Move, KeepsRequests, IdempotencyTypeOK, ReqStep
  <2>3. r \notin effective /\ ~ Underway(r)
    BY <2>1 DEF CheckoutInv, IInv, EffectiveRan, Underway
  <2>4. IdempotencyTypeOK'
    BY <1>0, <2>1, <2>2 DEF IdempotencyTypeOK, KeepsRequests
  <2>5. EffectiveRan' /\ MarkedFree'
    BY <2>1, <2>2, <2>3
    DEF CheckoutInv, IInv, EffectiveRan, MarkedFree, IsOrder, IdempotencyTypeOK, KeepsRequests
  <2>6. HoldsKey'
    BY <2>1, <2>2, <2>3
    DEF CheckoutInv, IInv, HoldsKey, Counts, Underway, IdempotencyTypeOK, KeepsRequests
  <2>7. RecordsOwn' /\ ReplaysOwnAnswer'
    BY <2>1, <2>2, <2>3
    DEF CheckoutInv, IInv, RecordsOwn, ReplaysOwnAnswer, IdempotencyTypeOK, KeepsRequests
  <2>8. AnswersOwn'
    <3>1. req[r].answer = Nobody
      BY <2>1 DEF CheckoutInv, IInv, AnswersOwn
    <3>2. req'[r].answer = Nobody
      BY <1>0, <1>1, <3>1 DEF SendAgain, Move, IdempotencyTypeOK
    <3> QED
      BY <2>1, <2>2, <3>2 DEF CheckoutInv, IInv, AnswersOwn, KeepsRequests
  <2> QED
    BY <2>1, <2>2, <2>4, <2>5, <2>6, <2>7, <2>8 DEF IInv, KeepsRequests
<1>2. ASSUME ServerStep PROVE IInv' /\ UNCHANGED tabVars
  <2>1. [IdempotencyNext]_idemVars
    BY <1>2 DEF ServerStep, IdempotencyNext
  <2> QED
    BY <1>2, <2>1, NextIInv, IdempotencyAssumption DEF CheckoutInv, ServerStep
<1>3. ASSUME ServerStep
      PROVE  /\ effective \subseteq effective' /\ raced \subseteq raced'
               /\ expired \subseteq expired' /\ torn \subseteq torn'
             /\ \A s \in Req : req'[s].key = req[s].key
  <2>1. ASSUME NEW k \in Key, Expire(k)
        PROVE  /\ effective \subseteq effective' /\ raced \subseteq raced'
               /\ expired \subseteq expired' /\ torn \subseteq torn'
               /\ \A s \in Req : req'[s].key = req[s].key
    BY <2>1 DEF Expire
  <2>2. ASSUME NEW r \in Req, Lookup(r) \/ Mark(r) \/ Handle(r) \/ Save(r) \/ Fail(r) \/ RequestCrash(r)
        PROVE  /\ effective \subseteq effective' /\ raced \subseteq raced'
               /\ expired \subseteq expired' /\ torn \subseteq torn'
    BY <2>2 DEF Lookup, Mark, Handle, Save, Fail, RequestCrash
  <2>3. ASSUME NEW r \in Req, Lookup(r) \/ Mark(r) \/ Handle(r) \/ Save(r) \/ Fail(r) \/ RequestCrash(r),
               NEW s \in Req
        PROVE  req'[s].key = req[s].key
    <3>1. \/ \E t : req' = [req EXCEPT ![r].step = t]
          \/ req' = [req EXCEPT ![r].step = "mark", ![r].free = TRUE]
          \/ \E a : req' = [req EXCEPT ![r].step = "replayed", ![r].answer = a]
          \/ \E a : req' = [req EXCEPT ![r].step = "save", ![r].answer = a]
          \/ \E a : req' = [req EXCEPT ![r].step = "fail", ![r].answer = a]
      <4>1. CASE Lookup(r)
        BY <4>1 DEF Lookup, Move
      <4> QED
        BY <2>3, <4>1 DEF Mark, Handle, Save, Fail, RequestCrash, Move
    <3> QED
      BY <1>0, <3>1 DEF IdempotencyTypeOK
  <2> QED
    BY <1>3, <2>1, <2>2, <2>3 DEF ServerStep
<1> QED
  BY <1>1, <1>2, <1>3

(* Two orders of one key are excused. *)
LEMMA OncePerKey ==
    ASSUME IInv, NEW o \in effective, NEW p \in effective, o # p, req[o].key = req[p].key
    PROVE  req[o].key \in raced \cup expired \cup torn
BY DEF IInv, IdempotencyTypeOK, HoldsKey, Counts

LEMMA OncePerKeyNext ==
    ASSUME IInv', NEW o \in effective', NEW p \in effective', o # p, req'[o].key = req'[p].key
    PROVE  req'[o].key \in raced' \cup expired' \cup torn'
BY DEF IInv, IdempotencyTypeOK, HoldsKey, Counts

LEMMA ServerStepInv ==
    ASSUME CheckoutInv, ServerStep \/ \E r \in Req : SendAgain(r)
    PROVE  CheckoutInv'
<1>1. /\ IInv' /\ UNCHANGED tabVars
      /\ effective \subseteq effective' /\ raced \subseteq raced'
               /\ expired \subseteq expired' /\ torn \subseteq torn'
      /\ \A s \in Req : req'[s].key = req[s].key
  BY ServerKeeps
<1>2. /\ effective \subseteq Req /\ effective' \subseteq Req /\ pressed \subseteq Req
  BY <1>1 DEF CheckoutInv, CheckoutTypeOK, IInv, IdempotencyTypeOK
<1>3. CheckoutTypeOK'
  BY <1>1 DEF CheckoutInv, CheckoutTypeOK, IInv, tabVars
<1>4. TabInv'
  BY <1>1, <1>2 DEF CheckoutInv, TabInv, tabVars
<1>5. ASSUME ~ forgot, NEW r \in pressed
      PROVE  KeyKnown(r)'
  <2>1. KeyKnown(r)
    BY <1>5 DEF CheckoutInv, Minded
  <2> QED
    BY <1>1, <1>2, <2>1 DEF KeyKnown, tabVars
<1>6. ASSUME ~ forgot, NEW o \in Pending' PROVE Remembered(o)'
  <2>1. o \in pressed /\ o \in effective' /\ o \notin settled /\ o \in Req
    BY <1>1, <1>2, <1>6 DEF Pending, tabVars
  <2>2. CASE o \in effective
    <3>1. Remembered(o)
      BY <1>6, <2>1, <2>2 DEF CheckoutInv, Minded, Pending
    <3> QED
      BY <1>1, <2>1, <3>1 DEF Remembered, tabVars
  <2>3. CASE o \notin effective
    <3>1. KeyKnown(o)
      BY <1>6, <2>1 DEF CheckoutInv, Minded
    <3>2. CASE req[o].key = stored.key
      BY <1>1, <2>1, <3>2 DEF Remembered, tabVars
    <3>3. ASSUME NEW e \in effective, req[e].key = req[o].key PROVE Remembered(o)'
      <4>1. e # o /\ e \in effective' /\ req'[o].key = req'[e].key
        BY <1>1, <1>2, <2>1, <2>3, <3>3
      <4>2. req'[o].key \in raced' \cup expired' \cup torn'
        BY <1>1, <2>1, <4>1, OncePerKeyNext
      <4> QED
        BY <4>2 DEF Remembered
    <3> QED
      BY <3>1, <3>2, <3>3 DEF KeyKnown
  <2> QED
    BY <2>2, <2>3
<1>7. Minded'
  BY <1>1, <1>5, <1>6 DEF Minded, tabVars
<1> QED
  BY <1>1, <1>3, <1>4, <1>7 DEF CheckoutInv

LEMMA IdemStays ==
    ASSUME IInv, UNCHANGED idemVars
    PROVE  IInv'
BY DEF idemVars, IInv, IdempotencyTypeOK, EffectiveRan, MarkedFree, HoldsKey,
       Counts, Underway, RecordsOwn, ReplaysOwnAnswer, AnswersOwn, IsOrder

(* A step of the tab that keeps what is stored, and makes no order. *)
LEMMA TabKeeps ==
    ASSUME CheckoutInv, UNCHANGED <<idemVars, issued, pressed, stored, forgot>>,
           settled \subseteq settled', CheckoutTypeOK',
           page' = "checkout" => stored.pending = Nobody
    PROVE  CheckoutInv'
<1>1. IInv'
  BY IdemStays DEF CheckoutInv
<1>2. TabInv'
  BY DEF CheckoutInv, TabInv, idemVars
<1>3. Minded'
  BY DEF CheckoutInv, Minded, Pending, KeyKnown, Remembered, idemVars
<1> QED
  BY <1>1, <1>2, <1>3 DEF CheckoutInv

LEMMA PageSteps ==
    ASSUME CheckoutInv,
           \/ LeaveCheckout \/ Reload \/ PollPayment \/ CancelPressed
           \/ \E r \in Req : NotOrdered(r) \/ Settle(r) \/ OpenPayment(r)
    PROVE  CheckoutInv'
<1> USE DEF CheckoutInv, CheckoutTypeOK, IInv
<1>1. CASE LeaveCheckout
  <2>1. CheckoutTypeOK'
    BY <1>1 DEF LeaveCheckout, GoTo, idemVars, IdempotencyTypeOK
  <2> QED
    BY <1>1, <2>1, TabKeeps DEF LeaveCheckout, GoTo
<1>2. CASE Reload
  <2>1. CheckoutTypeOK'
    BY <1>2 DEF Reload, GoTo, idemVars, IdempotencyTypeOK, TabInv
  <2>2. page' = "checkout" => stored.pending = Nobody
    BY <1>2 DEF Reload, GoTo
  <2> QED
    BY <1>2, <2>1, <2>2, TabKeeps DEF Reload
<1>3. CASE PollPayment
  <2>1. CheckoutTypeOK'
    BY <1>3 DEF PollPayment, Stay, idemVars, IdempotencyTypeOK
  <2> QED
    BY <1>3, <2>1, TabKeeps DEF PollPayment, Stay
<1>4. CASE CancelPressed
  <2>1. CheckoutTypeOK'
    BY <1>4 DEF CancelPressed, Stay, idemVars, IdempotencyTypeOK, Pending
  <2> QED
    BY <1>4, <2>1, TabKeeps DEF CancelPressed, Stay
<1>5. ASSUME NEW r \in Req, NotOrdered(r) PROVE CheckoutInv'
  <2>1. CheckoutTypeOK'
    BY <1>5 DEF NotOrdered, idemVars, IdempotencyTypeOK
  <2> QED
    BY <1>5, <2>1, TabKeeps DEF NotOrdered, TabInv
<1>6. ASSUME NEW r \in Req, Settle(r) PROVE CheckoutInv'
  <2>1. CheckoutTypeOK'
    BY <1>6 DEF Settle, Stay, idemVars, IdempotencyTypeOK, Pending
  <2> QED
    BY <1>6, <2>1, TabKeeps DEF Settle, Stay, TabInv
<1>7. ASSUME NEW r \in Req, OpenPayment(r) PROVE CheckoutInv'
  <2>1. CheckoutTypeOK'
    BY <1>7 DEF OpenPayment, GoTo, idemVars, IdempotencyTypeOK
  <2> QED
    BY <1>7, <2>1, TabKeeps DEF OpenPayment, GoTo
<1> QED
  BY <1>1, <1>2, <1>3, <1>4, <1>5, <1>6, <1>7

(* The pending order is dropped: it is over, or the tab forgot it. *)
LEMMA DropStep ==
    ASSUME CheckoutInv, BannerDrops \/ \E o \in Req : PaymentOver(o)
    PROVE  CheckoutInv'
<1>1. /\ stored' = [stored EXCEPT !.pending = Nobody]
      /\ forgot' = (forgot \/ stored.pending \in Pending)
      /\ news' \subseteq news
      /\ UNCHANGED <<idemVars, issued, pressed, awaited, settled, page, shown, locked>>
  BY DEF BannerDrops, PaymentOver, DropPending, Stay
<1>2. /\ stored' \in TabStore /\ stored'.key = stored.key /\ stored'.pending = Nobody
      /\ forgot' \in BOOLEAN
  <2>1. stored \in TabStore
    BY DEF CheckoutInv, CheckoutTypeOK, TabStore
  <2>2. stored' \in TabStore /\ stored'.key = stored.key /\ stored'.pending = Nobody
    <3>1. Nobody \in Req \cup {Nobody}
      OBVIOUS
    <3>2. LET y == [stored EXCEPT !.pending = Nobody]
          IN  y \in TabStore /\ y.key = stored.key /\ y.pending = Nobody
      BY ONLY <2>1, <3>1, StoredType, ZenonT(30)
    <3> QED
      BY <1>1, <3>2
  <2>3. forgot' \in BOOLEAN
    BY <1>1
  <2> QED
    BY <2>2, <2>3
<1>3. CheckoutTypeOK'
  BY <1>1, <1>2 DEF CheckoutInv, CheckoutTypeOK, TabStore, idemVars, IdempotencyTypeOK
<1>4. TabInv'
  BY <1>1, <1>2 DEF CheckoutInv, TabInv, idemVars
<1>5. Minded'
  <2> SUFFICES ASSUME ~ forgot'
               PROVE  (\A r \in pressed : KeyKnown(r)') /\ \A o \in Pending : Remembered(o)'
    BY <1>1 DEF Minded, Pending, idemVars
  <2>1. ~ forgot /\ stored.pending \notin Pending
    BY <1>1
  <2> QED
    BY <1>1, <1>2, <2>1 DEF CheckoutInv, Minded, KeyKnown, Remembered, idemVars
<1> QED
  BY <1>1, <1>3, <1>4, <1>5, IdemStays DEF CheckoutInv

LEMMA OpenStep ==
    ASSUME CheckoutInv, NEW b \in Body, OpenCheckout(b)
    PROVE  CheckoutInv'
<1>1. /\ stored' = [stored EXCEPT !.sel = b, !.key = KeyFor]
      /\ issued' = issued \cup {KeyFor}
      /\ UNCHANGED <<idemVars, pressed, awaited, news, settled, forgot>>
      /\ locked' = Nobody
      /\ \/ page' = "payment" /\ shown' = stored.pending
         \/ page' = "checkout" /\ shown' = Nobody /\ stored.pending = Nobody
  BY DEF OpenCheckout, GoTo
<1>2. KeyFor \in Key /\ (KeyFor = stored.key \/ (stored.key = Unkeyed /\ KeyFor \notin issued))
  BY KeyForType DEF OpenCheckout
<1> DEFINE k == KeyFor
<1>3. stored' \in TabStore /\ stored'.key = k /\ stored'.pending = stored.pending
  <2>1. stored \in TabStore
    BY DEF CheckoutInv, CheckoutTypeOK, TabStore
  <2>2. LET y == [stored EXCEPT !.sel = b, !.key = KeyFor]
        IN  y \in TabStore /\ y.key = KeyFor /\ y.pending = stored.pending
    <3>1. b \in Body /\ KeyFor \in Key
      BY <1>2
    <3> QED
      BY <2>1, <3>1 DEF TabStore
  <2> QED
    BY <1>1, <2>2
<1>4. \A r \in Req : req[r].key \in Key /\ req[r].key # Unkeyed
  BY CheckoutAssumption DEF CheckoutInv, IInv, IdempotencyTypeOK
<1>5. pressed \subseteq Req /\ effective \subseteq Req
  BY DEF CheckoutInv, CheckoutTypeOK, IInv, IdempotencyTypeOK
<1> HIDE DEF k
<1>6. CheckoutTypeOK'
  BY <1>1, <1>2, <1>3
  DEF CheckoutInv, CheckoutTypeOK, TabStore, idemVars, IdempotencyTypeOK, TabInv, k
<1>7. TabInv'
  <2>1. \A r \in pressed : req'[r].key \in issued'
    BY <1>1 DEF CheckoutInv, TabInv, idemVars
  <2>2. stored'.key \in issued' /\ stored'.pending \in effective' \cup {Nobody}
    BY <1>1, <1>3 DEF CheckoutInv, TabInv, idemVars, k
  <2>3. stored'.pending # Nobody => \A r \in pressed : req'[r].key # stored'.key
    BY <1>1, <1>2, <1>3 DEF CheckoutInv, TabInv, idemVars, k
  <2> QED
    BY <1>1, <1>3, <2>1, <2>2, <2>3 DEF TabInv
<1>8. Minded'
  <2> SUFFICES ASSUME ~ forgot
               PROVE  (\A r \in pressed : KeyKnown(r)') /\ \A o \in Pending : Remembered(o)'
    BY <1>1 DEF Minded, Pending, idemVars
  <2>1. \A r \in pressed : req[r].key = stored.key => req[r].key = k
    BY <1>2, <1>4, <1>5 DEF k
  <2>2. ASSUME NEW r \in pressed PROVE KeyKnown(r)'
    <3>1. KeyKnown(r)
      BY DEF CheckoutInv, Minded
    <3> QED
      BY <1>1, <1>3, <2>1, <3>1 DEF KeyKnown, idemVars
  <2>3. ASSUME NEW o \in Pending PROVE Remembered(o)'
    <3>1. Remembered(o) /\ o \in pressed
      BY DEF CheckoutInv, Minded, Pending
    <3> QED
      BY <1>1, <1>3, <2>1, <3>1 DEF Remembered, idemVars
  <2> QED
    BY <2>2, <2>3
<1> QED
  BY <1>1, <1>6, <1>7, <1>8, IdemStays DEF CheckoutInv

LEMMA PressPayStep == ASSUME CheckoutInv, PressPay PROVE CheckoutInv'
<1>1. PICK r : r = CHOOSE x \in UnusedReq : TRUE
  OBVIOUS
<1> DEFINE k == KeyFor
<1>2. /\ UnusedReq # {} /\ HasKey /\ stored.sel # NoBody /\ page = "checkout"
      /\ Arrive(r, k, stored.sel)
      /\ stored' = [stored EXCEPT !.key = k] /\ issued' = issued \cup {k}
      /\ pressed' = pressed \cup {r} /\ locked' = r /\ awaited' = awaited \cup {r}
      /\ UNCHANGED <<page, shown, news, settled, forgot>>
  BY <1>1 DEF PressPay
<1>3. r \in Req /\ req[r].step = "new"
  <2>1. (CHOOSE x \in UnusedReq : TRUE) \in UnusedReq
    BY <1>2
  <2> QED
    BY <1>1, <2>1 DEF UnusedReq
<1>4. KeyFor \in Key /\ (KeyFor = stored.key \/ (stored.key = Unkeyed /\ KeyFor \notin issued))
  BY <1>2, KeyForType
<1>5. /\ stored \in TabStore /\ stored.sel \in Body /\ stored.pending = Nobody
      /\ r \notin effective
  BY <1>2, <1>3 DEF CheckoutInv, CheckoutTypeOK, TabStore, TabInv, IInv, EffectiveRan
<1>6. stored' \in TabStore /\ stored'.key = k /\ stored'.pending = Nobody
  BY <1>2, <1>4, <1>5, StoredType
<1> HIDE DEF k
<1>7. IInv'
  BY <1>2, <1>3, <1>4, <1>5, ArriveIInv, IdempotencyAssumption DEF CheckoutInv, k
<1>8. /\ req'[r].key = k /\ \A s \in Req \ {r} : req'[s] = req[s]
      /\ UNCHANGED <<effective, raced, expired, torn>>
  BY <1>2, <1>3 DEF Arrive, CheckoutInv, IInv, IdempotencyTypeOK, NewReq
<1>9. \A s \in Req : req[s].key \in Key /\ req[s].key # Unkeyed
  BY CheckoutAssumption DEF CheckoutInv, IInv, IdempotencyTypeOK
<1>10. pressed \subseteq Req /\ effective \subseteq Req
  BY DEF CheckoutInv, CheckoutTypeOK, IInv, IdempotencyTypeOK
<1>11. CheckoutTypeOK'
  BY <1>2, <1>3, <1>4, <1>6, <1>7, <1>8
  DEF CheckoutInv, CheckoutTypeOK, TabStore, IInv, k
<1>12. TabInv'
  BY <1>2, <1>6, <1>8, <1>10 DEF CheckoutInv, TabInv
<1>13. Minded'
  <2> SUFFICES ASSUME ~ forgot
               PROVE  (\A s \in pressed' : KeyKnown(s)') /\ \A o \in Pending' : Remembered(o)'
    BY <1>2 DEF Minded
  <2>1. \A s \in pressed : req[s].key = stored.key => req[s].key = k
    BY <1>4, <1>9, <1>10 DEF k
  <2>2. ASSUME NEW s \in pressed' PROVE KeyKnown(s)'
    <3>1. CASE s = r
      BY <1>6, <1>8, <3>1 DEF KeyKnown
    <3>2. CASE s # r
      <4>1. s \in pressed /\ s \in Req /\ KeyKnown(s)
        BY <1>2, <1>10, <2>2, <3>2 DEF CheckoutInv, Minded
      <4>2. req'[s] = req[s] /\ \A e \in effective : req'[e] = req[e]
        BY <1>5, <1>8, <1>10, <3>2, <4>1
      <4> QED
        BY <1>6, <1>8, <2>1, <4>1, <4>2 DEF KeyKnown
    <3> QED
      BY <3>1, <3>2
  <2>3. ASSUME NEW o \in Pending' PROVE Remembered(o)'
    <3>1. o \in pressed /\ o \in Pending /\ o # r /\ o \in Req
      BY <1>2, <1>5, <1>8, <1>10, <2>3 DEF Pending
    <3>2. Remembered(o) /\ req'[o] = req[o] /\ o # Nobody
      BY <1>8, <3>1, IdempotencyAssumption DEF CheckoutInv, Minded
    <3> QED
      BY <1>5, <1>6, <1>8, <2>1, <3>1, <3>2 DEF Remembered
  <2> QED
    BY <2>2, <2>3
<1> QED
  BY <1>7, <1>11, <1>12, <1>13 DEF CheckoutInv

(***************************************************************************)
(* An answer arrives: its order is the pending one, and has the key of the *)
(* press.                                                                  *)
(***************************************************************************)
LEMMA OrderedStep == ASSUME CheckoutInv, NEW r \in Req, Ordered(r) PROVE CheckoutInv'
<1>1. PICK o : o = req[r].answer
  OBVIOUS
<1>2. /\ stored' = [Nothing EXCEPT !.pending = o]
      /\ page' = "payment" /\ shown' = o /\ locked' = Nobody
      /\ forgot' = (forgot \/ stored.key \notin {req[r].key, Unkeyed}
                           \/ stored.pending \in Pending \ {o})
      /\ awaited' = awaited \ {r}
      /\ UNCHANGED <<idemVars, issued, pressed, news, settled>>
  BY <1>1 DEF Ordered, GoTo
<1>3. o \in effective /\ req[o].key = req[r].key
  <2>1. req[r].step = "replayed" => req[r].answer \in effective /\ req[req[r].answer].key = req[r].key
    BY DEF CheckoutInv, IInv, ReplaysOwnAnswer
  <2>2. req[r].step \in {"replayed", "save", "ended"} /\ req[r].answer # Nobody
    BY DEF Ordered
  <2>3. req[r].step # "replayed" => req[r].answer \in effective /\ req[req[r].answer].key = req[r].key
    BY <2>2 DEF CheckoutInv, IInv, AnswersOwn
  <2> QED
    BY <1>1, <2>1, <2>3
<1>4. \A s \in Req : req[s].key \in Key /\ req[s].key # Unkeyed
  BY CheckoutAssumption DEF CheckoutInv, IInv, IdempotencyTypeOK
<1>5. pressed \subseteq Req /\ effective \subseteq Req
  BY DEF CheckoutInv, CheckoutTypeOK, IInv, IdempotencyTypeOK
<1>6. stored' \in TabStore /\ stored'.key = Unkeyed /\ stored'.pending = o
  <2>1. LET y == [Nothing EXCEPT !.pending = o]
        IN  y \in TabStore /\ y.key = Nothing.key /\ y.pending = o
    <3>1. o \in Req \cup {Nobody}
      BY <1>3, <1>5
    <3> QED
      BY ONLY <3>1, StoredType, Zenon
  <2> QED
    BY <1>2, <2>1, StoredType
<1>7. forgot' \in BOOLEAN
  BY <1>2 DEF CheckoutInv, CheckoutTypeOK
<1>8. CheckoutTypeOK'
  BY <1>2, <1>3, <1>6, <1>7
  DEF CheckoutInv, CheckoutTypeOK, TabStore, idemVars, IdempotencyTypeOK
<1>9. TabInv'
  BY <1>2, <1>3, <1>4, <1>5, <1>6 DEF CheckoutInv, TabInv, idemVars
<1>10. Minded'
  <2> SUFFICES ASSUME ~ forgot'
               PROVE  (\A s \in pressed : KeyKnown(s)') /\ \A p \in Pending : Remembered(p)'
    BY <1>2 DEF Minded, Pending, idemVars
  <2>1. /\ ~ forgot /\ stored.key \in {req[r].key, Unkeyed}
        /\ stored.pending \notin Pending \ {o}
    BY <1>2
  <2>2. ASSUME NEW s \in pressed PROVE KeyKnown(s)'
    <3>1. KeyKnown(s) /\ req[s].key # Unkeyed
      BY <1>4, <1>5, <2>1 DEF CheckoutInv, Minded
    <3>2. \E e \in effective : req[e].key = req[s].key
      BY <1>3, <2>1, <3>1 DEF KeyKnown
    <3> QED
      BY <1>2, <3>2 DEF KeyKnown, idemVars
  <2>3. ASSUME NEW p \in Pending PROVE Remembered(p)'
    <3>1. Remembered(p) /\ p \in effective /\ req[p].key # Unkeyed
      BY <1>4, <1>5, <2>1 DEF CheckoutInv, Minded, Pending
    <3>2. req[p].key = stored.key => p = o \/ req[p].key \in raced \cup expired \cup torn
      BY <1>3, <2>1, <3>1, OncePerKey DEF CheckoutInv
    <3>3. stored.pending = p => p = o
      BY <2>1
    <3> QED
      BY <1>2, <1>6, <3>1, <3>2, <3>3 DEF Remembered, idemVars
  <2> QED
    BY <2>2, <2>3
<1> QED
  BY <1>2, <1>8, <1>9, <1>10, IdemStays DEF CheckoutInv

(***************************************************************************)
(* Checkout: a tab has two orders to pay at one time only if their key was *)
(* raced, ran out or was deleted by a request that left its order behind,  *)
(* or an answer made the tab forget the first, whatever answers are lost,  *)
(* presses repeated and pages left: for any number of requests, keys,      *)
(* presses and selections.                                                 *)
(***************************************************************************)
THEOREM SecondOrderExcused == CheckoutSpec => [](CheckoutTypeOK /\ NoSecondOrder)
<1>1. CheckoutInv /\ [CheckoutNext]_checkoutVars => CheckoutInv'
  <2> SUFFICES ASSUME CheckoutInv, [CheckoutNext]_checkoutVars PROVE CheckoutInv'
    OBVIOUS
  <2>1. CASE UNCHANGED checkoutVars
    <3>1. UNCHANGED <<idemVars, issued, pressed, stored, forgot, settled, page>> /\ CheckoutTypeOK'
      BY <2>1 DEF checkoutVars, tabVars, CheckoutInv, CheckoutTypeOK, idemVars, IdempotencyTypeOK
    <3> QED
      BY <3>1, TabKeeps DEF CheckoutInv, TabInv
  <2> QED
    BY <2>1, ServerStepInv, PageSteps, DropStep, OpenStep, PressPayStep, OrderedStep
    DEF CheckoutNext
<1>2. CheckoutInv => CheckoutTypeOK /\ NoSecondOrder
  <2> SUFFICES ASSUME CheckoutInv, ~ forgot, NEW o \in Pending, NEW p \in Pending, o # p,
                      {req[o].key, req[p].key} \cap (raced \cup expired \cup torn) = {}
               PROVE  FALSE
    BY DEF CheckoutInv, NoSecondOrder
  <2>1. /\ Remembered(o) /\ Remembered(p)
        /\ o \in pressed /\ p \in pressed /\ o \in effective /\ p \in effective
        /\ o \in Req /\ p \in Req /\ o # Nobody /\ p # Nobody
    BY IdempotencyAssumption DEF CheckoutInv, CheckoutTypeOK, Minded, Pending
  <2>2. req[o].key # req[p].key
    BY <2>1, OncePerKey DEF CheckoutInv
  <2> QED
    BY <2>1, <2>2 DEF Remembered, CheckoutInv, TabInv
<1> QED
  BY <1>1, <1>2, CheckoutInvInit, PTL DEF CheckoutSpec

-----------------------------------------------------------------------------
(* The screens of the event desk.  A row that was deleted. *)
Deleted(i) == i <= lastRow /\ eventOf[i] = NoEvent

(* What the panel or the save under way would delete is what the organiser *)
(* removed, and a panel whose failed save deleted a row asks for it again. *)
Removing ==
    /\ ~ panel.switched => panel.rows \ panel.tiers \subseteq removed
    /\ ~ save.switched => save.drop \subseteq removed
    /\ \A i \in RowId : eventOf[i] # NoEvent => i <= lastRow
    /\ \A i \in save.dropped : Deleted(i)
    /\ panel.halfway => \E i \in panel.rows \ panel.tiers :
                           Deleted(i) /\ (save.mine => i \in save.drop)

(* The ticket types that the form's concert was submitted with are made or *)
(* on their way, no others are, and no later concert has any.              *)
FormSent ==
    /\ form.step # "filling" =>
         /\ form.concert \in 1..MaxForms
         /\ \A t \in form.sent : t \in made[form.concert] \/ <<form.concert, t>> \in form.flight
    /\ form.step = "submitted" => \A t \in Tier : <<form.concert, t>> \notin form.flight
    /\ \A c \in 1..MaxForms, t \in Tier :
          t \in made[c] \/ <<c, t>> \in form.flight =>
             c <= form.concert /\ (c = form.concert => t \in form.sent)

DeskInv == DeskTypeOK /\ RemovedByHand /\ HalfSavedNeverSaved /\ Removing /\ FormSent

Panel == [event : Event \cup {NoEvent}, rows : SUBSET RowId,
          tiers : SUBSET (RowId \cup NewTier), saving : BOOLEAN,
          switched : BOOLEAN, made : SUBSET NewTier, halfway : BOOLEAN]
SaveSet == [event : Event \cup {NoEvent}, drop : SUBSET RowId, put : SUBSET NewTier,
         mine : BOOLEAN, switched : BOOLEAN, dropped : SUBSET RowId]

FormSet == [step : {"filling", "submitting", "submitted"}, concert : 0..MaxForms,
            flight : SUBSET ((1..MaxForms) \X Tier), tiers : SUBSET Tier, sent : SUBSET Tier]

LEMMA DeskInvInit == DeskInit => DeskInv
<1> SUFFICES ASSUME DeskInit PROVE DeskInv
  OBVIOUS
<1> USE DeskAssumption
<1>1. DeskTypeOK
  <2>1. FreshList \in [Event -> SUBSET RowId] /\ Closed \in Panel /\ NoSave \in SaveSet
    BY DEF FreshList, RowsOf, Closed, NoSave, Panel, SaveSet
  <2>2. /\ \A t \in Tier : EmptyForm({t}) \in FormSet
        /\ [c \in 1..MaxForms |-> {}] \in [1..MaxForms -> SUBSET Tier]
    BY DEF EmptyForm, FormSet
  <2>3. panel \in Panel /\ save \in SaveSet /\ listed \in [Event -> SUBSET RowId]
    BY <2>1 DEF DeskInit
  <2>4. /\ presses \in 0..MaxSaves /\ gone \subseteq RowId /\ removed \subseteq RowId
        /\ wiped \subseteq gone
    BY DEF DeskInit
  <2>5. form \in FormSet /\ made = [c \in 1..MaxForms |-> {}] /\ recovered = FALSE
    BY <2>2 DEF DeskInit
  <2> QED
    BY <2>2, <2>3, <2>4, <2>5, Zenon DEF DeskInit, DeskTypeOK, Panel, SaveSet, FormSet
<1>2. RemovedByHand /\ HalfSavedNeverSaved /\ Removing /\ FormSent
  BY DEF DeskInit, RemovedByHand, HalfSavedNeverSaved, Removing, FormSent, Closed, NoSave,
         EmptyForm, RowId
<1> QED
  BY <1>1, <1>2 DEF DeskInv

(* A row more; no deleted one comes back. *)
LEMMA DeskInsertKeeps ==
    ASSUME DeskTypeOK, \A i \in RowId : eventOf[i] # NoEvent => i <= lastRow,
           NEW e \in Event \cup {NoEvent}, Insert(e)
    PROVE  /\ eventOf' \in [RowId -> Event \cup {NoEvent}] /\ lastRow' \in 0..MaxRows
           /\ \A i \in RowId : eventOf'[i] # NoEvent => i <= lastRow'
           /\ \A i \in RowId : Deleted(i) => Deleted(i)'
BY DeskAssumption DEF DeskTypeOK, Insert, Deleted, RowId

LEMMA PanelKeeps == DeskInv /\ PanelNext => DeskInv'
<1> SUFFICES ASSUME DeskInv, PanelNext PROVE DeskInv'
  OBVIOUS
<1> USE DeskAssumption
<1>t. DeskTypeOK /\ RemovedByHand /\ HalfSavedNeverSaved /\ Removing /\ FormSent
      /\ panel \in Panel /\ save \in SaveSet
  BY DEF DeskInv, DeskTypeOK, Panel, SaveSet
<1>c. Closed \in Panel /\ NoSave \in SaveSet
  BY DEF Closed, NoSave, Panel, SaveSet
<1>f. ASSUME UNCHANGED formVars PROVE FormSent'
  BY <1>t, <1>f DEF FormSent, formVars
<1>1. CASE FetchEvents
  <2>1. FreshList \in [Event -> SUBSET RowId]
    BY DEF FreshList, RowsOf
  <2> QED
    BY <1>t, <1>1, <1>f, <2>1
    DEF FetchEvents, DeskInv, DeskTypeOK, RemovedByHand, HalfSavedNeverSaved, Removing, Deleted, formVars
<1>2. ASSUME NEW e \in Event, TypeAddedElsewhere(e) PROVE DeskInv'
  <2>1. /\ eventOf' \in [RowId -> Event \cup {NoEvent}] /\ lastRow' \in 0..MaxRows
        /\ \A i \in RowId : eventOf'[i] # NoEvent => i <= lastRow'
        /\ \A i \in RowId : Deleted(i) => Deleted(i)'
    BY <1>t, <1>2, DeskInsertKeeps DEF TypeAddedElsewhere, Removing
  <2>2. Removing'
    BY <1>t, <1>2, <2>1 DEF TypeAddedElsewhere, Removing, Panel, SaveSet
  <2> QED
    BY <1>t, <1>2, <1>f, <2>1, <2>2
    DEF TypeAddedElsewhere, DeskInv, DeskTypeOK, RemovedByHand, HalfSavedNeverSaved, formVars
<1>3. ASSUME NEW e \in Event, Edit(e) PROVE DeskInv'
  <2>1. listed[e] \subseteq RowId
    BY <1>t DEF DeskTypeOK
  <2>2. panel' \in Panel /\ panel'.event = e /\ ~ panel'.halfway
        /\ (~ panel'.switched => panel'.rows = panel'.tiers)
    <3>1. CASE panel = Closed
      BY <1>3, <1>c, <2>1, <3>1 DEF Edit, Panel, Closed
    <3>2. CASE panel # Closed
      BY <1>3, <1>t, <2>1, <3>2 DEF Edit, Panel
    <3> QED
      BY <3>1, <3>2
  <2>3. Removing'
    BY <1>t, <1>3, <2>2 DEF Edit, Removing, Deleted
  <2>4. DeskTypeOK'
    BY <1>t, <1>3, <2>2 DEF Edit, DeskTypeOK, Panel, formVars
  <2> QED
    BY <1>t, <1>3, <1>f, <2>3, <2>4 DEF Edit, DeskInv, RemovedByHand, HalfSavedNeverSaved, formVars
<1>4. CASE ClosePanel
  <2>1. save' \in SaveSet /\ save'.switched = save.switched /\ save'.drop = save.drop
        /\ save'.dropped = save.dropped
    BY <1>t, <1>4 DEF ClosePanel, SaveSet
  <2>2. Removing'
    BY <1>t, <1>4, <2>1 DEF ClosePanel, Removing, Closed, Deleted
  <2>3. DeskTypeOK'
    BY <1>t, <1>4, <1>c, <2>1 DEF ClosePanel, DeskTypeOK, Panel, SaveSet, formVars
  <2> QED
    BY <1>t, <1>4, <1>f, <2>2, <2>3 DEF ClosePanel, DeskInv, RemovedByHand, HalfSavedNeverSaved, formVars
<1>5. ASSUME NEW i \in NewTier, AddTier(i) PROVE DeskInv'
  <2>1. panel' \in Panel /\ panel'.tiers = panel.tiers \cup {i} /\ panel'.rows = panel.rows
        /\ panel'.switched = panel.switched /\ panel'.halfway = panel.halfway
        /\ panel'.event = panel.event
    BY <1>t, <1>5 DEF AddTier, Panel
  <2>2. i \notin RowId /\ panel.rows \subseteq RowId
    BY <1>t DEF NewTier, RowId, Panel
  <2>3. Removing'
    BY <1>t, <1>5, <2>1, <2>2 DEF AddTier, Removing, Deleted
  <2>4. DeskTypeOK'
    BY <1>t, <1>5, <2>1 DEF AddTier, DeskTypeOK, Panel, formVars
  <2> QED
    BY <1>t, <1>5, <1>f, <2>3, <2>4 DEF AddTier, DeskInv, RemovedByHand, HalfSavedNeverSaved, formVars
<1>6. ASSUME NEW i \in panel.tiers, RemoveTier(i) PROVE DeskInv'
  <2>1. panel' \in Panel /\ panel'.tiers = panel.tiers \ {i} /\ panel'.rows = panel.rows
        /\ panel'.switched = panel.switched /\ panel'.halfway = panel.halfway
        /\ panel'.event = panel.event
    BY <1>t, <1>6 DEF RemoveTier, Panel
  <2>2. panel.rows \subseteq RowId
    BY <1>t DEF Panel
  <2>3. Removing'
    BY <1>t, <1>6, <2>1, <2>2 DEF RemoveTier, Removing, Deleted
  <2>4. DeskTypeOK'
    BY <1>t, <1>6, <2>1 DEF RemoveTier, DeskTypeOK, Panel, formVars
  <2> QED
    BY <1>t, <1>6, <1>f, <2>3, <2>4 DEF RemoveTier, DeskInv, RemovedByHand, HalfSavedNeverSaved, formVars
<1>7. CASE PressSave
  <2>1. panel' \in Panel /\ panel'.tiers = panel.tiers /\ panel'.rows = panel.rows
        /\ panel'.switched = panel.switched /\ panel'.halfway = panel.halfway
        /\ panel'.event = panel.event
    BY <1>t, <1>7 DEF PressSave, Panel
  <2>2. save' \in SaveSet /\ save'.drop = panel.rows \ panel.tiers /\ save'.dropped = {}
        /\ save'.switched = panel.switched
    BY <1>t, <1>7, <1>c DEF PressSave, Panel, SaveSet, NoSave, Dropped
  <2>3. Removing'
    BY <1>t, <1>7, <2>1, <2>2 DEF PressSave, Removing, Deleted
  <2>4. DeskTypeOK'
    <3>1. presses' \in 0..MaxSaves /\ panel' \in Panel /\ save' \in SaveSet
      BY <1>t, <1>7, <2>1, <2>2 DEF PressSave, DeskTypeOK
    <3>2. UNCHANGED <<eventOf, lastRow, listed, removed, gone, wiped, recovered, form, made>>
      BY <1>7 DEF PressSave, formVars
    <3> QED
      BY <1>t, <3>1, <3>2 DEF DeskTypeOK, Panel, SaveSet
  <2> QED
    BY <1>t, <1>7, <1>f, <2>3, <2>4 DEF PressSave, DeskInv, RemovedByHand, HalfSavedNeverSaved, formVars
<1>8. ASSUME NEW i \in save.drop, DropRow(i) PROVE DeskInv'
  <2>1. i \in RowId /\ eventOf[i] # NoEvent /\ i <= lastRow
    BY <1>t, <1>8 DEF DropRow, SaveSet, Removing
  <2>2. save' \in SaveSet /\ save'.drop = save.drop \ {i} /\ save'.dropped = save.dropped \cup {i}
        /\ save'.switched = save.switched /\ save'.mine = save.mine
    BY <1>t, <1>8, <2>1 DEF DropRow, SaveSet
  <2>3. eventOf' = [eventOf EXCEPT ![i] = NoEvent] /\ UNCHANGED <<lastRow, panel, removed>>
    BY <1>8 DEF DropRow
  <2>4. Removing'
    BY <1>t, <2>1, <2>2, <2>3 DEF Removing, Deleted, DeskTypeOK
  <2>5. DeskTypeOK'
    BY <1>t, <1>8, <2>1, <2>2 DEF DropRow, DeskTypeOK, SaveSet, formVars
  <2>6. RemovedByHand'
    BY <1>t, <1>8 DEF DropRow, RemovedByHand, Removing
  <2> QED
    BY <1>t, <1>8, <1>f, <2>4, <2>5, <2>6 DEF DropRow, DeskInv, HalfSavedNeverSaved, formVars
<1>9. ASSUME NEW i \in NewTier, PutTier(i) PROVE DeskInv'
  <2>1. save.event \in Event \cup {NoEvent} /\ Insert(save.event)
    BY <1>t, <1>9 DEF PutTier, SaveSet
  <2>2. /\ eventOf' \in [RowId -> Event \cup {NoEvent}] /\ lastRow' \in 0..MaxRows
        /\ \A j \in RowId : eventOf'[j] # NoEvent => j <= lastRow'
        /\ \A j \in RowId : Deleted(j) => Deleted(j)'
    BY <1>t, <2>1, DeskInsertKeeps DEF Removing
  <2>3. save' \in SaveSet /\ save'.drop = save.drop /\ save'.dropped = save.dropped
        /\ save'.switched = save.switched /\ save'.mine = save.mine
    BY <1>t, <1>9 DEF PutTier, SaveSet
  <2>4. panel' \in Panel /\ panel'.tiers = panel.tiers /\ panel'.rows = panel.rows
        /\ panel'.switched = panel.switched /\ panel'.halfway = panel.halfway
        /\ panel'.event = panel.event
    BY <1>t, <1>9 DEF PutTier, Panel
  <2>5. Removing'
    BY <1>t, <1>9, <2>2, <2>3, <2>4 DEF PutTier, Removing, Panel, SaveSet
  <2>6. DeskTypeOK'
    BY <1>t, <1>9, <2>2, <2>3, <2>4 DEF PutTier, DeskTypeOK, Panel, SaveSet, formVars
  <2> QED
    BY <1>t, <1>9, <1>f, <2>5, <2>6 DEF PutTier, DeskInv, RemovedByHand, HalfSavedNeverSaved, formVars
<1>10. CASE SaveFails
  <2>1. panel' \in Panel /\ panel'.tiers = panel.tiers /\ panel'.rows = panel.rows
        /\ panel'.switched = panel.switched /\ panel'.event = panel.event
    BY <1>t, <1>10 DEF SaveFails, Panel
  <2>2. panel'.halfway => panel.halfway \/ save.dropped \cap (panel.rows \ panel.tiers) # {}
    BY <1>t, <1>10 DEF SaveFails, Panel, Dropped
  <2>3. Removing'
    BY <1>t, <1>10, <1>c, <2>1, <2>2 DEF SaveFails, Removing, NoSave, Deleted
  <2>4. DeskTypeOK'
    BY <1>t, <1>10, <1>c, <2>1 DEF SaveFails, DeskTypeOK, Panel, SaveSet, formVars
  <2> QED
    BY <1>t, <1>10, <1>f, <2>3, <2>4 DEF SaveFails, DeskInv, RemovedByHand, HalfSavedNeverSaved, formVars
<1>11. CASE SaveEnds
  <2>1. FreshList \in [Event -> SUBSET RowId]
    BY DEF FreshList, RowsOf
  <2>2. ~ (save.mine /\ panel.halfway)
    BY <1>t, <1>11 DEF SaveEnds, Removing
  <2>3. Removing'
    BY <1>t, <1>11, <1>c DEF SaveEnds, Removing, NoSave, Closed, Deleted
  <2>4. DeskTypeOK'
    BY <1>t, <1>11, <1>c, <2>1, <2>2 DEF SaveEnds, DeskTypeOK, HalfSavedNeverSaved, Panel, SaveSet, formVars
  <2> QED
    BY <1>t, <1>11, <1>f, <2>2, <2>3, <2>4 DEF SaveEnds, DeskInv, RemovedByHand, HalfSavedNeverSaved, formVars
<1> QED
  BY <1>1, <1>2, <1>3, <1>4, <1>5, <1>6, <1>7, <1>8, <1>9, <1>10, <1>11 DEF PanelNext

LEMMA FormKeeps == DeskInv /\ FormNext => DeskInv'
<1> SUFFICES ASSUME DeskInv, FormNext PROVE DeskInv'
  OBVIOUS
<1> USE DeskAssumption
<1>1. form \in FormSet /\ made \in [1..MaxForms -> SUBSET Tier] /\ FormSent
  BY DEF DeskInv, DeskTypeOK, FormSet
<1>2. form' \in FormSet /\ made' \in [1..MaxForms -> SUBSET Tier] /\ FormSent'
  <2>1. CASE Submit
    <3>1. /\ form.step = "filling" /\ form'.step = "submitting" /\ made' = made
          /\ form.concert < MaxForms /\ form'.concert = form.concert + 1
          /\ form'.sent = form.tiers /\ form'.tiers = form.tiers
          /\ form'.flight = form.flight \cup {form'.concert} \X form.tiers
          /\ form' = [form EXCEPT !.step = form'.step, !.concert = form'.concert,
                                  !.sent = form'.sent, !.flight = form'.flight]
      BY <1>1, <2>1 DEF Submit, FormSet
    <3>2. form' \in FormSet /\ form'.concert \in 1..MaxForms
      BY <1>1, <3>1 DEF FormSet
    <3>3. \A c \in 1..MaxForms, t \in Tier :
            t \in made'[c] \/ <<c, t>> \in form'.flight =>
               c <= form'.concert /\ (c = form'.concert => t \in form'.sent)
      BY <1>1, <3>1 DEF FormSent, FormSet
    <3> QED
      BY <1>1, <3>1, <3>2, <3>3 DEF FormSent
  <2>2. CASE ShowSubmitted
    BY <1>1, <2>2, SMTT(30) DEF ShowSubmitted, Answered, FormSent, FormSet
  <2>3. ASSUME NEW c \in 1..MaxForms, NEW t \in Tier, TierMade(c, t)
        PROVE  form' \in FormSet /\ made' \in [1..MaxForms -> SUBSET Tier] /\ FormSent'
    <3>1. /\ <<c, t>> \in form.flight /\ form'.concert = form.concert
          /\ form'.sent = form.sent /\ form'.tiers = form.tiers
          /\ form'.flight = form.flight \ {<<c, t>>}
          /\ form'.step = form.step
          /\ c <= form.concert /\ (c = form.concert => t \in form.sent)
      BY <1>1, <2>3 DEF TierMade, FormSent, FormSet
    <3>2. form' \in FormSet /\ made' \in [1..MaxForms -> SUBSET Tier]
      BY <1>1, <2>3 DEF TierMade, FormSet
    <3>3. \A d \in 1..MaxForms, u \in Tier :
            /\ <<d, u>> \in form'.flight <=> <<d, u>> \in form.flight /\ <<d, u>> # <<c, t>>
            /\ u \in made'[d] <=> u \in made[d] \/ <<d, u>> = <<c, t>>
      BY <1>1, <2>3, <3>1 DEF TierMade, FormSet
    <3>4. form.sent \subseteq Tier
      BY <1>1 DEF FormSet
    <3> QED
      BY <1>1, <3>1, <3>2, <3>3, <3>4 DEF FormSent
  <2>4. ASSUME NEW c \in 1..MaxForms, NEW t \in Tier, TierRefused(c, t)
        PROVE  form' \in FormSet /\ made' \in [1..MaxForms -> SUBSET Tier] /\ FormSent'
    <3>1. /\ <<c, t>> \in form.flight /\ form'.concert = form.concert
          /\ form'.sent = form.sent /\ form'.tiers = form.tiers
          /\ form'.flight = form.flight \ {<<c, t>>}
          /\ form'.step = IF c = form.concert THEN "filling" ELSE form.step
          /\ c <= form.concert /\ (c = form.concert => t \in form.sent)
      BY <1>1, <2>4 DEF TierRefused, FormSent, FormSet
    <3>2. form' \in FormSet /\ made' \in [1..MaxForms -> SUBSET Tier]
      BY <1>1, <2>4 DEF TierRefused, FormSet
    <3>3. \A d \in 1..MaxForms, u \in Tier :
            /\ <<d, u>> \in form'.flight <=> <<d, u>> \in form.flight /\ <<d, u>> # <<c, t>>
            /\ u \in made'[d] <=> u \in made[d]
      BY <1>1, <2>4, <3>1 DEF TierRefused, FormSet
    <3>4. form.sent \subseteq Tier
      BY <1>1 DEF FormSet
    <3> QED
      BY <1>1, <3>1, <3>2, <3>3, <3>4 DEF FormSent
  <2>5. ASSUME NEW T \in SUBSET Tier, EditTiers(T)
        PROVE  form' \in FormSet /\ made' \in [1..MaxForms -> SUBSET Tier] /\ FormSent'
    BY <1>1, <2>5 DEF EditTiers, FormSent, FormSet
  <2>6. \A t \in Tier : form.tiers \cup {t} \in SUBSET Tier /\ form.tiers \ {t} \in SUBSET Tier
    BY <1>1 DEF FormSet
  <2> QED
    BY <2>1, <2>2, <2>3, <2>4, <2>5, <2>6 DEF FormNext
<1> QED
  BY <1>2
  DEF FormNext, DeskInv, DeskTypeOK, RemovedByHand, HalfSavedNeverSaved, Removing, Deleted, FormSet

(***************************************************************************)
(* The organiser's panel and form (EventDesk): a save deletes only rows    *)
(* whose tiers the organiser removed, unless the panel was switched to     *)
(* another event; a save that failed after a deletion never goes through   *)
(* again; a form that says the event is created has made the ticket types  *)
(* it was submitted with.  For any number of events, rows, tiers, saves    *)
(* and forms.                                                              *)
(***************************************************************************)
THEOREM DeskHolds == DeskSpec => [](DeskTypeOK /\ DeskAsTold)
<1>1. DeskInv => DeskTypeOK /\ DeskAsTold
  <2> SUFFICES ASSUME DeskInv, form.step = "submitted"
               PROVE  made[form.concert] = form.sent
    BY DEF DeskInv, DeskAsTold, SubmittedWhole
  <2>1. /\ form.concert \in 1..MaxForms /\ made[form.concert] \subseteq Tier
        /\ form.sent \subseteq Tier /\ FormSent
    BY DEF DeskInv, DeskTypeOK, FormSent
  <2> QED
    BY <2>1 DEF FormSent
<1>2. DeskInv /\ UNCHANGED deskVars => DeskInv'
  BY DEF deskVars, DeskInv, DeskTypeOK, RemovedByHand, HalfSavedNeverSaved, Removing, Deleted, FormSent
<1> QED
  BY <1>1, <1>2, DeskInvInit, PanelKeeps, FormKeeps, PTL DEF DeskSpec

-----------------------------------------------------------------------------
(* The waiting room. *)
TabState == [page : {"away", "waiting", "seats", "checkout"},
             shows : {"loading", "waiting", "admitted", "error"},
             session : Session \cup {NoSession}, token : Session \cup {NoSession},
             intent : BOOLEAN, must : BOOLEAN, granted : BOOLEAN]

(* The server numbers its sessions in the order of their joins. *)
RoomInv == RoomTypeOK /\ known \subseteq 1..joins

(* What a step may make of a tab. *)
LEMMA TabStateSet ==
    /\ Away \in TabState
    /\ \A t \in TabState, s \in Session \cup {NoSession} :
         /\ [t EXCEPT !.session = s, !.token = s, !.shows = "admitted"] \in TabState
         /\ [t EXCEPT !.session = s, !.shows = "waiting"] \in TabState
         /\ [t EXCEPT !.token = s, !.shows = "admitted"] \in TabState
         /\ [t EXCEPT !.token = s, !.granted = TRUE] \in TabState
         /\ ToWaiting([t EXCEPT !.session = s]) \in TabState
         /\ ToWaiting([t EXCEPT !.token = s]) \in TabState
    /\ \A t \in TabState : ToWaiting(t) \in TabState
    /\ \A t \in TabState, b \in BOOLEAN :
         /\ [t EXCEPT !.granted = b] \in TabState
         /\ OpenPage(t, "seats", b) \in TabState
         /\ OpenPage(t, "away", b) \in TabState
         /\ OpenPage([t EXCEPT !.intent = TRUE], "checkout", b) \in TabState
    /\ \A t \in TabState, w \in {"loading", "waiting", "admitted", "error"} :
         [t EXCEPT !.shows = w] \in TabState
<1>1. Away \in TabState
  BY DEF Away, TabState
<1>2. \A t \in TabState, s \in Session \cup {NoSession} :
        /\ [t EXCEPT !.session = s, !.token = s, !.shows = "admitted"] \in TabState
        /\ [t EXCEPT !.session = s, !.shows = "waiting"] \in TabState
        /\ [t EXCEPT !.token = s, !.shows = "admitted"] \in TabState
        /\ [t EXCEPT !.token = s, !.granted = TRUE] \in TabState
  <2>1. ASSUME NEW t \in TabState, NEW s \in Session \cup {NoSession}
        PROVE  [t EXCEPT !.session = s, !.token = s, !.shows = "admitted"] \in TabState
    BY DEF TabState
  <2>2. ASSUME NEW t \in TabState, NEW s \in Session \cup {NoSession}
        PROVE  [t EXCEPT !.session = s, !.shows = "waiting"] \in TabState
    BY DEF TabState
  <2>3. ASSUME NEW t \in TabState, NEW s \in Session \cup {NoSession}
        PROVE  [t EXCEPT !.token = s, !.shows = "admitted"] \in TabState
    BY DEF TabState
  <2>4. ASSUME NEW t \in TabState, NEW s \in Session \cup {NoSession}
        PROVE  [t EXCEPT !.token = s, !.granted = TRUE] \in TabState
    BY DEF TabState
  <2> QED
    BY ONLY <2>1, <2>2, <2>3, <2>4
<1>3. \A t \in TabState : ToWaiting(t) \in TabState
  BY DEF TabState, ToWaiting
<1>4. \A t \in TabState, s \in Session \cup {NoSession} :
        [t EXCEPT !.session = s] \in TabState /\ [t EXCEPT !.token = s] \in TabState
  BY DEF TabState
<1>5. \A t \in TabState, b \in BOOLEAN :
        /\ [t EXCEPT !.granted = b] \in TabState
        /\ OpenPage(t, "seats", b) \in TabState
        /\ OpenPage(t, "away", b) \in TabState
        /\ OpenPage([t EXCEPT !.intent = TRUE], "checkout", b) \in TabState
  <2>1. ASSUME NEW t \in TabState, NEW b \in BOOLEAN
        PROVE  [t EXCEPT !.granted = b] \in TabState
    BY DEF TabState, OpenPage
  <2>2. ASSUME NEW t \in TabState, NEW b \in BOOLEAN
        PROVE  OpenPage(t, "seats", b) \in TabState
    BY DEF TabState, OpenPage
  <2>3. ASSUME NEW t \in TabState, NEW b \in BOOLEAN
        PROVE  OpenPage(t, "away", b) \in TabState
    BY DEF TabState, OpenPage
  <2>4. ASSUME NEW t \in TabState, NEW b \in BOOLEAN
        PROVE  OpenPage([t EXCEPT !.intent = TRUE], "checkout", b) \in TabState
    BY DEF TabState, OpenPage
  <2> QED
    BY ONLY <2>1, <2>2, <2>3, <2>4
<1>6. \A t \in TabState, w \in {"loading", "waiting", "admitted", "error"} :
        [t EXCEPT !.shows = w] \in TabState
  BY DEF TabState
<1> QED
  BY <1>1, <1>2, <1>3, <1>4, <1>5, <1>6

LEMMA ShowType ==
    ASSUME RoomInv, NEW c \in Tab, NEW t \in TabState, Show(c, t)
    PROVE  tab' \in [Tab -> TabState] /\ tab'[c] = t /\ \A d \in Tab \ {c} : tab'[d] = tab[d]
BY DEF RoomInv, RoomTypeOK, TabState, Show

(* A tab keeps its token, drops it, takes that of its own session, whose   *)
(* turn stays over if it was, or has a new session.                        *)
TokenKept(c) ==
    \/ tab'[c].token \in {tab[c].token, NoSession}
    \/ /\ tab'[c].session = tab'[c].token
       /\ turn[tab'[c].token] = "over" => turn'[tab'[c].token] = "over"
    \/ tab'[c].session \notin known

(* A page changes and nothing else. *)
LEMMA PageOnly ==
    ASSUME RoomInv, NEW c \in Tab, NEW t \in TabState, Show(c, t),
           UNCHANGED <<turn, known, window, joins, restarts>>,
           t.token \in {tab[c].token, NoSession} \/ t.session = t.token
    PROVE  RoomInv' /\ \A d \in Tab : TokenKept(d)
<1>1. tab' \in [Tab -> TabState] /\ tab'[c] = t /\ \A d \in Tab \ {c} : tab'[d] = tab[d]
  BY ShowType
<1>2. RoomInv'
  BY <1>1 DEF RoomInv, RoomTypeOK, TabState
<1> QED
  BY <1>1, <1>2 DEF TokenKept

LEMMA AdmitType ==
    ASSUME RoomInv, NEW s \in Session, Admit(s)
    PROVE  /\ turn' \in [Session -> {"none", "waiting", "due", "admitted", "over"}]
           /\ turn[s] = "over" => turn'[s] = "over"
BY DEF RoomInv, RoomTypeOK, Admit

(* A session the server may admit, and the tab that has it. *)
LEMMA AdmitOnly ==
    ASSUME RoomInv, NEW c \in Tab, NEW t \in TabState, Show(c, t), NEW s \in Session, Admit(s),
           UNCHANGED <<known, window, joins, restarts>>,
           t.token = tab[c].token \/ (t.token = s /\ t.session = s)
    PROVE  RoomInv' /\ \A d \in Tab : TokenKept(d)
<1>1. tab' \in [Tab -> TabState] /\ tab'[c] = t /\ \A d \in Tab \ {c} : tab'[d] = tab[d]
  BY ShowType
<1>2. RoomInv'
  BY <1>1, AdmitType DEF RoomInv, RoomTypeOK, TabState
<1> QED
  BY <1>1, <1>2, AdmitType DEF TokenKept

LEMMA JoinKeeps ==
    ASSUME RoomInv, NEW c \in Tab, Join(c)
    PROVE  RoomInv' /\ \A d \in Tab : TokenKept(d)
<1> USE RoomAssumption
<1>1. tab[c] \in TabState /\ tab[c].session \in Session \cup {NoSession}
  BY DEF RoomInv, RoomTypeOK, TabState
<1>2. CASE Rejoin(c)
  <2>1. tab[c].session \in Session
    BY <1>2 DEF Rejoin, Known, RoomInv, RoomTypeOK
  <2> DEFINE t == Seen(tab[c], tab[c].session)
  <2>2. t \in TabState
    BY <1>1, TabStateSet DEF Seen
  <2>3. t.token = tab[c].token \/ t.session = t.token
    BY <1>1 DEF Seen, TabState
  <2>4. Show(c, t) /\ UNCHANGED <<turn, known, window, joins, restarts>>
    BY <1>2 DEF Join, Rejoin
  <2> QED
    BY <2>2, <2>3, <2>4, PageOnly
<1>3. CASE JoinAnew(c) \/ JoinUnheard(c)
  <2> DEFINE s == joins + 1
  <2>1. /\ joins < MaxJoins /\ joins' = s
        /\ known' = known \cup {s} /\ window' = window \cup {s}
        /\ turn' = [turn EXCEPT ![s] = IF Required THEN "waiting" ELSE "admitted"]
    BY <1>3 DEF JoinAnew, JoinUnheard
  <2>2. s \in Session /\ s \notin known /\ s \in 0..MaxJoins /\ 1..joins \subseteq 1..s
    BY <2>1 DEF RoomInv, RoomTypeOK, Session
  <2>3. PICK t \in TabState : Show(c, t) /\ (t.token = tab[c].token \/ t.session = s)
    <3>1. CASE JoinAnew(c) /\ Required
      <4>1. Show(c, [tab[c] EXCEPT !.session = s, !.shows = "waiting"])
        BY <3>1 DEF JoinAnew
      <4>2. [tab[c] EXCEPT !.session = s, !.shows = "waiting"].token = tab[c].token
        BY <1>1 DEF TabState
      <4>3. [tab[c] EXCEPT !.session = s, !.shows = "waiting"] \in TabState
        BY <1>1, <2>2, TabStateSet
      <4> QED
        BY <4>1, <4>2, <4>3, Zenon
    <3>2. CASE JoinAnew(c) /\ ~ Required
      <4>1. Show(c, [tab[c] EXCEPT !.session = s, !.token = s, !.shows = "admitted"])
        BY <3>2 DEF JoinAnew
      <4>2. [tab[c] EXCEPT !.session = s, !.token = s, !.shows = "admitted"].session = s
        BY <1>1 DEF TabState
      <4>3. [tab[c] EXCEPT !.session = s, !.token = s, !.shows = "admitted"] \in TabState
        BY <1>1, <2>2, TabStateSet
      <4> QED
        BY <4>1, <4>2, <4>3, Zenon
    <3>3. CASE JoinUnheard(c)
      <4>1. Show(c, [tab[c] EXCEPT !.shows = "error"])
        BY <3>3 DEF JoinUnheard
      <4>2. [tab[c] EXCEPT !.shows = "error"].token = tab[c].token
        BY <1>1 DEF TabState
      <4>3. [tab[c] EXCEPT !.shows = "error"] \in TabState
        BY <1>1, TabStateSet
      <4> QED
        BY <4>1, <4>2, <4>3, Zenon
    <3> QED
      BY <1>3, <3>1, <3>2, <3>3
  <2>4. tab' \in [Tab -> TabState] /\ tab'[c] = t /\ \A d \in Tab \ {c} : tab'[d] = tab[d]
    BY <2>3, ShowType
  <2>5. turn' \in [Session -> {"none", "waiting", "due", "admitted", "over"}]
        /\ UNCHANGED restarts
    BY <2>1 DEF RoomInv, RoomTypeOK, Join
  <2>6. RoomInv'
    BY <2>1, <2>2, <2>4, <2>5 DEF RoomInv, RoomTypeOK, TabState
  <2> QED
    BY <2>2, <2>3, <2>4, <2>6 DEF TokenKept
<1> QED
  BY <1>2, <1>3 DEF Join
LEMMA VerifyKeeps ==
    ASSUME RoomInv, NEW c \in Tab, VerifyAccess(c)
    PROVE  RoomInv' /\ \A d \in Tab : TokenKept(d)
<1> DEFINE t == tab[c]
           s == t.session
<1>1. t \in TabState /\ s \in Session \cup {NoSession} /\ NoSession \in Session \cup {NoSession}
  BY DEF RoomInv, RoomTypeOK, TabState
<1>2. UNCHANGED <<known, window, joins, restarts>>
  BY DEF VerifyAccess
<1>3. CASE Show(c, [t EXCEPT !.granted = TRUE]) /\ UNCHANGED turn
  <2>1. [t EXCEPT !.granted = TRUE] \in TabState /\ [t EXCEPT !.granted = TRUE].token = t.token
    BY <1>1 DEF TabState
  <2> QED
    BY <1>2, <1>3, <2>1, PageOnly
<1>4. CASE /\ s # NoSession /\ Admit(s)
           /\ Show(c, [t EXCEPT !.token = s, !.granted = TRUE])
  <2>1. /\ [t EXCEPT !.token = s, !.granted = TRUE] \in TabState
        /\ [t EXCEPT !.token = s, !.granted = TRUE].token = s
        /\ [t EXCEPT !.token = s, !.granted = TRUE].session = s
    BY <1>1 DEF TabState
  <2> QED
    BY <1>1, <1>2, <1>4, <2>1, AdmitOnly
<1>5. CASE Show(c, ToWaiting(t)) /\ UNCHANGED turn
  <2>1. ToWaiting(t) \in TabState /\ ToWaiting(t).token = t.token
    BY <1>1 DEF TabState, ToWaiting
  <2> QED
    BY <1>2, <1>5, <2>1, PageOnly
<1>6. CASE Show(c, ToWaiting([t EXCEPT !.session = NoSession])) /\ UNCHANGED turn
  <2>1. /\ ToWaiting([t EXCEPT !.session = NoSession]) \in TabState
        /\ ToWaiting([t EXCEPT !.session = NoSession]).token = t.token
    BY <1>1 DEF TabState, ToWaiting
  <2> QED
    BY <1>2, <1>6, <2>1, PageOnly
<1> QED
  BY <1>3, <1>4, <1>5, <1>6 DEF VerifyAccess

LEMMA PollKeeps ==
    ASSUME RoomInv, NEW c \in Tab, PollRoom(c)
    PROVE  RoomInv' /\ \A d \in Tab : TokenKept(d)
<1> DEFINE t == tab[c]
           s == t.session
<1>1. t \in TabState /\ s \in Session \cup {NoSession}
  BY DEF RoomInv, RoomTypeOK, TabState
<1>2. UNCHANGED <<known, window, joins, restarts>>
  BY DEF PollRoom
<1>3. [t EXCEPT !.shows = "error"] \in TabState /\ [t EXCEPT !.shows = "error"].token = t.token
  BY <1>1 DEF TabState
<1>4. CASE Known(s) /\ Admit(s) /\ Show(c, [t EXCEPT !.token = s, !.shows = "admitted"])
  <2>1. s \in Session
    BY <1>4 DEF Known, RoomInv, RoomTypeOK
  <2>2. /\ [t EXCEPT !.token = s, !.shows = "admitted"] \in TabState
        /\ [t EXCEPT !.token = s, !.shows = "admitted"].token = s
        /\ [t EXCEPT !.token = s, !.shows = "admitted"].session = s
    BY <1>1 DEF TabState
  <2> QED
    BY <1>2, <1>4, <2>1, <2>2, AdmitOnly
<1>5. CASE Known(s) /\ Admit(s) /\ Show(c, [t EXCEPT !.shows = "error"])
  <2>1. s \in Session
    BY <1>5 DEF Known, RoomInv, RoomTypeOK
  <2> QED
    BY <1>2, <1>3, <1>5, <2>1, AdmitOnly
<1>6. CASE Show(c, [t EXCEPT !.shows = "error"]) /\ UNCHANGED turn
  BY <1>2, <1>3, <1>6, PageOnly
<1> QED
  BY <1>4, <1>5, <1>6 DEF PollRoom

LEMMA PagesKeep ==
    ASSUME RoomInv, NEW c \in Tab,
           \/ OpenWaiting(c) \/ OpenSeats(c) \/ RetryJoin(c) \/ GoToSeats(c)
           \/ CheckToken(c) \/ GoToCheckout(c) \/ PlaceOrder(c) \/ LeavePage(c)
    PROVE  RoomInv' /\ \A d \in Tab : TokenKept(d)
<1> DEFINE t == tab[c]
           m == t.intent \/ Live(t.token)
<1>1. t \in TabState /\ m \in BOOLEAN
  BY DEF RoomInv, RoomTypeOK, TabState, Live
<1> HIDE DEF m
<1>2. /\ \A x \in TabState, p \in {"seats", "checkout", "away"}, b \in BOOLEAN :
           OpenPage(x, p, b) \in TabState /\ OpenPage(x, p, b).token = x.token
      /\ \A x \in TabState : ToWaiting(x) \in TabState /\ ToWaiting(x).token = x.token
  BY DEF TabState, OpenPage, ToWaiting
<1>3. /\ [t EXCEPT !.shows = "loading"] \in TabState
      /\ [t EXCEPT !.shows = "loading"].token = t.token
      /\ [t EXCEPT !.intent = TRUE] \in TabState /\ [t EXCEPT !.intent = TRUE].token = t.token
      /\ [t EXCEPT !.token = NoSession] \in TabState
      /\ [t EXCEPT !.token = NoSession].token = NoSession
      /\ Away \in TabState /\ Away.token = NoSession
  BY <1>1 DEF TabState, Away
<1>4. PICK x \in TabState : Show(c, x) /\ x.token \in {t.token, NoSession}
  <2>1. \/ Show(c, ToWaiting(t)) \/ Show(c, OpenPage(t, "seats", m))
        \/ Show(c, OpenPage(t, "seats", TRUE)) \/ Show(c, OpenPage(t, "away", FALSE))
        \/ Show(c, [t EXCEPT !.shows = "loading"]) \/ Show(c, Away)
        \/ Show(c, ToWaiting([t EXCEPT !.token = NoSession]))
        \/ Show(c, OpenPage([t EXCEPT !.intent = TRUE], "checkout", TRUE))
    BY DEF OpenWaiting, OpenSeats, RetryJoin, GoToSeats, CheckToken, GoToCheckout,
           PlaceOrder, LeavePage, Abandon, m
  <2> DEFINE y == [t EXCEPT !.token = NoSession]
             z == [t EXCEPT !.intent = TRUE]
             Fits(x) == x \in TabState /\ x.token \in {t.token, NoSession}
  <2>2. Fits(y) /\ Fits(z) /\ Fits(Away) /\ Fits([t EXCEPT !.shows = "loading"])
    BY <1>3
  <2>3. Fits(ToWaiting(t)) /\ Fits(ToWaiting(y))
    BY <1>1, <1>2, <1>3
  <2>4. /\ Fits(OpenPage(t, "seats", m)) /\ Fits(OpenPage(t, "seats", TRUE))
        /\ Fits(OpenPage(t, "away", FALSE)) /\ Fits(OpenPage(z, "checkout", TRUE))
    BY <1>1, <1>2, <1>3
  <2> QED
    BY <2>1, <2>2, <2>3, <2>4, Zenon
<1>5. UNCHANGED <<turn, known, window, joins, restarts>>
  BY DEF OpenWaiting, OpenSeats, RetryJoin, GoToSeats, CheckToken, GoToCheckout,
         PlaceOrder, LeavePage
<1> QED
  BY <1>4, <1>5, PageOnly

LEMMA RoomStep == RoomInv /\ [RoomNext]_roomVars => RoomInv' /\ \A d \in Tab : TokenKept(d)
<1> SUFFICES ASSUME RoomInv, [RoomNext]_roomVars
             PROVE  RoomInv' /\ \A d \in Tab : TokenKept(d)
  OBVIOUS
<1> USE RoomAssumption
<1>1. ASSUME UNCHANGED <<joins, tab>>, known' \subseteq known,
             RoomTypeOK'
      PROVE  RoomInv' /\ \A d \in Tab : TokenKept(d)
  BY <1>1 DEF RoomInv, TokenKept
<1>2. CASE UNCHANGED roomVars
  BY <1>1, <1>2 DEF RoomInv, RoomTypeOK, roomVars
<1>3. ASSUME NEW s \in Session, ComesUp(s) \/ TurnEnds(s)
      PROVE  RoomInv' /\ \A d \in Tab : TokenKept(d)
  BY <1>1, <1>3 DEF ComesUp, TurnEnds, RoomInv, RoomTypeOK
<1>4. ASSUME NEW s \in Session, JoinAges(s)
      PROVE  RoomInv' /\ \A d \in Tab : TokenKept(d)
  BY <1>1, <1>4 DEF JoinAges, RoomInv, RoomTypeOK
<1>5. CASE WebRestart
  BY <1>1, <1>5 DEF WebRestart, RoomInv, RoomTypeOK
<1> QED
  BY <1>2, <1>3, <1>4, <1>5, JoinKeeps, VerifyKeeps, PollKeeps, PagesKeep DEF RoomNext

LEMMA RoomInvInit == RoomInit => RoomInv
<1> SUFFICES ASSUME RoomInit PROVE RoomInv
  OBVIOUS
<1>1. tab \in [Tab -> TabState] /\ turn \in [Session -> {"none", "waiting", "due", "admitted", "over"}]
  BY TabStateSet DEF RoomInit
<1>2. joins \in 0..MaxJoins /\ restarts \in 0..MaxRestarts
  BY RoomAssumption DEF RoomInit
<1> QED
  BY <1>1, <1>2 DEF RoomInit, RoomInv, RoomTypeOK, TabState

(***************************************************************************)
(* The waiting room's tabs and sessions are of their types, and no more    *)
(* sessions exist than customers have joined.                              *)
(***************************************************************************)
THEOREM RoomTypeCorrect == RoomSpec => []RoomInv
<1>1. RoomInv /\ [RoomNext]_roomVars => RoomInv'
  BY RoomStep
<1> QED
  BY <1>1, RoomInvInit, PTL DEF RoomSpec

(***************************************************************************)
(* Waiting room: join, poll and access check answer a session whose turn   *)
(* is over with the ended turn's token for ever, for any number of tabs,   *)
(* joins and restarts and any threshold.                                   *)
(***************************************************************************)
THEOREM TurnsStayOver == RoomSpec => TurnNotRenewed
<1>1. RoomInv /\ [RoomNext]_roomVars =>
        [\A c \in Tab :
           LET s == tab[c].session IN
           s \in known \cap known' /\ turn[s] = "over"
               /\ tab'[c].session = s /\ tab'[c].token # tab[c].token
             => ~ Live(tab[c].token)']_roomVars
  BY RoomStep DEF TokenKept, Live
<1> QED
  BY <1>1, RoomInvInit, RoomStep, PTL DEF RoomSpec, TurnNotRenewed

(* Sessions a tab has left are among those that wait.                       *)
LEMMA JoinedBy ==
    ASSUME RoomInv, RoomNext, joins' # joins
    PROVE  \E c \in Tab : JoinAnew(c) \/ JoinUnheard(c)
BY DEF RoomNext, OpenWaiting, OpenSeats, RetryJoin, GoToSeats, CheckToken, GoToCheckout,
       PlaceOrder, LeavePage, VerifyAccess, PollRoom, ComesUp, TurnEnds, JoinAges, WebRestart,
       Join, Rejoin

(***************************************************************************)
(* Once Threshold customers have left while they waited, every one who     *)
(* joins has to wait: WaitingCount is at least the number of the Abandoned *)
(* whatever the window of the last five minutes holds.                     *)
(***************************************************************************)
THEOREM RoomStaysShut == RoomSpec => AbandonedKeepRoomShut
<1>1. ASSUME RoomInv, RoomNext, joins' # joins, Cardinality(Abandoned) >= Threshold
      PROVE  turn'[joins'] = "waiting"
  <2> USE RoomAssumption
  <2>1. IsFiniteSet(Queued) /\ IsFiniteSet(window) /\ Abandoned \subseteq Queued
    <3>1. IsFiniteSet(Session)
      BY FS_Interval DEF Session
    <3> QED
      BY <1>1, <3>1, FS_Subset DEF RoomInv, RoomTypeOK, Queued, Abandoned
  <2>2. /\ Cardinality(Queued) \in Nat /\ Cardinality(window) \in Nat
        /\ Cardinality(Abandoned) \in Nat /\ Cardinality(Abandoned) <= Cardinality(Queued)
    BY <2>1, FS_Subset, FS_CardinalityType
  <2>3. Required
    BY <1>1, <2>2 DEF Required, WaitingCount
  <2>4. PICK c \in Tab : JoinAnew(c) \/ JoinUnheard(c)
    BY <1>1, JoinedBy
  <2>5. /\ joins < MaxJoins /\ joins' = joins + 1
        /\ turn' = [turn EXCEPT ![joins + 1] = "waiting"]
    BY <2>3, <2>4 DEF JoinAnew, JoinUnheard
  <2> QED
    BY <1>1, <2>5 DEF RoomInv, RoomTypeOK, Session
<1>2. RoomInv /\ [RoomNext]_roomVars =>
        [joins' # joins /\ Cardinality(Abandoned) >= Threshold
           => turn'[joins'] = "waiting"]_roomVars
  BY <1>1 DEF roomVars
<1> QED
  BY <1>2, RoomInvInit, RoomStep, PTL DEF RoomSpec, AbandonedKeepRoomShut

-----------------------------------------------------------------------------
(* The import of files. *)
JobState == [state : {"none", "waiting", "active", "failed"}, made : 0..Tries, stalled : BOOLEAN]
Hand == [step : {"free", "begin", "load", "match", "insert", "finish", "save", "evict", "catch"},
         seen : SUBSET Address]

(* A worker has one job; jobs that failed too often or whose guest list is *)
(* finished do not come back.                                              *)
OneJob ==
    /\ \A f \in File : upload[f] # "ended" => queued[f].state = "none" /\ queued[f].made = 0
    /\ \A f \in File : queued[f].state \in {"waiting", "active"} => queued[f].made < Tries
    /\ \A f \in File : Active(f) => worker[Queue[f]].step # "free"
    /\ \A f, g \in File : Active(f) /\ Active(g) /\ Queue[f] = Queue[g] => f = g
    /\ \A f \in File : AtStep(f, "match") \/ AtStep(f, "insert") \/ AtStep(f, "finish")
                         => Queue[f] = "csv"
    /\ \A f \in File : AtStep(f, "save") => Queue[f] = "bio"
    /\ \A f \in Completed : Queue[f] = "csv" => queued[f].state = "none" /\ upload[f] = "ended"

(* The guest lists whose rows are in the table. *)
Listed == {f \in File : AtStep(f, "finish") \/ (f \in Completed /\ Queue[f] = "csv")}
UnnamedOf(L) == [f \in File |-> IF f \in L THEN RowsWith(f, NoMail) ELSE 0]
Unnamed == SumFunctionOnSet(UnnamedOf(Listed), File)

(* What a worker saw of the table is still so when it inserts. *)
Inserting(f) ==
    /\ NoMail \notin worker[Queue[f]].seen
    /\ \A e \in worker[Queue[f]].seen : guests[e] > 0
    /\ \A e \in ToSet(CsvRows[f]) \ ({NoMail} \cup worker[Queue[f]].seen) : guests[e] = 0

AllListed(f) == \A e \in ToSet(CsvRows[f]) : guests[e] > 0

Inserted ==
    /\ \A f \in File : AtStep(f, "insert") => Inserting(f)
    /\ \A f \in File : AtStep(f, "finish") \/ f \in Completed => AllListed(f)
    /\ \A e \in Address \ {NoMail} : guests[e] = 0 \/ \E f \in File : guests[e] = RowsWith(f, e)
    /\ redone = {} => guests[NoMail] <= Unnamed

ImportInv == ImportTypeOK /\ OneJob /\ Inserted

LEMMA JobStateSet ==
    /\ \A x \in JobState, s \in {"none", "waiting", "active", "failed"} :
         LET y == [x EXCEPT !.state = s]
         IN  y \in JobState /\ y.state = s /\ y.made = x.made
    /\ \A x \in JobState, s \in {"none", "waiting", "active", "failed"} :
         LET y == [x EXCEPT !.stalled = TRUE, !.state = s]
         IN  y \in JobState /\ y.state = s /\ y.made = x.made
    /\ \A x \in JobState, s \in {"none", "waiting", "active", "failed"}, n \in 0..Tries :
         LET y == [x EXCEPT !.made = n, !.state = s]
         IN  y \in JobState /\ y.state = s /\ y.made = n
BY DEF JobState

LEMMA HandSet ==
    /\ Free \in Hand /\ Free.step = "free"
    /\ \A x \in Hand,
          s \in {"begin", "load", "match", "insert", "finish", "save", "evict", "catch"} :
         LET y == [x EXCEPT !.step = s]
         IN  y \in Hand /\ y.step = s /\ y.seen = x.seen
BY DEF Hand, Free

LEMMA RowsWithNat ==
    ASSUME NEW f \in File, NEW e
    PROVE  /\ RowsWith(f, e) \in Nat
           /\ e \in ToSet(CsvRows[f]) <=> RowsWith(f, e) > 0
<1> DEFINE here == {i \in DOMAIN CsvRows[f] : CsvRows[f][i] = e}
<1>1. IsFiniteSet(DOMAIN CsvRows[f])
  <2>1. CsvRows[f] \in Seq(Address)
    BY ImportAssumption
  <2>2. DOMAIN CsvRows[f] = 1..Len(CsvRows[f]) /\ Len(CsvRows[f]) \in Nat
    BY <2>1
  <2> QED
    BY <2>2, FS_Interval
<1>2. IsFiniteSet(here)
  BY <1>1, FS_Subset
<1>3. Cardinality(here) \in Nat /\ (Cardinality(here) = 0 <=> here = {})
  BY <1>2, FS_CardinalityType, FS_EmptySet
<1>4. e \in ToSet(CsvRows[f]) <=> here # {}
  BY DEF ToSet
<1> HIDE DEF here
<1> QED
  BY <1>3, <1>4 DEF RowsWith, here

LEMMA RowsKnown ==
    ASSUME NEW f \in File
    PROVE  ToSet(CsvRows[f]) \subseteq Address /\ (Queue[f] = "bio" => ToSet(CsvRows[f]) = {})
<1>1. CsvRows[f] \in Seq(Address) /\ (Queue[f] = "bio" => CsvRows[f] = <<>>)
  BY ImportAssumption
<1>2. ToSet(<<>>) = {}
  BY DEF ToSet
<1> QED
  BY <1>1, <1>2 DEF ToSet, Address

LEMMA NoMailKnown == NoMail \in Address
BY DEF Address

UploadState == {"new", "stored", "row", "ended"}
FileState == {"NONE", "PENDING", "PROCESSING"} \cup Final
Done(s) == s \in {"COMPLETED", "COMPLETED_WITH_ERRORS"}

(* A step of one file: its request, its job, the hand of its queue's worker *)
(* and its status become u, j, w and s, which fit each other.               *)
Moved(f, u, j, w, s) ==
    /\ upload' = [upload EXCEPT ![f] = u] /\ queued' = [queued EXCEPT ![f] = j]
    /\ worker' = [worker EXCEPT ![Queue[f]] = w] /\ file' = [file EXCEPT ![f] = s]
    /\ u # "ended" => j.state = "none" /\ j.made = 0
    /\ j.state \in {"waiting", "active"} => j.made < Tries
    /\ j.state = "active" => /\ w.step # "free"
                             /\ Active(f) \/ worker[Queue[f]].step = "free"
                             /\ w.step \in {"match", "insert", "finish"} => Queue[f] = "csv"
                             /\ w.step = "save" => Queue[f] = "bio"
    /\ ~ Active(f) /\ j.state # "active" => w = worker[Queue[f]]
    /\ Done(s) /\ Queue[f] = "csv" => j.state = "none" /\ u = "ended"

LEMMA MovedType ==
    ASSUME ImportTypeOK, NEW f \in File, NEW u \in UploadState, NEW j \in JobState, NEW w \in Hand,
           NEW s \in FileState, Moved(f, u, j, w, s)
    PROVE  /\ upload' \in [File -> UploadState] /\ queued' \in [File -> JobState]
           /\ worker' \in [{"csv", "bio"} -> Hand] /\ file' \in [File -> FileState]
           /\ upload'[f] = u /\ queued'[f] = j /\ worker'[Queue[f]] = w /\ file'[f] = s
           /\ \A g \in File \ {f} :
                upload'[g] = upload[g] /\ queued'[g] = queued[g] /\ file'[g] = file[g]
           /\ \A q \in {"csv", "bio"} \ {Queue[f]} : worker'[q] = worker[q]
           /\ Queue \in [File -> {"csv", "bio"}]
BY ImportAssumption DEF ImportTypeOK, Moved, UploadState, JobState, Hand, FileState

LEMMA OthersStay ==
    ASSUME ImportTypeOK, OneJob, NEW f \in File, NEW u \in UploadState, NEW j \in JobState,
           NEW w \in Hand, NEW s \in FileState, Moved(f, u, j, w, s), NEW g \in File \ {f}
    PROVE  /\ Active(g)' <=> Active(g)
           /\ Active(g) => worker'[Queue[g]] = worker[Queue[g]]
           /\ g \in Completed' <=> g \in Completed
           /\ g \in Listed' <=> g \in Listed
<1>1. (Active(g)' <=> Active(g)) /\ (g \in Completed' <=> g \in Completed)
  BY MovedType DEF Active, Completed
<1>2. ASSUME Active(g) PROVE worker'[Queue[g]] = worker[Queue[g]]
  <2>1. CASE Queue[g] # Queue[f]
    BY <2>1, MovedType
  <2>2. CASE Queue[g] = Queue[f]
    <3>1. ~ Active(f) /\ worker[Queue[f]].step # "free"
      BY <1>2, <2>2 DEF OneJob
    <3>2. w = worker[Queue[f]]
      BY <3>1 DEF Moved
    <3> QED
      BY <2>2, <3>2, MovedType
  <2> QED
    BY <2>1, <2>2
<1> QED
  BY <1>1, <1>2 DEF Listed, AtStep

LEMMA MovedOneJob ==
    ASSUME ImportTypeOK, OneJob, NEW f \in File, NEW u \in UploadState, NEW j \in JobState,
           NEW w \in Hand, NEW s \in FileState, Moved(f, u, j, w, s)
    PROVE  OneJob'
<1>m. /\ upload'[f] = u /\ queued'[f] = j /\ worker'[Queue[f]] = w /\ file'[f] = s
      /\ \A g \in File \ {f} :
           upload'[g] = upload[g] /\ queued'[g] = queued[g] /\ file'[g] = file[g]
  BY MovedType
<1>o. ASSUME NEW g \in File \ {f}
      PROVE  /\ Active(g)' <=> Active(g)
             /\ Active(g) => worker'[Queue[g]] = worker[Queue[g]]
             /\ g \in Completed' <=> g \in Completed
  BY OthersStay
<1>1. /\ \A g \in File : upload'[g] # "ended" => queued'[g].state = "none" /\ queued'[g].made = 0
      /\ \A g \in File : queued'[g].state \in {"waiting", "active"} => queued'[g].made < Tries
  BY <1>m DEF OneJob, Moved
<1>2. \A g \in File : Active(g)' => worker'[Queue[g]].step # "free"
  BY <1>m, <1>o DEF OneJob, Moved, Active
<1>3. ASSUME NEW g \in File, NEW h \in File, Active(g)', Active(h)', Queue[g] = Queue[h], g # h
      PROVE  FALSE
  <2>1. ASSUME NEW k \in File \ {f}, Active(k), Active(f)', Queue[k] = Queue[f] PROVE FALSE
    <3>1. Active(f) \/ worker[Queue[f]].step = "free"
      BY <2>1, <1>m DEF Moved, Active
    <3> QED
      BY <2>1, <3>1 DEF OneJob
  <2> QED
    BY <1>3, <2>1, <1>o DEF OneJob
<1>4. \A g \in File : /\ \/ AtStep(g, "match")' \/ AtStep(g, "insert")' \/ AtStep(g, "finish")'
                         => Queue[g] = "csv"
                      /\ AtStep(g, "save")' => Queue[g] = "bio"
  BY <1>m, <1>o DEF OneJob, Moved, Active, AtStep
<1>5. \A g \in Completed' : Queue[g] = "csv" => queued'[g].state = "none" /\ upload'[g] = "ended"
  BY <1>m, <1>o DEF OneJob, Moved, Completed, Done
<1> QED
  BY <1>1, <1>2, <1>3, <1>4, <1>5 DEF OneJob

LEMMA UnnamedType ==
    ASSUME NEW L
    PROVE  \A g \in File : UnnamedOf(L)[g] \in Nat
BY RowsWithNat DEF UnnamedOf

(* Steps that leave the table of guests alone. *)
LEMMA MovedInserted ==
    ASSUME ImportTypeOK, OneJob, Inserted, NEW f \in File, NEW u \in UploadState, NEW j \in JobState,
           NEW w \in Hand, NEW s \in FileState, Moved(f, u, j, w, s),
           guests' = guests, redone' = {} => redone = {} /\ (f \in Listed' <=> f \in Listed),
           j.state = "active" /\ w.step = "insert" =>
             \/ AtStep(f, "insert") /\ w.seen = worker[Queue[f]].seen
             \/ w.seen = {e \in ToSet(CsvRows[f]) \ {NoMail} : guests[e] > 0},
           Done(s) \/ (j.state = "active" /\ w.step = "finish") => AllListed(f)
    PROVE  Inserted'
<1>1. \A g \in File : AtStep(g, "insert")' => Inserting(g)'
  <2>1. ASSUME NEW g \in File \ {f}, AtStep(g, "insert")' PROVE Inserting(g)'
    <3>1. AtStep(g, "insert") /\ worker'[Queue[g]] = worker[Queue[g]]
      BY <2>1, OthersStay DEF AtStep
    <3> QED
      BY <3>1 DEF Inserted, Inserting
  <2>2. ASSUME AtStep(f, "insert")' PROVE Inserting(f)'
    <3>1. j.state = "active" /\ w.step = "insert" /\ worker'[Queue[f]] = w
      BY <2>2, MovedType DEF AtStep, Active
    <3>2. CASE AtStep(f, "insert") /\ w.seen = worker[Queue[f]].seen
      BY <3>1, <3>2 DEF Inserted, Inserting
    <3>3. CASE w.seen = {e \in ToSet(CsvRows[f]) \ {NoMail} : guests[e] > 0}
      <4>1. \A e \in ToSet(CsvRows[f]) : guests[e] \in Nat
        BY RowsKnown DEF ImportTypeOK
      <4> QED
        BY <3>1, <3>3, <4>1 DEF Inserting
    <3> QED
      BY <3>1, <3>2, <3>3
  <2> QED
    BY <2>1, <2>2
<1>2. \A g \in File : AtStep(g, "finish")' \/ g \in Completed' => AllListed(g)'
  <2>1. ASSUME NEW g \in File \ {f}, AtStep(g, "finish")' \/ g \in Completed' PROVE AllListed(g)'
    <3>1. AtStep(g, "finish") \/ g \in Completed
      BY <2>1, OthersStay DEF AtStep
    <3> QED
      BY <3>1 DEF Inserted, AllListed
  <2>2. ASSUME AtStep(f, "finish")' \/ f \in Completed' PROVE AllListed(f)'
    <3>1. Done(s) \/ (j.state = "active" /\ w.step = "finish")
      BY <2>2, MovedType DEF AtStep, Active, Completed, Done
    <3> QED
      BY <3>1 DEF AllListed
  <2> QED
    BY <2>1, <2>2
<1>3. ASSUME redone' = {} PROVE guests'[NoMail] <= Unnamed'
  <2>1. Listed' = Listed
    BY <1>3, OthersStay DEF Listed
  <2> QED
    BY <1>3, <2>1 DEF Inserted, Unnamed
<1> QED
  BY <1>1, <1>2, <1>3 DEF Inserted
LEMMA MovedInv ==
    ASSUME ImportInv, NEW f \in File, NEW u \in UploadState, NEW j \in JobState, NEW w \in Hand,
           NEW s \in FileState, Moved(f, u, j, w, s),
           guests' = guests, bio' \subseteq File, faults' \in 0..MaxFaults, lost' \subseteq File,
           redone' \subseteq File,
           redone' = {} =>
             /\ redone = {}
             /\ f \in Listed <=> \/ j.state = "active" /\ w.step = "finish"
                                 \/ Done(s) /\ Queue[f] = "csv",
           j.state = "active" /\ w.step = "insert" =>
             \/ AtStep(f, "insert") /\ w.seen = worker[Queue[f]].seen
             \/ w.seen = {e \in ToSet(CsvRows[f]) \ {NoMail} : guests[e] > 0},
           Done(s) \/ (j.state = "active" /\ w.step = "finish") => AllListed(f)
    PROVE  ImportInv'
<1>1. /\ upload' \in [File -> UploadState] /\ queued' \in [File -> JobState]
      /\ worker' \in [{"csv", "bio"} -> Hand] /\ file' \in [File -> FileState]
      /\ queued'[f] = j /\ worker'[Queue[f]] = w /\ file'[f] = s
  BY MovedType DEF ImportInv
<1>2. ImportTypeOK'
  BY <1>1 DEF ImportInv, ImportTypeOK, UploadState, JobState, Hand, FileState
<1>3. OneJob'
  BY MovedOneJob DEF ImportInv
<1>4. redone' = {} => redone = {} /\ (f \in Listed' <=> f \in Listed)
  BY <1>1 DEF Listed, AtStep, Active, Completed, Done
<1>5. Inserted'
  BY <1>4, MovedInserted DEF ImportInv
<1> QED
  BY <1>2, <1>3, <1>5 DEF ImportInv

(* What is known of a file before a step. *)
LEMMA FileNow ==
    ASSUME ImportInv, NEW f \in File
    PROVE  /\ upload[f] \in UploadState /\ queued[f] \in JobState /\ worker[Queue[f]] \in Hand
           /\ file[f] \in FileState /\ Queue[f] \in {"csv", "bio"}
           /\ upload = [upload EXCEPT ![f] = upload[f]] /\ queued = [queued EXCEPT ![f] = queued[f]]
           /\ worker = [worker EXCEPT ![Queue[f]] = worker[Queue[f]]]
           /\ file = [file EXCEPT ![f] = file[f]]
           /\ bio \subseteq File /\ faults \in 0..MaxFaults /\ lost \subseteq File
           /\ redone \subseteq File
           /\ upload[f] # "ended" => queued[f].state = "none" /\ queued[f].made = 0
           /\ queued[f].state \in {"waiting", "active"} => queued[f].made < Tries
           /\ Active(f) => worker[Queue[f]].step # "free"
           /\ Active(f) /\ worker[Queue[f]].step \in {"match", "insert", "finish"} => Queue[f] = "csv"
           /\ Active(f) /\ worker[Queue[f]].step = "save" => Queue[f] = "bio"
           /\ Done(file[f]) /\ Queue[f] = "csv" => queued[f].state = "none" /\ upload[f] = "ended"
           /\ Done(file[f]) \/ AtStep(f, "finish") => AllListed(f)
           /\ f \in Listed <=> AtStep(f, "finish") \/ (Done(file[f]) /\ Queue[f] = "csv")
<1>1. /\ upload \in [File -> UploadState] /\ queued \in [File -> JobState]
      /\ worker \in [{"csv", "bio"} -> Hand] /\ file \in [File -> FileState]
      /\ Queue \in [File -> {"csv", "bio"}]
      /\ bio \subseteq File /\ faults \in 0..MaxFaults /\ lost \subseteq File /\ redone \subseteq File
  BY ImportAssumption DEF ImportInv, ImportTypeOK, UploadState, JobState, Hand, FileState
<1>2. /\ upload = [upload EXCEPT ![f] = upload[f]] /\ queued = [queued EXCEPT ![f] = queued[f]]
      /\ worker = [worker EXCEPT ![Queue[f]] = worker[Queue[f]]]
      /\ file = [file EXCEPT ![f] = file[f]]
  BY <1>1
<1>3. f \in Completed <=> Done(file[f])
  BY DEF Completed, Done
<1>4. OneJob /\ Inserted
  BY DEF ImportInv
<1>5. /\ upload[f] # "ended" => queued[f].state = "none" /\ queued[f].made = 0
      /\ queued[f].state \in {"waiting", "active"} => queued[f].made < Tries
      /\ Active(f) => worker[Queue[f]].step # "free"
      /\ Active(f) /\ worker[Queue[f]].step \in {"match", "insert", "finish"} => Queue[f] = "csv"
      /\ Active(f) /\ worker[Queue[f]].step = "save" => Queue[f] = "bio"
      /\ Done(file[f]) /\ Queue[f] = "csv" => queued[f].state = "none" /\ upload[f] = "ended"
  BY <1>3, <1>4 DEF OneJob, AtStep
<1>6. Done(file[f]) \/ AtStep(f, "finish") => AllListed(f)
  BY <1>3, <1>4 DEF Inserted
<1>7. f \in Listed <=> AtStep(f, "finish") \/ (Done(file[f]) /\ Queue[f] = "csv")
  BY <1>3 DEF Listed
<1> QED
  BY <1>1, <1>2, <1>5, <1>6, <1>7

(* The request. *)
LEMMA UploadKeeps ==
    ASSUME ImportInv, NEW f \in File,
           StoreObject(f) \/ InsertFileRow(f) \/ QueueFile(f) \/ UploadFails(f)
    PROVE  ImportInv'
<1> DEFINE w == worker[Queue[f]]
<1>1. UNCHANGED <<worker, guests, bio, lost, redone>> /\ faults' \in 0..MaxFaults
  BY ImportAssumption DEF StoreObject, InsertFileRow, QueueFile, UploadFails, ImportInv, ImportTypeOK
<1>2. upload[f] # "ended"
  BY DEF StoreObject, InsertFileRow, QueueFile, UploadFails
<1>3. PICK u \in UploadState, j \in JobState, s \in FileState :
        /\ upload' = [upload EXCEPT ![f] = u] /\ queued' = [queued EXCEPT ![f] = j]
        /\ file' = [file EXCEPT ![f] = s]
        /\ j.state \in {"none", "waiting"} /\ j.made = 0 /\ (u # "ended" => j.state = "none")
        /\ s \in {file[f], "PENDING"}
  <2>1. CASE StoreObject(f)
    <3>1. /\ upload' = [upload EXCEPT ![f] = "stored"] /\ queued' = [queued EXCEPT ![f] = queued[f]]
          /\ file' = [file EXCEPT ![f] = file[f]]
      BY <2>1, FileNow DEF StoreObject
    <3> QED
      BY <1>2, <3>1, FileNow DEF UploadState
  <2>2. CASE InsertFileRow(f)
    <3>1. /\ upload' = [upload EXCEPT ![f] = "row"] /\ queued' = [queued EXCEPT ![f] = queued[f]]
          /\ file' = [file EXCEPT ![f] = "PENDING"]
      BY <2>2, FileNow DEF InsertFileRow
    <3> QED
      BY <1>2, <3>1, FileNow DEF UploadState, FileState
  <2>3. CASE QueueFile(f)
    <3> DEFINE j == [queued[f] EXCEPT !.state = "waiting"]
    <3>1. /\ upload' = [upload EXCEPT ![f] = "ended"] /\ queued' = [queued EXCEPT ![f] = j]
          /\ file' = [file EXCEPT ![f] = file[f]]
      BY <2>3, FileNow DEF QueueFile
    <3>2. queued[f] \in JobState /\ queued[f].made = 0 /\ file[f] \in FileState
      BY <1>2, FileNow
    <3>3. j \in JobState /\ j.state = "waiting" /\ j.made = 0
      BY ONLY <3>2 DEF JobState
    <3>4. "ended" \in UploadState
      BY DEF UploadState
    <3> HIDE DEF j
    <3> QED
      BY <3>1, <3>2, <3>3, <3>4, Zenon
  <2>4. CASE UploadFails(f)
    <3>1. /\ upload' = [upload EXCEPT ![f] = "ended"] /\ queued' = [queued EXCEPT ![f] = queued[f]]
          /\ file' = [file EXCEPT ![f] = file[f]]
      BY <2>4, FileNow DEF UploadFails
    <3> QED
      BY <1>2, <3>1, FileNow DEF UploadState
  <2> QED
    BY <2>1, <2>2, <2>3, <2>4
<1>4. ~ Active(f) /\ ~ (Done(file[f]) /\ Queue[f] = "csv") /\ ~ AtStep(f, "finish")
  BY <1>2, FileNow DEF Active, AtStep
<1>5. Done(s) => s = file[f]
  BY <1>3 DEF Done
<1>6. Moved(f, u, j, w, s)
  BY <1>1, <1>3, <1>4, <1>5, FileNow, ImportAssumption DEF Moved
<1>7. f \notin Listed
  BY <1>4, FileNow
<1> QED
  BY <1>1, <1>3, <1>4, <1>5, <1>6, <1>7, FileNow, MovedInv

(* A worker takes a job, starts on the file and reads it. *)
LEMMA ReadKeeps ==
    ASSUME ImportInv, NEW f \in File, TakeJob(f) \/ BeginFile(f) \/ LoadFile(f)
    PROVE  ImportInv'
<1>1. UNCHANGED <<upload, guests, bio, faults, lost, redone>>
  BY DEF TakeJob, BeginFile, LoadFile
<1>2. PICK j \in JobState, w \in Hand, s \in FileState :
        /\ queued' = [queued EXCEPT ![f] = j] /\ worker' = [worker EXCEPT ![Queue[f]] = w]
        /\ file' = [file EXCEPT ![f] = s]
        /\ j.state = "active" /\ j.made = queued[f].made
        /\ w.step \in {"begin", "load", "catch", IF Queue[f] = "csv" THEN "match" ELSE "save"}
        /\ s \in {file[f], "PROCESSING"}
  <2>1. CASE TakeJob(f)
    <3> DEFINE j == [queued[f] EXCEPT !.state = "active"]
               w == [worker[Queue[f]] EXCEPT !.step = "begin"]
    <3>1. queued[f] \in JobState /\ worker[Queue[f]] \in Hand /\ file[f] \in FileState
      BY FileNow
    <3>2. j \in JobState /\ j.state = "active" /\ j.made = queued[f].made
      BY <3>1, JobStateSet
    <3>3. w \in Hand /\ w.step = "begin"
      BY <3>1, HandSet
    <3>4. /\ queued' = [queued EXCEPT ![f] = j] /\ worker' = [worker EXCEPT ![Queue[f]] = w]
          /\ file' = [file EXCEPT ![f] = file[f]]
      BY <2>1, FileNow DEF TakeJob, Step
    <3> HIDE DEF j, w
    <3>5. w.step \in {"begin", "load", "catch", IF Queue[f] = "csv" THEN "match" ELSE "save"}
      BY <3>3
    <3> QED
      BY <3>1, <3>2, <3>3, <3>4, <3>5
  <2>2. CASE BeginFile(f)
    <3> DEFINE w == [worker[Queue[f]] EXCEPT !.step = "load"]
    <3>1. queued[f] \in JobState /\ worker[Queue[f]] \in Hand /\ "PROCESSING" \in FileState
      BY FileNow DEF FileState
    <3>2. w \in Hand /\ w.step = "load"
      BY <3>1, HandSet
    <3>3. queued[f].state = "active"
      BY <2>2 DEF BeginFile, AtStep, Active
    <3>4. /\ queued' = [queued EXCEPT ![f] = queued[f]]
          /\ worker' = [worker EXCEPT ![Queue[f]] = w]
          /\ file' = [file EXCEPT ![f] = "PROCESSING"]
      BY <2>2, FileNow DEF BeginFile, Step
    <3> HIDE DEF w
    <3>5. w.step \in {"begin", "load", "catch", IF Queue[f] = "csv" THEN "match" ELSE "save"}
      BY <3>2
    <3> QED
      BY <3>1, <3>2, <3>3, <3>4, <3>5
  <2>3. CASE LoadFile(f)
    <3>1. PICK t \in {"catch", IF Queue[f] = "csv" THEN "match" ELSE "save"} : Step(f, t)
      BY <2>3 DEF LoadFile
    <3> DEFINE w == [worker[Queue[f]] EXCEPT !.step = t]
    <3>2. queued[f] \in JobState /\ worker[Queue[f]] \in Hand /\ file[f] \in FileState
      BY FileNow
    <3>3. w \in Hand /\ w.step = t
      <4>1. t \in {"begin", "load", "match", "insert", "finish", "save", "evict", "catch"}
        BY <3>1
      <4> QED
        BY <3>2, <4>1, HandSet
    <3>4. queued[f].state = "active"
      BY <2>3 DEF LoadFile, AtStep, Active
    <3>5. /\ queued' = [queued EXCEPT ![f] = queued[f]]
          /\ worker' = [worker EXCEPT ![Queue[f]] = w]
          /\ file' = [file EXCEPT ![f] = file[f]]
      BY <2>3, <3>1, FileNow DEF LoadFile, Step
    <3> HIDE DEF w
    <3>6. w.step \in {"begin", "load", "catch", IF Queue[f] = "csv" THEN "match" ELSE "save"}
      BY <3>1, <3>3
    <3> QED
      BY <3>2, <3>3, <3>4, <3>5, <3>6
  <2> QED
    BY <2>1, <2>2, <2>3
<1>3. queued[f].state \in {"waiting", "active"}
  BY DEF TakeJob, BeginFile, LoadFile, AtStep, Active
<1>4. upload[f] = "ended" /\ queued[f].made < Tries /\ ~ (Done(file[f]) /\ Queue[f] = "csv")
  BY <1>3, FileNow
<1>5. Active(f) \/ worker[Queue[f]].step = "free"
  BY DEF TakeJob, BeginFile, LoadFile, AtStep, Active
<1>6. Queue[f] \in {"csv", "bio"}
  BY FileNow
<1>7. Done(s) => s = file[f]
  BY <1>2 DEF Done
<1>8. Moved(f, "ended", j, w, s)
  <2>1. upload' = [upload EXCEPT ![f] = "ended"]
    BY <1>1, <1>4, FileNow
  <2> QED
    BY <2>1, <1>2, <1>4, <1>5, <1>6, <1>7 DEF Moved
<1>9. f \notin Listed
  <2>1. ~ AtStep(f, "finish")
    BY DEF TakeJob, BeginFile, LoadFile, AtStep, Active
  <2> QED
    BY <1>4, <2>1, FileNow
<1>10. w.step \notin {"insert", "finish"}
  BY <1>2
<1>11. bio' \subseteq File /\ faults' \in 0..MaxFaults /\ lost' \subseteq File /\ redone' \subseteq File
  BY <1>1, FileNow
<1>12. Done(s) => AllListed(f)
  BY <1>7, FileNow
<1> QED
  <2>1. "ended" \in UploadState
    BY DEF UploadState
  <2>2. Done(s) /\ Queue[f] = "csv" => FALSE
    BY <1>4, <1>7
  <2> QED
    BY <1>1, <1>2, <1>8, <1>9, <1>10, <1>11, <1>12, <2>1, <2>2, MovedInv

(* A job at work: its file is in the queue, its request has ended. *)
LEMMA AtWork ==
    ASSUME ImportInv, NEW f \in File, Active(f)
    PROVE  /\ queued[f].state = "active" /\ queued[f].made < Tries
           /\ upload[f] = "ended" /\ upload[f] \in UploadState
           /\ upload = [upload EXCEPT ![f] = upload[f]]
           /\ ~ (Done(file[f]) /\ Queue[f] = "csv") /\ worker[Queue[f]].step # "free"
           /\ f \in Listed <=> worker[Queue[f]].step = "finish"
<1>1. queued[f].state = "active"
  BY DEF Active
<1>2. upload[f] = "ended" /\ ~ (Done(file[f]) /\ Queue[f] = "csv")
  BY <1>1, FileNow
<1> QED
  BY <1>1, <1>2, FileNow DEF AtStep

LEMMA MatchKeeps ==
    ASSUME ImportInv, NEW f \in File, MatchGuests(f)
    PROVE  ImportInv'
<1> DEFINE found == {e \in ToSet(CsvRows[f]) \ {NoMail} : guests[e] > 0}
           w == [step |-> "insert", seen |-> found]
<1>1. Active(f) /\ worker[Queue[f]].step = "match" /\ Queue[f] = "csv"
  BY FileNow DEF MatchGuests, AtStep
<1>2. w \in Hand
  BY RowsKnown DEF Hand
<1>3. UNCHANGED <<upload, queued, file, guests, bio, faults, lost, redone>>
      /\ worker' = [worker EXCEPT ![Queue[f]] = w]
  BY DEF MatchGuests
<1>4. w.step = "insert" /\ w.seen = found
  OBVIOUS
<1> HIDE DEF w, found
<1>5. Moved(f, upload[f], queued[f], w, file[f])
  BY <1>1, <1>3, <1>4, AtWork, FileNow DEF Moved
<1>6. f \notin Listed /\ w.step # "finish" /\ ~ (Done(file[f]) /\ Queue[f] = "csv")
  BY <1>1, <1>4, AtWork
<1>7. bio' \subseteq File /\ faults' \in 0..MaxFaults /\ lost' \subseteq File /\ redone' \subseteq File
  BY <1>3, FileNow
<1>8. /\ upload[f] \in UploadState /\ queued[f] \in JobState /\ file[f] \in FileState
      /\ Done(file[f]) => AllListed(f)
  BY FileNow
<1>9. w.seen = {e \in ToSet(CsvRows[f]) \ {NoMail} : guests[e] > 0}
  BY <1>4 DEF found
<1> QED
  BY <1>2, <1>3, <1>5, <1>6, <1>7, <1>8, <1>9, MovedInv

(* The end of a job, of an attempt, and the biography. *)
LEMMA FinishKeeps ==
    ASSUME ImportInv, NEW f \in File, FinishImport(f)
    PROVE  ImportInv'
<1> DEFINE j == [queued[f] EXCEPT !.state = "none"]
           s == IF WithErrors(f) THEN "COMPLETED_WITH_ERRORS" ELSE "COMPLETED"
<1>1. AtStep(f, "finish") /\ Active(f) /\ worker[Queue[f]].step = "finish"
  BY DEF FinishImport, AtStep
<1>2. UNCHANGED <<upload, guests, bio, faults, lost, redone>>
      /\ worker' = [worker EXCEPT ![Queue[f]] = Free] /\ queued' = [queued EXCEPT ![f] = j]
      /\ file' = [file EXCEPT ![f] = s]
  BY FileNow DEF FinishImport, JobDone
<1>3. j \in JobState /\ j.state = "none" /\ j.made = queued[f].made
  <2>1. queued[f] \in JobState
    BY FileNow
  <2> QED
    BY <2>1, JobStateSet
<1>4. s \in FileState /\ Done(s)
  BY DEF FileState, Final, Done
<1> HIDE DEF j, s
<1>5. Moved(f, upload[f], j, Free, s)
  BY <1>1, <1>2, <1>3, AtWork, HandSet DEF Moved
<1>6. f \in Listed /\ AllListed(f) /\ Queue[f] = "csv"
  BY <1>1, AtWork, FileNow
<1>7. bio' \subseteq File /\ faults' \in 0..MaxFaults /\ lost' \subseteq File /\ redone' \subseteq File
  BY <1>2, FileNow
<1>8. upload[f] \in UploadState
  BY FileNow
<1> QED
  BY <1>2, <1>3, <1>4, <1>5, <1>6, <1>7, <1>8, HandSet, MovedInv

LEMMA BioKeeps ==
    ASSUME ImportInv, NEW f \in File, SaveBio(f) \/ EvictBio(f)
    PROVE  ImportInv'
<1>1. Active(f) /\ worker[Queue[f]].step \in {"save", "evict"}
  BY DEF SaveBio, EvictBio, AtStep
<1>2. UNCHANGED <<upload, guests, faults, lost, redone>> /\ bio' \subseteq File
  BY FileNow DEF SaveBio, EvictBio
<1>3. PICK j \in JobState, w \in Hand, s \in FileState :
        /\ queued' = [queued EXCEPT ![f] = j] /\ worker' = [worker EXCEPT ![Queue[f]] = w]
        /\ file' = [file EXCEPT ![f] = s]
        /\ j.made = queued[f].made /\ j.state \in {"none", "active"}
        /\ j.state = "active" => w.step = "evict"
        /\ s = file[f] \/ Queue[f] = "bio"
  <2>1. CASE SaveBio(f)
    <3> DEFINE w == [worker[Queue[f]] EXCEPT !.step = "evict"]
    <3>1. worker[Queue[f]] \in Hand /\ queued[f] \in JobState /\ "COMPLETED" \in FileState
      BY FileNow DEF FileState, Final
    <3>2. w \in Hand /\ w.step = "evict"
      BY <3>1, HandSet
    <3>3. /\ queued' = [queued EXCEPT ![f] = queued[f]]
          /\ worker' = [worker EXCEPT ![Queue[f]] = w]
          /\ file' = [file EXCEPT ![f] = "COMPLETED"]
      BY <2>1, FileNow DEF SaveBio, Step
    <3>4. Queue[f] = "bio" /\ queued[f].state = "active"
      BY <2>1, FileNow DEF SaveBio, AtStep, Active
    <3> HIDE DEF w
    <3>5. queued[f].state \in {"none", "active"}
      BY <3>4
    <3> QED
      BY <3>1, <3>2, <3>3, <3>4, <3>5, Zenon
  <2>2. CASE EvictBio(f)
    <3> DEFINE j == [queued[f] EXCEPT !.state = "none"]
    <3>1. queued[f] \in JobState /\ file[f] \in FileState
      BY FileNow
    <3>2. j \in JobState /\ j.state = "none" /\ j.made = queued[f].made
      BY <3>1, JobStateSet
    <3>3. /\ queued' = [queued EXCEPT ![f] = j] /\ worker' = [worker EXCEPT ![Queue[f]] = Free]
          /\ file' = [file EXCEPT ![f] = file[f]]
      BY <2>2, FileNow DEF EvictBio, JobDone
    <3> HIDE DEF j
    <3>4. j.state \in {"none", "active"} /\ j.state # "active"
      BY <3>2
    <3> QED
      BY <3>1, <3>2, <3>3, <3>4, HandSet, Zenon
  <2> QED
    BY <2>1, <2>2
<1>4. Done(s) /\ Queue[f] = "csv" => FALSE
  <2>1. "bio" # "csv"
    OBVIOUS
  <2> QED
    BY <1>1, <1>3, <2>1, AtWork
<1>5. Moved(f, upload[f], j, w, s)
  BY <1>1, <1>2, <1>3, <1>4, AtWork DEF Moved
<1>6. f \notin Listed
  BY <1>1, AtWork
<1>7. Done(s) => AllListed(f)
  <2>1. CASE s = file[f]
    BY <2>1, FileNow
  <2>2. CASE Queue[f] = "bio"
    BY <2>2, RowsKnown DEF AllListed
  <2> QED
    BY <1>3, <2>1, <2>2
<1>8. bio' \subseteq File /\ faults' \in 0..MaxFaults /\ lost' \subseteq File /\ redone' \subseteq File
  BY <1>2, FileNow
<1>9. upload[f] \in UploadState /\ (j.state = "active" => w.step \notin {"insert", "finish"})
  BY <1>3, FileNow
<1> QED
  BY <1>2, <1>3, <1>4, <1>5, <1>6, <1>7, <1>8, <1>9, MovedInv

LEMMA ThrowKeeps ==
    ASSUME ImportInv, NEW f \in File, AttemptThrows(f)
    PROVE  ImportInv'
<1> DEFINE w == [step |-> "catch", seen |-> {}]
<1>1. w \in Hand /\ w.step = "catch"
  BY DEF Hand
<1>2. UNCHANGED <<upload, queued, file, guests, bio, lost>>
      /\ worker' = [worker EXCEPT ![Queue[f]] = w]
  BY DEF AttemptThrows
<1>3. Active(f) /\ faults' \in 0..MaxFaults
  BY FileNow, ImportAssumption DEF AttemptThrows
<1>4. /\ redone' \subseteq File
      /\ redone' = {} => redone = {} /\ worker[Queue[f]].step # "finish"
  BY FileNow DEF AttemptThrows
<1> HIDE DEF w
<1>5. Moved(f, upload[f], queued[f], w, file[f])
  BY <1>1, <1>2, <1>3, AtWork, FileNow DEF Moved
<1>6. f \in Listed <=> worker[Queue[f]].step = "finish"
  BY <1>3, AtWork
<1>7. ~ (Done(file[f]) /\ Queue[f] = "csv")
  BY <1>3, AtWork
<1>8. /\ bio' \subseteq File /\ lost' \subseteq File
      /\ upload[f] \in UploadState /\ queued[f] \in JobState /\ file[f] \in FileState
      /\ Done(file[f]) => AllListed(f)
  BY <1>2, FileNow
<1>9. w.step \notin {"insert", "finish"}
  BY <1>1
<1> QED
  BY <1>1, <1>2, <1>3, <1>4, <1>5, <1>6, <1>7, <1>8, <1>9, MovedInv

LEMMA CatchKeeps ==
    ASSUME ImportInv, NEW f \in File, Catch(f)
    PROVE  ImportInv'
<1> DEFINE t == IF queued[f].made + 1 < Tries THEN "waiting" ELSE "failed"
           n == queued[f].made + 1
           j == [queued[f] EXCEPT !.made = n, !.state = t]
<1>1. Active(f) /\ worker[Queue[f]].step = "catch"
  BY DEF Catch, AtStep
<1>2. queued[f] \in JobState /\ queued[f].made < Tries /\ file[f] \in FileState
  BY <1>1, AtWork, FileNow
<1>3. j \in JobState /\ j.state = t /\ j.made = n
  <2>1. n \in 0..Tries
    BY <1>2, ImportAssumption DEF JobState
  <2>2. t \in {"none", "waiting", "active", "failed"}
    OBVIOUS
  <2> HIDE DEF n, t
  <2> QED
    BY ONLY <1>2, <2>1, <2>2 DEF JobState
<1>4. UNCHANGED <<upload, guests, bio, redone>>
      /\ worker' = [worker EXCEPT ![Queue[f]] = Free]
  BY DEF Catch
<1>13. queued' = [queued EXCEPT ![f] = j]
  BY FileNow DEF Catch
<1>5. faults' \in 0..MaxFaults /\ lost' \subseteq File
  BY FileNow, ImportAssumption DEF Catch
<1>6. PICK s \in {file[f], "FAILED"} : file' = [file EXCEPT ![f] = s]
  BY FileNow DEF Catch
<1>7. j.state \in {"waiting", "failed"} /\ (j.state = "waiting" => j.made < Tries)
  BY <1>3
<1> HIDE DEF j
<1>8. Done(s) => s = file[f]
  BY DEF Done
<1>9. s \in FileState
  BY <1>2 DEF FileState, Final
<1>11. f \notin Listed /\ ~ (Done(s) /\ Queue[f] = "csv")
  BY <1>1, <1>8, AtWork
<1>10. Moved(f, upload[f], j, Free, s)
  BY <1>1, <1>4, <1>6, <1>7, <1>11, <1>13, AtWork DEF Moved
<1>12. /\ bio' \subseteq File /\ redone' \subseteq File /\ upload[f] \in UploadState
       /\ Done(s) => AllListed(f)
  BY <1>4, <1>8, FileNow
<1> QED
  BY <1>3, <1>4, <1>5, <1>7, <1>9, <1>10, <1>11, <1>12, HandSet, MovedInv

(* The rows a worker found no guest for are inserted: no other worker that  *)
(* has looked its rows up is still to insert them.                          *)
LEMMA InsertKeeps ==
    ASSUME ImportInv, NEW f \in File, InsertGuests(f)
    PROVE  ImportInv'
<1> DEFINE hand == worker[Queue[f]]
           w == [hand EXCEPT !.step = "finish"]
<1>1. AtStep(f, "insert") /\ Active(f) /\ hand.step = "insert" /\ Queue[f] = "csv"
  BY FileNow DEF InsertGuests, AtStep
<1>2. hand \in Hand /\ upload[f] \in UploadState /\ queued[f] \in JobState /\ file[f] \in FileState
  BY FileNow
<1>3. w \in Hand /\ w.step = "finish" /\ w.seen = hand.seen
  <2> HIDE DEF hand
  <2> QED
    BY <1>2, HandSet
<1>4. UNCHANGED <<upload, queued, file, bio, faults, lost, redone>>
      /\ worker' = [worker EXCEPT ![Queue[f]] = w]
  BY DEF InsertGuests
<1>5. guests' = [e \in Address |-> IF e \in hand.seen THEN guests[e] ELSE guests[e] + RowsWith(f, e)]
  BY DEF InsertGuests
<1>6. guests \in [Address -> Nat] /\ guests' \in [Address -> Nat]
  <2>1. \A e \in Address : guests[e] \in Nat /\ RowsWith(f, e) \in Nat
    BY RowsWithNat DEF ImportInv, ImportTypeOK
  <2> QED
    BY <1>5, <2>1 DEF ImportInv, ImportTypeOK
<1>7. \A e \in Address : guests'[e] >= guests[e]
  BY <1>5, <1>6, RowsWithNat
<1>8. Inserting(f)
  BY <1>1 DEF ImportInv, Inserted
<1> HIDE DEF w, hand
<1>9. Moved(f, upload[f], queued[f], w, file[f])
  BY <1>1, <1>3, <1>4, AtWork, FileNow DEF Moved, hand
<1>10. ImportTypeOK /\ OneJob /\ Inserted
  BY DEF ImportInv
<1>11. OneJob'
  BY <1>2, <1>3, <1>9, <1>10, MovedOneJob
<1>12. /\ worker' \in [{"csv", "bio"} -> Hand] /\ worker'[Queue[f]] = w
       /\ queued'[f] = queued[f] /\ file'[f] = file[f]
  BY <1>2, <1>3, <1>9, <1>10, MovedType
<1>13. ImportTypeOK'
  BY <1>4, <1>6, <1>10, <1>12 DEF ImportTypeOK, Hand
<1>14. ASSUME NEW g \in File \ {f}
       PROVE  /\ Active(g)' <=> Active(g)
              /\ Active(g) => worker'[Queue[g]] = worker[Queue[g]]
              /\ g \in Completed' <=> g \in Completed
              /\ g \in Listed' <=> g \in Listed
  BY <1>2, <1>3, <1>9, <1>10, OthersStay
<1>15. \A g \in File : ~ AtStep(g, "insert")'
  <2>1. ~ AtStep(f, "insert")'
    BY <1>3, <1>12 DEF AtStep
  <2>2. ASSUME NEW g \in File \ {f}, AtStep(g, "insert")' PROVE FALSE
    <3>1. AtStep(g, "insert") /\ Active(g)
      BY <1>14, <2>2 DEF AtStep
    <3>2. Queue[g] = "csv"
      BY <1>10, <3>1 DEF OneJob
    <3> QED
      BY <1>1, <1>10, <3>1, <3>2 DEF OneJob
  <2> QED
    BY <2>1, <2>2
<1>16. \A g \in File : AllListed(g) => AllListed(g)'
  <2>1. \A g \in File : ToSet(CsvRows[g]) \subseteq Address
    BY RowsKnown
  <2> QED
    BY <1>6, <1>7, <2>1 DEF AllListed
<1>17. AllListed(f)'
  <2>1. ASSUME NEW e \in ToSet(CsvRows[f]) PROVE guests'[e] > 0
    <3>1. e \in Address /\ RowsWith(f, e) \in Nat /\ RowsWith(f, e) > 0
      BY RowsKnown, RowsWithNat
    <3>2. e \in hand.seen => guests[e] > 0
      BY <1>8 DEF Inserting, hand
    <3> QED
      BY <1>5, <1>6, <3>1, <3>2
  <2> QED
    BY <2>1 DEF AllListed
<1>18. \A g \in File : AtStep(g, "finish")' \/ g \in Completed' => AllListed(g)'
  <2>1. ASSUME NEW g \in File \ {f}, AtStep(g, "finish")' \/ g \in Completed' PROVE AllListed(g)'
    <3>1. AtStep(g, "finish") \/ g \in Completed
      BY <1>14, <2>1 DEF AtStep
    <3> QED
      BY <1>10, <1>16, <3>1 DEF Inserted
  <2> QED
    BY <1>17, <2>1
<1>19. ASSUME NEW e \in Address \ {NoMail}
       PROVE  guests'[e] = 0 \/ \E g \in File : guests'[e] = RowsWith(g, e)
  <2>1. guests[e] \in Nat /\ (guests[e] = 0 \/ \E g \in File : guests[e] = RowsWith(g, e))
    BY <1>6, <1>10 DEF Inserted
  <2>2. CASE e \in hand.seen
    BY <1>5, <2>1, <2>2
  <2>3. CASE e \notin hand.seen /\ e \in ToSet(CsvRows[f])
    <3>1. guests[e] = 0
      BY <1>8, <2>3 DEF Inserting, hand
    <3>2. guests'[e] = RowsWith(f, e)
      BY <1>5, <2>3, <3>1, RowsWithNat
    <3> QED
      BY <3>2
  <2>4. CASE e \notin hand.seen /\ e \notin ToSet(CsvRows[f])
    <3>1. RowsWith(f, e) = 0
      BY <2>4, RowsWithNat
    <3>2. guests'[e] = guests[e]
      BY <1>5, <2>1, <2>4, <3>1
    <3> QED
      BY <2>1, <3>2
  <2> QED
    BY <2>2, <2>3, <2>4
<1>20. ASSUME redone' = {} PROVE guests'[NoMail] <= Unnamed'
  <2>1. guests[NoMail] <= Unnamed /\ guests[NoMail] \in Nat
    BY <1>4, <1>6, <1>10, <1>20, NoMailKnown DEF Inserted
  <2>2. guests'[NoMail] = guests[NoMail] + RowsWith(f, NoMail)
    BY <1>5, <1>8, NoMailKnown DEF Inserting, hand
  <2>3. f \notin Listed
    BY <1>1, AtWork DEF hand
  <2>4. f \in Listed'
    BY <1>1, <1>3, <1>12 DEF Listed, AtStep, Active
  <2>5. Listed' = Listed \cup {f}
    BY <1>14, <2>4 DEF Listed
  <2> DEFINE L == Listed
             a == UnnamedOf(L)
             b == UnnamedOf(L \cup {f})
  <2>6. /\ a[f] = 0 /\ b[f] = RowsWith(f, NoMail)
        /\ \A g \in File \ {f} : b[g] = a[g]
    BY <2>3 DEF UnnamedOf
  <2>7. \A g \in File : a[g] \in Nat /\ b[g] \in Nat
    BY UnnamedType
  <2>8. Unnamed = SumFunctionOnSet(a, File) /\ Unnamed' = SumFunctionOnSet(b, File)
    BY <2>5 DEF Unnamed
  <2> HIDE DEF a, b
  <2>9. SumFunctionOnSet(b, File) = SumFunctionOnSet(a, File) - a[f] + b[f]
    BY <2>6, <2>7, ImportAssumption, SumChange
  <2>10. SumFunctionOnSet(a, File) \in Nat
    BY <2>7, ImportAssumption, SumIn
  <2> QED
    BY <2>1, <2>2, <2>6, <2>8, <2>9, <2>10, RowsWithNat
<1>21. Inserted'
  BY <1>15, <1>18, <1>19, <1>20 DEF Inserted
<1> QED
  BY <1>11, <1>13, <1>21 DEF ImportInv

(* A worker stops with its job in hand. *)
LEMMA StopKeeps ==
    ASSUME ImportInv, NEW q \in {"csv", "bio"}, WorkerStops(q)
    PROVE  ImportInv'
<1> DEFINE mine == {f \in File : Queue[f] = q /\ Active(f)}
           again == {f \in mine : ~ queued[f].stalled}
           back(f) == IF f \in again THEN "waiting" ELSE "failed"
           stopped(f) == [queued[f] EXCEPT !.stalled = TRUE,
                            !.state = IF f \in again THEN "waiting" ELSE "failed"]
<1>1. UNCHANGED <<file, upload, guests, bio>> /\ worker' = [worker EXCEPT ![q] = Free]
  BY DEF WorkerStops
<1>2. /\ queued' = [f \in File |-> queued'[f]]
      /\ \A f \in mine : queued'[f] = stopped(f)
      /\ \A f \in File \ mine : queued'[f] = queued[f]
  <2>1. queued' = [f \in File |-> IF f \in mine THEN stopped(f) ELSE queued[f]]
    <3>1. queued' = [f \in File |->
                IF f \in mine THEN [queued[f] EXCEPT !.stalled = TRUE,
                                     !.state = IF f \in again THEN "waiting" ELSE "failed"]
                              ELSE queued[f]]
      BY DEF WorkerStops
    <3> HIDE DEF mine, again
    <3> QED
      BY <3>1, Zenon
  <2>2. \A f \in mine : f \in File
    OBVIOUS
  <2> HIDE DEF mine, stopped
  <2> QED
    BY <2>1, <2>2
<1> HIDE DEF stopped
<1>3. faults' \in 0..MaxFaults /\ lost' \subseteq File /\ redone' \subseteq File
  <2>1. faults' = faults + 1 /\ faults < MaxFaults
    BY DEF WorkerStops
  <2>2. lost' = lost \cup (mine \ again) /\ redone' \subseteq redone \cup mine
    BY DEF WorkerStops
  <2>3. mine \subseteq File
    OBVIOUS
  <2> HIDE DEF mine, again
  <2> QED
    BY <2>1, <2>2, <2>3, ImportAssumption DEF ImportInv, ImportTypeOK
<1>4. redone' = {} => redone = {} /\ (worker[q].step = "finish" => mine = {})
  <2>1. redone' = IF worker[q].step = "finish" THEN redone \cup mine ELSE redone
    BY DEF WorkerStops
  <2> QED
    BY <2>1
<1>5. ImportTypeOK /\ OneJob /\ Inserted
  BY DEF ImportInv
<1>6. \A f \in File : queued[f] \in JobState
  BY <1>5 DEF ImportTypeOK, JobState
<1>7. ASSUME NEW f \in mine
      PROVE  /\ queued'[f] \in JobState /\ queued'[f].state \in {"waiting", "failed"}
             /\ queued'[f].made = queued[f].made
  <2>1. f \in File /\ queued[f] \in JobState
    BY <1>6
  <2>2. back(f) \in {"none", "waiting", "active", "failed"} /\ back(f) \in {"waiting", "failed"}
    OBVIOUS
  <2>3. queued'[f] = stopped(f)
    BY <1>2
  <2> HIDE DEF mine
  <2>4. stopped(f) \in JobState /\ stopped(f).state = back(f) /\ stopped(f).made = queued[f].made
    BY ONLY <2>1, <2>2 DEF JobState, stopped
  <2> QED
    BY <2>2, <2>3, <2>4
<1>8. \A f \in File \ mine : queued'[f] = queued[f]
  BY <1>2
<1>9. worker \in [{"csv", "bio"} -> Hand] /\ Queue \in [File -> {"csv", "bio"}]
  BY <1>5, ImportAssumption DEF ImportTypeOK, Hand
<1>10. worker' \in [{"csv", "bio"} -> Hand] /\ \A f \in File : Queue[f] # q =>
         worker'[Queue[f]] = worker[Queue[f]]
  BY <1>1, <1>9, HandSet
<1>11. \A f \in File : Active(f)' <=> Active(f) /\ Queue[f] # q
  <2>1. ASSUME NEW f \in mine PROVE ~ Active(f)' /\ Queue[f] = q
    BY <1>7 DEF Active
  <2>2. ASSUME NEW f \in File \ mine PROVE Active(f)' <=> Active(f) /\ Queue[f] # q
    BY <1>8 DEF Active
  <2> HIDE DEF mine
  <2> QED
    BY <2>1, <2>2
<1>12. ImportTypeOK'
  <2>1. queued' \in [File -> JobState]
    <3>1. \A f \in File : queued'[f] \in JobState
      BY <1>6, <1>7, <1>8
    <3> HIDE DEF mine, back
    <3> QED
      BY <1>2, <3>1
  <2> HIDE DEF mine
  <2> QED
    BY <1>1, <1>3, <1>5, <1>10, <2>1 DEF ImportTypeOK, JobState, Hand
<1>13. OneJob'
  <2>1. \A f \in File : upload'[f] # "ended" => queued'[f].state = "none" /\ queued'[f].made = 0
    <3>1. \A f \in mine : upload[f] = "ended"
      BY <1>5 DEF OneJob, Active
    <3> HIDE DEF mine
    <3> QED
      BY <1>1, <1>5, <1>8, <3>1 DEF OneJob
  <2>2. \A f \in File : queued'[f].state \in {"waiting", "active"} => queued'[f].made < Tries
    <3>1. \A f \in mine : queued[f].made < Tries
      BY <1>5 DEF OneJob, Active
    <3> HIDE DEF mine
    <3> QED
      BY <1>5, <1>7, <1>8, <3>1 DEF OneJob
  <2>3. \A f \in Completed' : Queue[f] = "csv" => queued'[f].state = "none" /\ upload'[f] = "ended"
    <3>1. Completed' = Completed
      BY <1>1 DEF Completed
    <3>2. \A f \in mine : f \in Completed => Queue[f] # "csv"
      BY <1>5 DEF OneJob, Active
    <3> HIDE DEF mine
    <3>3. \A f \in Completed : f \in File
      BY DEF Completed
    <3> QED
      BY <1>1, <1>5, <1>8, <3>1, <3>2, <3>3 DEF OneJob
  <2> HIDE DEF mine
  <2> QED
    BY <1>5, <1>10, <1>11, <2>1, <2>2, <2>3 DEF OneJob, AtStep
<1> HIDE DEF mine, again, back, stopped
<1>14. \A f \in File, t \in {"insert", "finish"} : AtStep(f, t)' <=> AtStep(f, t) /\ Queue[f] # q
  BY <1>10, <1>11 DEF AtStep
<1>15. Completed' = Completed
  BY <1>1 DEF Completed
<1>16. Inserted'
  <2>1. \A f \in File : AtStep(f, "insert")' => Inserting(f)'
    BY <1>1, <1>5, <1>10, <1>14 DEF Inserted, Inserting
  <2>2. \A f \in File : AtStep(f, "finish")' \/ f \in Completed' => AllListed(f)'
    BY <1>1, <1>5, <1>14, <1>15 DEF Inserted, AllListed
  <2>3. ASSUME redone' = {} PROVE guests'[NoMail] <= Unnamed'
    <3>1. \A f \in File : AtStep(f, "finish") => Queue[f] # q
      BY <1>4, <2>3 DEF AtStep, mine
    <3>2. Listed' = Listed
      BY <1>14, <1>15, <3>1 DEF Listed
    <3> QED
      BY <1>1, <1>4, <1>5, <2>3, <3>2 DEF Inserted, Unnamed
  <2> QED
    BY <1>1, <1>5, <2>1, <2>2, <2>3 DEF Inserted
<1> QED
  BY <1>12, <1>13, <1>16 DEF ImportInv

LEMMA ImportStarts == ImportInit => ImportInv
<1> SUFFICES ASSUME ImportInit PROVE ImportInv
  OBVIOUS
<1>1. ImportTypeOK
  BY ImportAssumption DEF ImportInit, ImportTypeOK, Free
<1>2. OneJob
  BY ImportAssumption DEF ImportInit, OneJob, Active, AtStep, Completed
<1>3. Inserted
  <2>1. \A f \in File : ~ Active(f) /\ f \notin Completed
    BY DEF ImportInit, Active, Completed
  <2>2. NoMail \in Address /\ guests[NoMail] = 0
    BY NoMailKnown DEF ImportInit
  <2>3. Unnamed \in Nat
    BY UnnamedType, SumIn, ImportAssumption DEF Unnamed
  <2>4. \A e \in Address : guests[e] = 0
    BY DEF ImportInit
  <2> QED
    BY <2>1, <2>2, <2>3, <2>4 DEF Inserted, AtStep
<1> QED
  BY <1>1, <1>2, <1>3 DEF ImportInv

LEMMA ImportKeeps == ImportInv /\ [ImportNext]_importVars => ImportInv'
<1> SUFFICES ASSUME ImportInv, [ImportNext]_importVars PROVE ImportInv'
  OBVIOUS
<1>1. ASSUME NEW f \in File,
             StoreObject(f) \/ InsertFileRow(f) \/ QueueFile(f) \/ UploadFails(f)
      PROVE  ImportInv'
  BY <1>1, UploadKeeps
<1>2. ASSUME NEW f \in File, WorkerStep(f) \/ AttemptThrows(f)
      PROVE  ImportInv'
  BY <1>2, ReadKeeps, MatchKeeps, InsertKeeps, FinishKeeps, BioKeeps, CatchKeeps, ThrowKeeps
     DEF WorkerStep
<1>3. ASSUME NEW q \in {"csv", "bio"}, WorkerStops(q) PROVE ImportInv'
  BY <1>3, StopKeeps
<1>4. CASE UNCHANGED importVars
  BY <1>4 DEF importVars, ImportInv, ImportTypeOK, OneJob, Inserted, Active, AtStep, Completed,
              Listed, Unnamed, Inserting, AllListed
<1> QED
  BY <1>1, <1>2, <1>3, <1>4 DEF ImportNext

LEMMA ListedOnce == ImportInv => GuestsListedOnce
<1> SUFFICES ASSUME ImportInv PROVE GuestsListedOnce
  OBVIOUS
<1>1. Inserted /\ guests \in [Address -> Nat]
  BY DEF ImportInv, ImportTypeOK
<1>2. ASSUME NEW e \in Address \ {NoMail} PROVE guests[e] <= MostRows(e)
  <2> DEFINE S == {RowsWith(f, e) : f \in File} \cup {0}
  <2>1. S \subseteq Int /\ 0 \in S
    BY RowsWithNat
  <2>2. IsFiniteSet(S)
    <3> DEFINE rowsOf == [f \in File |-> RowsWith(f, e)]
               T == {RowsWith(f, e) : f \in File}
    <3>2. rowsOf \in Surjection(File, T)
      BY DEF Surjection
    <3> HIDE DEF rowsOf, T
    <3>3. IsFiniteSet(T)
      BY <3>2, ImportAssumption, FS_Surjection
    <3>1. IsFiniteSet({RowsWith(f, e) : f \in File})
      BY <3>3 DEF T
    <3> QED
      BY <3>1, FS_AddElement
  <2>3. guests[e] \in S
    BY <1>1 DEF Inserted
  <2> HIDE DEF S
  <2>4. \E x \in S : \A y \in S : x >= y
    BY <2>1, <2>2, GreatestExists
  <2>5. \A y \in S : Max(S) >= y
    BY <2>4 DEF Max
  <2>6. Max(S) \in Int
    BY <2>1, <2>4 DEF Max
  <2> QED
    BY <1>1, <2>3, <2>5, <2>6 DEF MostRows, S
<1>3. ASSUME redone = {}
      PROVE  guests[NoMail] <= SumFunction([f \in File |-> RowsWith(f, NoMail)])
  <2> DEFINE all == [f \in File |-> RowsWith(f, NoMail)]
             inTable == UnnamedOf(Listed)
  <2>1. \A f \in File : inTable[f] \in Nat /\ all[f] \in Nat /\ inTable[f] <= all[f]
    BY RowsWithNat DEF UnnamedOf
  <2>2. DOMAIN all = File
    OBVIOUS
  <2> HIDE DEF all, inTable
  <2>3. SumFunctionOnSet(inTable, File) <= SumFunctionOnSet(all, File)
    BY <2>1, ImportAssumption, SumMonotone
  <2>4. SumFunctionOnSet(inTable, File) \in Nat /\ SumFunctionOnSet(all, File) \in Nat
    BY <2>1, ImportAssumption, SumIn
  <2>5. guests[NoMail] \in Nat /\ guests[NoMail] <= SumFunctionOnSet(inTable, File)
    BY <1>1, <1>3, NoMailKnown DEF Inserted, Unnamed, inTable
  <2>6. SumFunction(all) = SumFunctionOnSet(all, File)
    BY <2>2 DEF SumFunction
  <2> QED
    BY <2>3, <2>4, <2>5, <2>6 DEF all
<1>4. \A f \in Completed : \A e \in ToSet(CsvRows[f]) : guests[e] > 0
  BY <1>1 DEF Inserted, AllListed, Completed
<1> QED
  BY <1>2, <1>3, <1>4 DEF GuestsListedOnce

(***************************************************************************)
(* Whatever is uploaded, retried or cut short, CsvImportProcessor lists no *)
(* guest twice who has an address, lists a guest without address once per  *)
(* row unless an attempt ended between createMany and the file's status,   *)
(* and marks a file completed only when all of its guests are listed.       *)
(***************************************************************************)
THEOREM GuestsOnce == ImportSpec => [](ImportTypeOK /\ GuestsListedOnce)
<1>1. ImportSpec => []ImportInv
  BY ImportStarts, ImportKeeps, PTL DEF ImportSpec
<1>2. ImportInv => ImportTypeOK
  BY DEF ImportInv
<1> QED
  BY <1>1, <1>2, ListedOnce, PTL

-----------------------------------------------------------------------------
(* A bucket that is not there has granted nothing. *)
UnusedUnspent == \A k \in BucketKey : ~ bucket[k].there => spent[k] = 0

BucketInv == BucketTypeOK /\ UnusedUnspent /\ WithinRate

Bucket == [there : BOOLEAN, tokens : 0..Cap, last : 0..MaxTime]

-----------------------------------------------------------------------------
(* A refill never takes a bucket above its capacity or below what it had,  *)
(* and credits no more than the seconds since lastRefill.                  *)
LEMMA RefillBounds ==
    ASSUME BucketAssumption, NEW b \in Bucket, NEW time \in 0..MaxTime
    PROVE  /\ Refilled(b, time) \in 0..Cap
           /\ b.tokens <= Refilled(b, time)
           /\ time >= b.last => Refilled(b, time) <= b.tokens + Rate * (time - b.last)
<1>1. Elapsed(b, time) \in Nat /\ (time >= b.last => Elapsed(b, time) = time - b.last)
  BY DEF Bucket, Elapsed, BucketAssumption
<1>2. Elapsed(b, time) * Rate \in Nat /\ Elapsed(b, time) * Rate = Rate * Elapsed(b, time)
  BY <1>1 DEF BucketAssumption
<1>3. b.tokens \in 0..Cap /\ Cap \in Nat
  BY DEF Bucket, BucketAssumption
<1> QED
  BY <1>1, <1>2, <1>3 DEF Refilled, AtMostCap

(* What the script leaves of a bucket is a bucket: tokens never go below   *)
(* zero, and a grant takes what it found.                                  *)
LEMMA AfterBucket ==
    ASSUME BucketAssumption, NEW b \in Bucket, NEW time \in 0..MaxTime
    PROVE  /\ After(b, time) \in Bucket /\ After(b, time).there
           /\ b.there /\ Grants(b, time) =>
                /\ After(b, time).tokens = Refilled(b, time) - Need
                /\ After(b, time).last = time
           /\ ~ b.there => After(b, time).tokens = Cap - Need /\ After(b, time).last = time
<1>1. Refilled(b, time) \in 0..Cap
  BY RefillBounds
<1>2. b.tokens \in 0..Cap /\ b.last \in 0..MaxTime /\ b.there \in BOOLEAN
      /\ Cap \in Nat /\ Need \in 0..Cap
  BY DEF Bucket, BucketAssumption
<1>3. CASE ~ b.there
  <2>1. After(b, time) = [there |-> TRUE, tokens |-> Cap - Need, last |-> time]
    BY <1>3 DEF After
  <2> QED
    BY <1>2, <1>3, <2>1 DEF Bucket
<1>4. CASE b.there /\ Grants(b, time)
  <2>1. After(b, time) = [there |-> TRUE, tokens |-> Refilled(b, time) - Need, last |-> time]
    BY <1>4 DEF After
  <2>2. Refilled(b, time) - Need \in 0..Cap
    BY <1>1, <1>2, <1>4 DEF Grants
  <2> QED
    BY <1>4, <2>1, <2>2 DEF Bucket
<1>5. CASE b.there /\ ~ Grants(b, time)
  <2>1. After(b, time) = [b EXCEPT !.tokens = Refilled(b, time)]
    BY <1>5 DEF After
  <2> QED
    BY <1>1, <1>2, <1>5, <2>1 DEF Bucket
<1> QED
  BY <1>2, <1>3, <1>4, <1>5

(* No bucket exists at the start. *)
LEMMA InitBucket ==
    ASSUME BucketAssumption, BucketInit
    PROVE  BucketInv
BY DEF BucketAssumption, BucketInit, BucketInv, BucketTypeOK, UnusedUnspent, WithinRate

(* One request: what its script does to the buckets it asks. *)
LEMMA ConsumeBucket ==
    ASSUME BucketAssumption, BucketInv,
           NEW c \in Client, NEW i \in Ip, NEW time \in 0..clock, Consume(c, i, time)
    PROVE  BucketInv'
<1> DEFINE asked == IF Grants(bucket[c], time) THEN {c, i} ELSE {c}
           granted == {k \in asked : Grants(bucket[k], time)}
<1>1. asked \subseteq BucketKey /\ granted \subseteq asked
  BY DEF BucketKey
<1>2. time \in 0..MaxTime /\ time \in Nat
  BY DEF BucketInv, BucketTypeOK, BucketAssumption
<1>3. /\ bucket \in [BucketKey -> Bucket] /\ spent \in [BucketKey -> Nat]
      /\ born \in [BucketKey -> 0..MaxTime] /\ Need \in Nat /\ Cap \in Nat /\ Rate \in Nat
      /\ MaxTime \in Nat
  BY DEF BucketInv, BucketTypeOK, Bucket, BucketAssumption
<1>4. /\ bucket' = [k \in BucketKey |-> IF k \in asked THEN After(bucket[k], time) ELSE bucket[k]]
      /\ spent' = [k \in BucketKey |-> IF k \in granted THEN spent[k] + Need ELSE spent[k]]
      /\ born' = [k \in BucketKey |-> IF k \in asked /\ ~ bucket[k].there THEN time ELSE born[k]]
      /\ denied' = denied \cup (asked \ granted)
      /\ late' = late \cup {k \in asked : bucket[k].there /\ time < bucket[k].last}
      /\ clock' = clock
  BY DEF Consume
<1>5. BucketTypeOK'
  <2>1. bucket' \in [BucketKey -> Bucket]
    BY <1>2, <1>3, <1>4, AfterBucket
  <2>2. spent' \in [BucketKey -> Nat] /\ born' \in [BucketKey -> 0..MaxTime]
    BY <1>2, <1>3, <1>4
  <2>3. denied' \subseteq BucketKey /\ late' \subseteq BucketKey
    BY <1>1, <1>4 DEF BucketInv, BucketTypeOK
  <2> QED
    BY <1>4, <2>1, <2>2, <2>3 DEF BucketInv, BucketTypeOK, Bucket
<1>6. UnusedUnspent'
  <2> SUFFICES ASSUME NEW k \in BucketKey, ~ bucket'[k].there
               PROVE  spent'[k] = 0
    BY DEF UnusedUnspent
  <2>1. k \notin asked
    BY <1>2, <1>3, <1>4, AfterBucket
  <2> QED
    BY <1>1, <1>4, <2>1 DEF BucketInv, UnusedUnspent
<1>7. WithinRate'
  <2> SUFFICES ASSUME NEW k \in BucketKey \ (denied' \cup late'), bucket'[k].there
               PROVE  spent'[k] + bucket'[k].tokens <= Cap + Rate * (bucket'[k].last - born'[k])
    BY DEF WithinRate
  <2>1. k \notin denied \cup late
    BY <1>4
  <2>2. CASE k \notin asked
    <3>1. bucket'[k] = bucket[k] /\ spent'[k] = spent[k] /\ born'[k] = born[k]
      BY <1>1, <1>4, <2>2
    <3> QED
      BY <2>1, <3>1 DEF BucketInv, WithinRate
  <2>3. CASE k \in asked /\ ~ bucket[k].there
    <3>1. k \in granted
      BY <2>3 DEF Grants
    <3>2. spent'[k] = Need
      BY <1>3, <1>4, <2>3, <3>1 DEF BucketInv, UnusedUnspent
    <3>3. bucket'[k].tokens = Cap - Need /\ bucket'[k].last = time /\ born'[k] = time
      <4>1. bucket'[k] = After(bucket[k], time) /\ born'[k] = time
        BY <1>1, <1>4, <2>3
      <4>2. bucket[k] \in Bucket
        BY <1>3
      <4>3. After(bucket[k], time).tokens = Cap - Need /\ After(bucket[k], time).last = time
        BY <1>2, <2>3, <4>2, AfterBucket
      <4> QED
        BY <4>1, <4>3
    <3>4. Rate * (time - time) = 0
      BY <1>2, <1>3
    <3> QED
      BY <1>3, <3>2, <3>3, <3>4
  <2>4. CASE k \in asked /\ bucket[k].there
    <3>1. k \in granted
      BY <1>4, <2>4
    <3>2. /\ spent'[k] = spent[k] + Need /\ born'[k] = born[k]
          /\ bucket'[k].tokens = Refilled(bucket[k], time) - Need /\ bucket'[k].last = time
      BY <1>2, <1>3, <1>4, <2>4, <3>1, AfterBucket
    <3>3. bucket[k] \in Bucket /\ bucket[k].last \in Int /\ bucket[k].tokens \in Int
          /\ born[k] \in Int /\ spent[k] \in Int /\ time \in Int /\ Rate \in Int
      BY <1>2, <1>3 DEF Bucket
    <3>4. time >= bucket[k].last
      BY <1>4, <2>4, <3>3
    <3>5. Refilled(bucket[k], time) \in 0..Cap
          /\ Refilled(bucket[k], time) <= bucket[k].tokens + Rate * (time - bucket[k].last)
      BY <1>2, <3>3, <3>4, RefillBounds
    <3>6. spent[k] + bucket[k].tokens <= Cap + Rate * (bucket[k].last - born[k])
      BY <2>1, <2>4 DEF BucketInv, WithinRate
    <3>7. Rate * (time - bucket[k].last) + Rate * (bucket[k].last - born[k]) = Rate * (time - born[k])
      BY <3>3
    <3>8. /\ Rate * (time - bucket[k].last) \in Int
          /\ Rate * (bucket[k].last - born[k]) \in Int /\ Rate * (time - born[k]) \in Int
      BY <3>3
    <3> QED
      BY <1>3, <3>2, <3>3, <3>5, <3>6, <3>7, <3>8
  <2> QED
    BY <2>2, <2>3, <2>4
<1> QED
  BY <1>5, <1>6, <1>7 DEF BucketInv

(* The invariant of the buckets. *)
LEMMA BucketInvHolds == BucketSpec => []BucketInv
<1>1. BucketInit => BucketInv
  BY InitBucket, BucketAssumption
<1>2. BucketInv /\ [BucketNext]_bucketVars => BucketInv'
  <2> SUFFICES ASSUME BucketInv, [BucketNext]_bucketVars
               PROVE  BucketInv'
    OBVIOUS
  <2>1. CASE BucketTick
    BY <2>1, BucketAssumption
    DEF BucketTick, BucketInv, BucketTypeOK, UnusedUnspent, WithinRate, BucketAssumption
  <2>2. ASSUME NEW c \in Client, NEW i \in Ip, NEW time \in 0..clock, Consume(c, i, time)
        PROVE  BucketInv'
    BY <2>2, ConsumeBucket, BucketAssumption
  <2>3. CASE UNCHANGED bucketVars
    BY <2>3 DEF bucketVars, BucketInv, BucketTypeOK, UnusedUnspent, WithinRate
  <2> QED
    BY <2>1, <2>2, <2>3 DEF BucketNext
<1> QED
  BY <1>1, <1>2, PTL DEF BucketSpec

(***************************************************************************)
(* No bucket that never refused, and never saw an older clock, grants more *)
(* than a bucketful and its rate, whatever the capacity, the rate and the  *)
(* number of clients and addresses.                                        *)
(***************************************************************************)
THEOREM RateHolds == BucketSpec => []WithinRate
<1>1. BucketInv => WithinRate
  BY DEF BucketInv
<1> QED
  BY <1>1, BucketInvHolds, PTL

(***************************************************************************)
(* Tokens stay between none and a bucketful, refusals and lagging clocks   *)
(* included.                                                               *)
(***************************************************************************)
THEOREM BucketTypeCorrect == BucketSpec => []BucketTypeOK
<1>1. BucketInv => BucketTypeOK
  BY DEF BucketInv
<1> QED
  BY <1>1, BucketInvHolds, PTL
=============================================================================
