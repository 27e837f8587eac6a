----------------------------- MODULE ConcertCache -----------------------------
(***************************************************************************)
(* The cached documents of a concert (ConcertService findOne, findAll and  *)
(* invalidateCache): its detail and the first page of the listing.         *)
(* Readers fill the cache; whoever changes the rows deletes both           *)
(* afterwards, without waiting for it.  The other pages and statuses of    *)
(* the listing are never deleted and only expire; a hit changes nothing.   *)
(*                                                                         *)
(* The rows are a version that grows with every change a document shows.   *)
(* stranded is history: documents filled from rows that a change had       *)
(* overtaken, whose DEL failed, or whose change deletes nothing.           *)
(***************************************************************************)
EXTENDS Naturals

CONSTANTS
    Reader,         \* public requests in progress
    Writer,         \* invalidations in progress
    MaxWrites,      \* bound: changes of the rows
    MaxLapses       \* bound: commands of Redis that fail

ASSUME CacheAssumption == MaxWrites \in Nat /\ MaxLapses \in Nat

VARIABLES
    rows,           \* version and status of the concert
    cached,         \* cached[d]: version the document shows, NotCached
    reader,         \* reader[r]: step, document, version read
    dropping,       \* dropping[w]: documents the invalidation has still to delete
    lapses, stranded

cacheVars == <<rows, cached, reader, dropping, lapses, stranded>>

Document == {"detail", "list"}
Version == 0..MaxWrites
NotCached == MaxWrites + 1
IdleReader == [step |-> "idle", doc |-> "detail", version |-> 0]

CacheTypeOK ==
    /\ rows \in [version : Version, status : {"PUBLIC", "DRAFT", "GONE"}]
    /\ cached \in [Document -> Version \cup {NotCached}]
    /\ reader \in [Reader -> [step : {"idle", "read", "store"}, doc : Document,
                              version : Version]]
    /\ dropping \in [Writer -> SUBSET Document]
    /\ lapses \in 0..MaxLapses
    /\ stranded \subseteq Document

CacheInit ==
    /\ rows = [version |-> 0, status |-> "PUBLIC"]
    /\ cached = [d \in Document |-> NotCached]
    /\ reader = [r \in Reader |-> IdleReader]
    /\ dropping = [w \in Writer |-> {}]
    /\ lapses = 0 /\ stranded = {}

-----------------------------------------------------------------------------
(* GET finds nothing, or fails. *)
CacheMiss(r, d) ==
    /\ reader[r].step = "idle"
    /\ \/ cached[d] = NotCached /\ UNCHANGED lapses
       \/ cached[d] # NotCached /\ lapses < MaxLapses /\ lapses' = lapses + 1
    /\ reader' = [reader EXCEPT ![r] = [IdleReader EXCEPT !.step = "read", !.doc = d]]
    /\ UNCHANGED <<rows, cached, dropping, stranded>>

(* The rows.  The detail of a draft, or of nothing, is not found. *)
ReadRows(r) ==
    /\ reader[r].step = "read"
    /\ reader' = [reader EXCEPT ![r] =
         IF reader[r].doc = "detail" /\ rows.status # "PUBLIC" THEN IdleReader
         ELSE [@ EXCEPT !.step = "store", !.version = rows.version]]
    /\ UNCHANGED <<rows, cached, dropping, lapses, stranded>>

(* SET: a document that does not show the latest change is stranded.       *)
StoreDocument(r) ==
    LET d == reader[r].doc
    IN /\ reader[r].step = "store"
       /\ \/ /\ cached' = [cached EXCEPT ![d] = reader[r].version]
             /\ stranded' = IF reader[r].version = rows.version THEN stranded \ {d} ELSE stranded \cup {d}
             /\ UNCHANGED lapses
          \/ /\ lapses < MaxLapses /\ lapses' = lapses + 1
             /\ UNCHANGED <<cached, stranded>>
       /\ reader' = [reader EXCEPT ![r] = IdleReader]
       /\ UNCHANGED <<rows, dropping>>

ExpireDocument(d) ==
    /\ cached[d] # NotCached
    /\ cached' = [cached EXCEPT ![d] = NotCached]
    /\ stranded' = stranded \ {d}
    /\ UNCHANGED <<rows, reader, dropping, lapses>>

-----------------------------------------------------------------------------
(* Mutant of ToDrop: the first page of the listing is left alone. *)
ToDropDetail == {"detail"}
ToDrop == Document

(* An edit or removal by an administrator, an order, a payment, and then   *)
(* invalidateCache: two DELs at a time.                                    *)
ChangeRows(w, status) ==
    /\ rows.version < MaxWrites /\ rows.status # "GONE" /\ dropping[w] = {}
    /\ rows' = [version |-> rows.version + 1, status |-> status]
    /\ dropping' = [dropping EXCEPT ![w] = ToDrop]
    /\ UNCHANGED <<cached, reader, lapses, stranded>>

(* Orders released by the payment cron and by a payment that has failed,   *)
(* and tickets issued: nothing is deleted.                                 *)
ChangeQuietly ==
    /\ rows.version < MaxWrites /\ rows.status # "GONE"
    /\ rows' = [rows EXCEPT !.version = @ + 1]
    /\ stranded' = Document
    /\ UNCHANGED <<cached, reader, dropping, lapses>>

DropDocument(w, d) ==
    /\ d \in dropping[w]
    /\ \/ /\ cached' = [cached EXCEPT ![d] = NotCached]
          /\ stranded' = stranded \ {d}
          /\ UNCHANGED lapses
       \/ /\ lapses < MaxLapses /\ lapses' = lapses + 1
          /\ stranded' = stranded \cup {d}
          /\ UNCHANGED cached
    /\ dropping' = [dropping EXCEPT ![w] = @ \ {d}]
    /\ UNCHANGED <<rows, reader>>

CacheNext ==
    \/ \E r \in Reader : \/ \E d \in Document : CacheMiss(r, d)
                         \/ ReadRows(r) \/ StoreDocument(r)
    \/ \E d \in Document : ExpireDocument(d)
    \/ \E w \in Writer : \/ \E status \in {"PUBLIC", "DRAFT", "GONE"} : ChangeRows(w, status)
                         \/ \E d \in Document : DropDocument(w, d)
    \/ ChangeQuietly

CacheSpec == CacheInit /\ [][CacheNext]_cacheVars

-----------------------------------------------------------------------------
(***************************************************************************)
(* The cache holds an old document only while the invalidation that will   *)
(* delete it is under way, whatever readers and invalidations overlap,     *)
(* unless a reader stored what a change had overtaken, a DEL failed or the *)
(* change deletes nothing: then until its 60 seconds are over.             *)
(***************************************************************************)
StaleUnlessMissed ==
    \A d \in Document \ stranded :
      cached[d] \in {NotCached, rows.version} \/ \E w \in Writer : d \in dropping[w]
=============================================================================
