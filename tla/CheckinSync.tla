------------------------------ MODULE CheckinSync ------------------------------
(***************************************************************************)
(* Checking tickets in at the gates: the PWA of a device (online scan,     *)
(* offline queue and duplicate guard in IndexedDB, batch sync) and the     *)
(* server's two endpoints.  A request runs in a slot of Slot and is cut at *)
(* its PostgreSQL statements; the PWA is cut at its IndexedDB transactions *)
(* and network calls.  The reply takes effect with the last step of the    *)
(* request, unless the device has given the call up: Disconnect is the     *)
(* network error of a call the server goes on with.  A call that never     *)
(* reaches the server leaves nothing behind but the offline scan.          *)
(*                                                                         *)
(* The n-th scan of a device stands for its offlineEventId, so that        *)
(* [dev, n] is the key (deviceId, offlineEventId).                         *)
(***************************************************************************)
EXTENDS Integers, FiniteSets

CONSTANTS
    Device,         \* deviceId in localStorage, one PWA tab each
    Slot,           \* bound: requests the server works on at the same time
    Code,           \* the QR codes people show
    Ticket,
    TicketOf,       \* TicketOf[c]: the ticketId in QR code c
    Known,          \* the tickets with a row in PostgreSQL
    Current,        \* the codes whose token and signature fit their ticket
    SameGate,       \* <<d, t>>: gates of d and t agree, or one has none
    MaxScans,       \* bound: MaxScans[d] scans of device d
    MaxDrops,       \* bound: calls given up while the server goes on
    MaxCrashes      \* bound: processes stopped, pages reloaded, storage errors

ASSUME CheckinAssumption ==
    /\ TicketOf \in [Code -> Ticket]
    /\ Known \subseteq Ticket
    /\ Current \subseteq Code
    /\ SameGate \subseteq Device \X Ticket
    /\ MaxScans \in [Device -> Nat]
    /\ MaxDrops \in Nat
    /\ MaxCrashes \in Nat

VARIABLES
    checkedIn,      \* the tickets with status CHECKED_IN; the others are ISSUED
    rows,           \* CheckinLog
    req,            \* req[s]: the request in slot s
    saved,          \* the records in IndexedDB, of all devices
    synced,         \* those marked synced
    guard,          \* <<d, t>>: t is in d's scanned_tickets store
    scan,           \* scan[d]: where handleScan is
    sync,           \* sync[d]: where triggerSync is
    scans,          \* scans[d]: scans so far
    shown,          \* history: the scans that ended with a valid screen
    failed,         \* history: the scans IndexedDB failed during
    drops,
    crashes

dbVars     == <<checkedIn, rows>>
deviceVars == <<saved, synced, guard>>
vars == <<dbVars, deviceVars, req, scan, sync, scans, shown, failed, drops, crashes>>

CheckinStatus == {"SUCCESS", "INVALID_TICKET", "ALREADY_CHECKED_IN",
                  "REJECTED_CONFLICT", "GATE_MISMATCH"}

Record == [dev : Device, n : Nat, code : Code]
Row    == [rec : Record, online : BOOLEAN, status : CheckinStatus]

Idle == [at |-> "idle"]
(* rec is the scan at hand, status what is about to be logged of it; todo is *)
(* the rest of a batch, good and clash the records answered success, conflict. *)
Call(op, at, rec) ==
    [op : op, dev : Device, heard : BOOLEAN, at : at, rec : rec,
     status : CheckinStatus, todo : SUBSET Record,
     good : SUBSET Record, clash : SUBSET Record]
Request == Call({"sync"}, {"look"}, {Idle})
    \cup Call({"verify", "sync"}, {"check", "update", "log"}, Record)
Scan == [at : {"verify", "guard", "save", "mark"}, rec : Record]
Sync == [at : {"wait", "mark", "clear"}, good : SUBSET Record, clash : SUBSET Record]

TicketIn(r) == TicketOf[r.code]
UnknownTicket(r) == TicketIn(r) \notin Known
Unsynced(d) == {r \in saved \ synced : r.dev = d}

DbTypeOK ==
    /\ checkedIn \subseteq Ticket
    /\ rows \subseteq Row

DeviceTypeOK ==
    /\ saved \subseteq Record
    /\ synced \subseteq Record
    /\ guard \subseteq Device \X Ticket
    /\ shown \subseteq Record
    /\ failed \subseteq Record

PageTypeOK ==
    /\ scan \in [Device -> Scan \cup {Idle}]
    /\ sync \in [Device -> Sync \cup {Idle}]
    /\ scans \in [Device -> Nat]

RequestTypeOK == req \in [Slot -> Request \cup {Idle}]

TypeOK ==
    /\ DbTypeOK /\ DeviceTypeOK /\ PageTypeOK /\ RequestTypeOK
    /\ drops \in Nat /\ crashes \in Nat

Init ==
    /\ checkedIn = {}
    /\ rows = {}
    /\ req = [s \in Slot |-> Idle]
    /\ saved = {}
    /\ synced = {}
    /\ guard = {}
    /\ scan = [d \in Device |-> Idle]
    /\ sync = [d \in Device |-> Idle]
    /\ scans = [d \in Device |-> 0]
    /\ shown = {}
    /\ failed = {}
    /\ drops = 0
    /\ crashes = 0

-----------------------------------------------------------------------------
(* handleScan on the device *)

NextScan(d, c) == [dev |-> d, n |-> scans[d] + 1, code |-> c]

(* One scan of a device at a time: the page's isScanning. *)
BeginScan(d, c, at) ==
    /\ scan[d] = Idle
    /\ scans[d] < MaxScans[d]
    /\ scan' = [scan EXCEPT ![d] = [at |-> at, rec |-> NextScan(d, c)]]
    /\ scans' = [scans EXCEPT ![d] = @ + 1]

(* isOnline: POST /checkin/verify. *)
ScanOnline(d, c, s) ==
    /\ req[s] = Idle
    /\ BeginScan(d, c, "verify")
    /\ req' = [req EXCEPT ![s] =
                 [op |-> "verify", dev |-> d, heard |-> TRUE, at |-> "check",
                  rec |-> NextScan(d, c), status |-> "SUCCESS",
                  todo |-> {}, good |-> {}, clash |-> {}]]
    /\ UNCHANGED <<dbVars, deviceVars, sync, shown, drops, crashes, failed>>

(* Offline, or the call fails before it reaches the server. *)
ScanOffline(d, c) ==
    /\ BeginScan(d, c, "guard")
    /\ UNCHANGED <<dbVars, deviceVars, req, sync, shown, drops, crashes, failed>>

(* Mutant of CheckGuard: the duplicate guard is not asked. *)
CheckNothing(d) ==
    /\ scan[d].at = "guard"
    /\ scan' = [scan EXCEPT ![d].at = "save"]
    /\ UNCHANGED <<dbVars, deviceVars, req, sync, scans, shown, drops, crashes, failed>>

(* hasTicketBeenScanned: refuse the scan, or save it. *)
CheckGuard(d) ==
    /\ scan[d].at = "guard"
    /\ scan' = [scan EXCEPT ![d] =
                  IF <<d, TicketIn(@.rec)>> \in guard THEN Idle
                  ELSE [@ EXCEPT !.at = "save"]]
    /\ UNCHANGED <<dbVars, deviceVars, req, sync, scans, shown, drops, crashes, failed>>

(* Mutant of SaveCheckinLog: the store is keyed by the ticket, put replaces. *)
SaveByTicket(d) ==
    /\ scan[d].at = "save"
    /\ LET r == scan[d].rec IN
       saved' = {o \in saved : o.dev # d \/ TicketIn(o) # TicketIn(r)} \cup {r}
    /\ scan' = [scan EXCEPT ![d].at = "mark"]
    /\ UNCHANGED <<dbVars, synced, guard, req, sync, scans, shown, drops, crashes, failed>>

SaveCheckinLog(d) ==
    /\ scan[d].at = "save"
    /\ saved' = saved \cup {scan[d].rec}
    /\ scan' = [scan EXCEPT ![d].at = "mark"]
    /\ UNCHANGED <<dbVars, synced, guard, req, sync, scans, shown, drops, crashes, failed>>

(* markTicketScanned, and the offline valid screen. *)
MarkTicketScanned(d) ==
    /\ scan[d].at = "mark"
    /\ guard' = guard \cup {<<d, TicketIn(scan[d].rec)>>}
    /\ shown' = shown \cup {scan[d].rec}
    /\ scan' = [scan EXCEPT ![d] = Idle]
    /\ UNCHANGED <<dbVars, saved, synced, req, sync, scans, drops, crashes, failed>>

-----------------------------------------------------------------------------
(* triggerSync on the device *)

(* getUnsynced and POST /checkin/sync; isSyncingRef keeps it single. *)
StartSync(d, s) ==
    /\ sync[d] = Idle
    /\ req[s] = Idle
    /\ Unsynced(d) # {}
    /\ sync' = [sync EXCEPT ![d] = [at |-> "wait", good |-> {}, clash |-> {}]]
    /\ req' = [req EXCEPT ![s] =
                 [op |-> "sync", dev |-> d, heard |-> TRUE, at |-> "look",
                  rec |-> Idle, status |-> "SUCCESS",
                  todo |-> Unsynced(d), good |-> {}, clash |-> {}]]
    /\ UNCHANGED <<dbVars, deviceVars, scan, scans, shown, drops, crashes, failed>>

(* markSynced, one IndexedDB transaction. *)
MarkSynced(d) ==
    /\ sync[d].at = "mark"
    /\ synced' = synced \cup sync[d].good
    /\ sync' = [sync EXCEPT ![d].at = "clear"]
    /\ UNCHANGED <<dbVars, saved, guard, req, scan, scans, shown, drops, crashes, failed>>

(* clearScannedTicket for the conflicts, one after the other. *)
ClearScannedTicket(d) ==
    /\ sync[d].at = "clear"
    /\ \/ \E r \in sync[d].clash :
            /\ guard' = guard \ {<<d, TicketIn(r)>>}
            /\ sync' = [sync EXCEPT ![d].clash = @ \ {r}]
       \/ /\ sync[d].clash = {}
          /\ sync' = [sync EXCEPT ![d] = Idle]
          /\ UNCHANGED guard
    /\ UNCHANGED <<dbVars, saved, synced, req, scan, scans, shown, drops, crashes, failed>>

-----------------------------------------------------------------------------
(* The server *)

Running(s, at) == req[s] # Idle /\ req[s].at = at

(* Ticket lookup, gate, signature, token: the same in both endpoints. *)
Verdict(r) ==
    IF UnknownTicket(r) THEN "NOT_FOUND"
    ELSE IF <<r.dev, TicketIn(r)>> \notin SameGate THEN "GATE_MISMATCH"
    ELSE IF r.code \notin Current THEN "INVALID_TICKET"
    ELSE "OK"

RowsOf(r) == {row \in rows : row.rec = r /\ ~ row.online}

(***************************************************************************)
(* The request ends with an error: HTTP 500 to a device that still waits.  *)
(* A scan shows its body as an invalid ticket; triggerSync throws.         *)
(***************************************************************************)
Fail(s) ==
    LET d == req[s].dev IN
    /\ req' = [req EXCEPT ![s] = Idle]
    /\ scan' = [scan EXCEPT ![d] =
                  IF req[s].heard /\ req[s].op = "verify" THEN Idle ELSE @]
    /\ sync' = [sync EXCEPT ![d] =
                  IF req[s].heard /\ req[s].op = "sync" THEN Idle ELSE @]
    /\ UNCHANGED rows

(* A network error at the device: the scan goes offline, triggerSync ends. *)
HangUp(s) ==
    LET d == req[s].dev IN
    /\ scan' = [scan EXCEPT ![d] =
                  IF req[s].op = "verify"
                  THEN [at |-> "guard", rec |-> req[s].rec] ELSE @]
    /\ sync' = [sync EXCEPT ![d] = IF req[s].op = "sync" THEN Idle ELSE @]

(* Mutant of LookUp: a record already logged is answered like a failed one. *)
LookUpFailed(s) ==
    /\ Running(s, "look")
    /\ \E r \in req[s].todo :
         \/ RowsOf(r) # {} /\ req' = [req EXCEPT ![s].todo = @ \ {r}]
         \/ RowsOf(r) = {} /\ req' = [req EXCEPT ![s].rec = r, ![s].at = "check"]
    /\ UNCHANGED <<dbVars, deviceVars, scan, sync, scans, shown, drops, crashes, failed>>

(* Next record of the batch; a record already logged is answered success. *)
LookUp(s) ==
    /\ Running(s, "look")
    /\ \E r \in req[s].todo :
         \/ /\ RowsOf(r) # {}
            /\ req' = [req EXCEPT ![s].todo = @ \ {r}, ![s].good = @ \cup {r}]
         \/ /\ RowsOf(r) = {}
            /\ req' = [req EXCEPT ![s].rec = r, ![s].at = "check"]
    /\ UNCHANGED <<dbVars, deviceVars, scan, sync, scans, shown, drops, crashes, failed>>

(* Mutant of CheckTicket: an unknown ticket is logged under a status of its own. *)
CheckLeniently(s) ==
    /\ Running(s, "check")
    /\ LET v == Verdict(req[s].rec) IN
       req' = [req EXCEPT ![s] =
                 IF v = "OK" THEN [@ EXCEPT !.at = "update"]
                 ELSE [@ EXCEPT !.at = "log", !.status = v]]
    /\ UNCHANGED <<dbVars, deviceVars, scan, sync, scans, shown, drops, crashes, failed>>

(* CheckinLog.ticketId is a foreign key: logging an unknown ticket throws. *)
CheckTicket(s) ==
    /\ Running(s, "check")
    /\ LET v == Verdict(req[s].rec) IN
       IF v = "NOT_FOUND" THEN Fail(s)
       ELSE /\ req' = [req EXCEPT ![s] =
                         IF v = "OK" THEN [@ EXCEPT !.at = "update"]
                         ELSE [@ EXCEPT !.at = "log", !.status = v]]
            /\ UNCHANGED <<rows, scan, sync>>
    /\ UNCHANGED <<checkedIn, deviceVars, scans, shown, drops, crashes, failed>>

(* Mutant of CheckIn: updated whatever the status of the ticket. *)
CheckInAnyStatus(s) ==
    /\ Running(s, "update")
    /\ checkedIn' = checkedIn \cup {TicketIn(req[s].rec)}
    /\ req' = [req EXCEPT ![s].at = "log", ![s].status = "SUCCESS"]
    /\ UNCHANGED <<rows, deviceVars, scan, sync, scans, shown, drops, crashes, failed>>

(* Mutant of CheckIn: the count of updated rows is read the wrong way. *)
CheckInSwapped(s) ==
    /\ Running(s, "update")
    /\ LET t == TicketIn(req[s].rec) IN
       /\ checkedIn' = checkedIn \cup {t}
       /\ req' = [req EXCEPT ![s].at = "log",
                             ![s].status = IF t \in checkedIn THEN "SUCCESS"
                                           ELSE IF req[s].op = "verify"
                                           THEN "ALREADY_CHECKED_IN"
                                           ELSE "REJECTED_CONFLICT"]
    /\ UNCHANGED <<rows, deviceVars, scan, sync, scans, shown, drops, crashes, failed>>

(* UPDATE ... WHERE status = ISSUED. *)
CheckIn(s) ==
    /\ Running(s, "update")
    /\ LET t == TicketIn(req[s].rec) IN
       /\ checkedIn' = checkedIn \cup {t}
       /\ req' = [req EXCEPT ![s].at = "log",
                             ![s].status = IF t \notin checkedIn THEN "SUCCESS"
                                           ELSE IF req[s].op = "verify"
                                           THEN "ALREADY_CHECKED_IN"
                                           ELSE "REJECTED_CONFLICT"]
    /\ UNCHANGED <<rows, deviceVars, scan, sync, scans, shown, drops, crashes, failed>>

(* logCheckinAttempt of an online scan, and its reply. *)
LogVerify(s) ==
    /\ Running(s, "log") /\ req[s].op = "verify"
    /\ LET q == req[s] IN
       /\ rows' = rows \cup {[rec |-> q.rec, online |-> TRUE, status |-> q.status]}
       /\ scan' = [scan EXCEPT ![q.dev] = IF q.heard THEN Idle ELSE @]
       /\ shown' = IF q.heard /\ q.status = "SUCCESS" THEN shown \cup {q.rec}
                   ELSE shown
    /\ req' = [req EXCEPT ![s] = Idle]
    /\ UNCHANGED <<checkedIn, deviceVars, sync, scans, drops, crashes, failed>>

(* logCheckinAttempt of a record; a second row for it violates UNIQUE. *)
LogRecord(s) ==
    /\ Running(s, "log") /\ req[s].op = "sync"
    /\ LET q == req[s] IN
       IF RowsOf(q.rec) # {} THEN Fail(s)
       ELSE /\ rows' = rows \cup {[rec |-> q.rec, online |-> FALSE,
                                   status |-> q.status]}
            /\ req' = [req EXCEPT ![s] =
                 [q EXCEPT !.at = "look", !.rec = Idle, !.status = "SUCCESS",
                           !.todo = @ \ {q.rec},
                           !.good = IF q.status = "SUCCESS" THEN @ \cup {q.rec} ELSE @,
                           !.clash = IF q.status = "REJECTED_CONFLICT"
                                     THEN @ \cup {q.rec} ELSE @]]
            /\ UNCHANGED <<scan, sync>>
    /\ UNCHANGED <<checkedIn, deviceVars, scans, shown, drops, crashes, failed>>

(* Mutant of AnswerSync: the device marks its whole queue. *)
AnswerAll(s) ==
    /\ Running(s, "look") /\ req[s].todo = {}
    /\ LET q == req[s] IN
       sync' = [sync EXCEPT ![q.dev] =
                  IF q.heard THEN [at |-> "mark", good |-> Unsynced(q.dev),
                                   clash |-> q.clash] ELSE @]
    /\ req' = [req EXCEPT ![s] = Idle]
    /\ UNCHANGED <<dbVars, deviceVars, scan, scans, shown, drops, crashes, failed>>

(* The reply to a batch. *)
AnswerSync(s) ==
    /\ Running(s, "look") /\ req[s].todo = {}
    /\ LET q == req[s] IN
       sync' = [sync EXCEPT ![q.dev] =
                  IF q.heard THEN [at |-> "mark", good |-> q.good, clash |-> q.clash]
                  ELSE @]
    /\ req' = [req EXCEPT ![s] = Idle]
    /\ UNCHANGED <<dbVars, deviceVars, scan, scans, shown, drops, crashes, failed>>

-----------------------------------------------------------------------------
(* Failures *)

(* The device gives the call up, the server goes on. *)
Disconnect(s) ==
    /\ req[s] # Idle /\ req[s].heard
    /\ drops < MaxDrops
    /\ drops' = drops + 1
    /\ req' = [req EXCEPT ![s].heard = FALSE]
    /\ HangUp(s)
    /\ UNCHANGED <<dbVars, deviceVars, scans, shown, crashes, failed>>

(* The server process stops between two statements. *)
ServerCrash(s) ==
    /\ req[s] # Idle
    /\ crashes < MaxCrashes
    /\ crashes' = crashes + 1
    /\ req' = [req EXCEPT ![s] = Idle]
    /\ IF req[s].heard THEN HangUp(s) ELSE UNCHANGED <<scan, sync>>
    /\ UNCHANGED <<dbVars, deviceVars, scans, shown, drops, failed>>

(* A statement fails in PostgreSQL, and the request with it. *)
DatabaseFails(s) ==
    /\ req[s] # Idle
    /\ crashes < MaxCrashes
    /\ crashes' = crashes + 1
    /\ Fail(s)
    /\ UNCHANGED <<checkedIn, deviceVars, scans, shown, drops, failed>>

(***************************************************************************)
(* A transaction of IndexedDB fails.  handleScan goes on without the guard *)
(* or shows the valid screen without the record; triggerSync throws out of *)
(* markSynced and skips the ticket clearScannedTicket could not clear.     *)
(***************************************************************************)
StorageFails(d) ==
    /\ crashes < MaxCrashes
    /\ crashes' = crashes + 1
    /\ \/ /\ scan[d].at \in {"guard", "save", "mark"}
          /\ failed' = failed \cup {scan[d].rec}
          /\ IF scan[d].at = "guard"
             THEN scan' = [scan EXCEPT ![d].at = "save"] /\ UNCHANGED shown
             ELSE /\ scan' = [scan EXCEPT ![d] = Idle]
                  /\ shown' = shown \cup {scan[d].rec}
          /\ UNCHANGED sync
       \/ /\ sync[d].at = "mark"
          /\ sync' = [sync EXCEPT ![d] = Idle]
          /\ UNCHANGED <<scan, shown, failed>>
       \/ /\ sync[d].at = "clear"
          /\ \E r \in sync[d].clash : sync' = [sync EXCEPT ![d].clash = @ \ {r}]
          /\ UNCHANGED <<scan, shown, failed>>
    /\ UNCHANGED <<dbVars, deviceVars, req, scans, drops>>

(* The page is reloaded: IndexedDB stays, what was running is gone. *)
Reload(d) ==
    /\ scan[d] # Idle \/ sync[d] # Idle
    /\ crashes < MaxCrashes
    /\ crashes' = crashes + 1
    /\ scan' = [scan EXCEPT ![d] = Idle]
    /\ sync' = [sync EXCEPT ![d] = Idle]
    /\ req' = [s \in Slot |-> IF req[s] # Idle /\ req[s].dev = d
                              THEN [req[s] EXCEPT !.heard = FALSE] ELSE req[s]]
    /\ UNCHANGED <<dbVars, deviceVars, scans, shown, drops, failed>>

-----------------------------------------------------------------------------
ScanStep(d) == CheckGuard(d) \/ SaveCheckinLog(d) \/ MarkTicketScanned(d)
SyncStep(d) == MarkSynced(d) \/ ClearScannedTicket(d)

Serve(s) ==
    \/ LookUp(s) \/ CheckTicket(s) \/ CheckIn(s)
    \/ LogVerify(s) \/ LogRecord(s) \/ AnswerSync(s)

Next ==
    \/ \E d \in Device, c \in Code :
         ScanOffline(d, c) \/ \E s \in Slot : ScanOnline(d, c, s)
    \/ \E d \in Device, s \in Slot : StartSync(d, s)
    \/ \E d \in Device : ScanStep(d) \/ SyncStep(d) \/ StorageFails(d) \/ Reload(d)
    \/ \E s \in Slot :
         Serve(s) \/ Disconnect(s) \/ ServerCrash(s) \/ DatabaseFails(s)

Spec == Init /\ [][Next]_vars

(***************************************************************************)
(* Fairness: scans, syncs and requests that run go on.  The staff press    *)
(* the sync button, or the network comes back, again and again as long as  *)
(* records wait, and the server takes the call even if it is often busy.   *)
(***************************************************************************)
Fairness ==
    /\ \A d \in Device :
         /\ WF_vars(ScanStep(d))
         /\ WF_vars(SyncStep(d))
         /\ SF_vars(\E s \in Slot : StartSync(d, s))
    /\ \A s \in Slot : WF_vars(Serve(s))

FairSpec == Spec /\ Fairness

-----------------------------------------------------------------------------
(* Properties *)

(***************************************************************************)
(* checkin.md: a QR code passes the gates once.  However scans, batches    *)
(* and their retries interleave, at most one of them is logged SUCCESS.    *)
(***************************************************************************)
OneSuccess ==
    \A a, b \in rows :
        /\ a.status = "SUCCESS" /\ b.status = "SUCCESS"
        /\ TicketIn(a.rec) = TicketIn(b.rec)
        => a = b

(***************************************************************************)
(* A record the device takes off its queue has its row in CheckinLog, with *)
(* replies lost, batches sent twice and pages reloaded.                    *)
(***************************************************************************)
SyncedIsLogged == \A r \in synced : RowsOf(r) # {}

(***************************************************************************)
(* Whoever was let in with a valid ticket is known to the server, or the   *)
(* record is still in the queue of the device that let them in: with lost  *)
(* replies, retries, reloads and crashes, but not when IndexedDB failed.   *)
(***************************************************************************)
NoScanLost ==
    \A r \in shown \ failed : Verdict(r) = "OK"
        => TicketIn(r) \in checkedIn \/ r \in saved \ synced

(***************************************************************************)
(* The duplicate guard: a device whose IndexedDB works lets one ticket in  *)
(* twice while offline only after a conflict on that ticket.               *)
(***************************************************************************)
OfflineOnce ==
    \A a, b \in (shown \cap saved) \ failed :
        a.dev = b.dev /\ TicketIn(a) = TicketIn(b) /\ a # b
        => \E row \in rows : /\ row.rec.dev = a.dev
                             /\ TicketIn(row.rec) = TicketIn(a)
                             /\ row.status = "REJECTED_CONFLICT"

(***************************************************************************)
(* The batch is processed record by record, but the row of an unknown      *)
(* ticket cannot be written and fails the request: nothing scanned after   *)
(* such a record is ever marked synced.                                    *)
(***************************************************************************)
UnknownBlocksQueue ==
    \A u \in saved, r \in synced :
        u.dev = r.dev /\ UnknownTicket(u) => r.n < u.n

Logging(t) == \E s \in Slot : /\ Running(s, "log")
                               /\ req[s].status = "SUCCESS"
                               /\ TicketIn(req[s].rec) = t

(***************************************************************************)
(* What the organiser reads in CheckinLog, as long as every call is waited *)
(* for and nothing stops half-way: a checked-in ticket has its SUCCESS     *)
(* row, and a conflict is with another scan that was let in.  A reply      *)
(* given up, or a crash after the ticket's update, turns a scan into a     *)
(* conflict with itself.                                                   *)
(***************************************************************************)
LogTellsTruth ==
    drops = 0 /\ crashes = 0 =>
      /\ \A t \in checkedIn : \/ Logging(t)
                              \/ \E row \in rows : /\ row.status = "SUCCESS"
                                                   /\ TicketIn(row.rec) = t
      /\ \A a \in rows : a.status = "REJECTED_CONFLICT" =>
           \/ Logging(TicketIn(a.rec))
           \/ \E b \in rows : /\ b.status = "SUCCESS" /\ b.rec # a.rec
                              /\ TicketIn(b.rec) = TicketIn(a.rec)

(***************************************************************************)
(* Every record is synced in the end, unless the device also holds one of  *)
(* a ticket the server does not know.                                      *)
(***************************************************************************)
QueueDrains ==
    \A d \in Device :
        Unsynced(d) # {} ~> \/ Unsynced(d) = {}
                            \/ \E r \in saved : r.dev = d /\ UnknownTicket(r)

=============================================================================
