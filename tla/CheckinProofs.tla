---------------------------- MODULE CheckinProofs ----------------------------
(***************************************************************************)
(* A ticket is logged SUCCESS at most once, for any number of devices,     *)
(* requests, lost replies, reloads and crashes.                            *)
(*                                                                         *)
(* OneSuccess is not inductive: a request that has updated the ticket and  *)
(* not yet written its row still owes a SUCCESS.  UpdatedOnce says that    *)
(* rows and such requests together are at most one per ticket, and that    *)
(* the ticket is CHECKED_IN, so that the update's WHERE clause lets no     *)
(* other request become the next one.                                      *)
(***************************************************************************)
EXTENDS CheckinSync, TLAPS

(* Request s has changed ticket t to CHECKED_IN and will log SUCCESS. *)
Owes(s, t) == /\ req[s] # Idle /\ req[s].at = "log" /\ req[s].status = "SUCCESS"
              /\ TicketIn(req[s].rec) = t

SuccessOf(t) == {row \in rows : row.status = "SUCCESS" /\ TicketIn(row.rec) = t}

(* Only the request that did the update owes a row, and it owes one. *)
OwedOnce ==
    \A s \in Slot, t \in Ticket : Owes(s, t) =>
        /\ t \in checkedIn
        /\ SuccessOf(t) = {}
        /\ \A x \in Slot : Owes(x, t) => x = s

(* A SUCCESS row belongs to a CHECKED_IN ticket. *)
RowsCheckedIn == \A t \in Ticket : SuccessOf(t) # {} => t \in checkedIn

UpdatedOnce == OwedOnce /\ RowsCheckedIn /\ OneSuccess

-----------------------------------------------------------------------------
(* Shapes of requests, scans and syncs *)

LEMMA RecordTicket ==
    ASSUME NEW r \in Record
    PROVE  TicketIn(r) \in Ticket
BY CheckinAssumption DEF CheckinAssumption, Record, TicketIn

LEMMA NextScanType ==
    ASSUME PageTypeOK, NEW d \in Device, NEW c \in Code
    PROVE  NextScan(d, c) \in Record
BY DEF PageTypeOK, NextScan, Record

(* A request in a slot has the fields of its place. *)
LEMMA BusyRequest ==
    ASSUME RequestTypeOK, NEW s \in Slot, req[s] # Idle
    PROVE  /\ req[s] \in Request
           /\ req[s].dev \in Device
           /\ req[s].todo \subseteq Record
           /\ req[s].good \subseteq Record
           /\ req[s].clash \subseteq Record
           /\ req[s].status \in CheckinStatus
           /\ req[s].at \in {"look", "check", "update", "log"}
           /\ req[s].at # "look" \/ req[s].op = "verify" => req[s].rec \in Record
<1>1. req[s] \in Request
  BY DEF RequestTypeOK
<1> QED
  BY <1>1 DEF Request, Call

LEMMA SetRequest ==
    ASSUME RequestTypeOK, NEW s \in Slot, NEW q \in Request \cup {Idle},
           req' = [req EXCEPT ![s] = q]
    PROVE  RequestTypeOK'
BY DEF RequestTypeOK

(* A scan in progress carries its record. *)
LEMMA BusyScan ==
    ASSUME PageTypeOK, NEW d \in Device,
           scan[d].at \in {"verify", "guard", "save", "mark"}
    PROVE  scan[d] \in Scan /\ scan[d].rec \in Record
<1>1. scan[d] # Idle
  BY DEF Idle
<1>2. scan[d] \in Scan
  BY <1>1 DEF PageTypeOK
<1> QED
  BY <1>2 DEF Scan

LEMMA SetScan ==
    ASSUME PageTypeOK, NEW d \in Device, NEW v \in Scan \cup {Idle},
           scan' = [scan EXCEPT ![d] = v], UNCHANGED <<sync, scans>>
    PROVE  PageTypeOK'
BY DEF PageTypeOK

LEMMA BusySync ==
    ASSUME PageTypeOK, NEW d \in Device,
           sync[d].at \in {"wait", "mark", "clear"}
    PROVE  /\ sync[d] \in Sync
           /\ sync[d].good \subseteq Record /\ sync[d].clash \subseteq Record
<1>1. sync[d] # Idle
  BY DEF Idle
<1>2. sync[d] \in Sync
  BY <1>1 DEF PageTypeOK
<1> QED
  BY <1>2 DEF Sync

LEMMA SetSync ==
    ASSUME PageTypeOK, NEW d \in Device, NEW v \in Sync \cup {Idle},
           sync' = [sync EXCEPT ![d] = v], UNCHANGED <<scan, scans>>
    PROVE  PageTypeOK'
BY DEF PageTypeOK

(* What a device does when its call fails or breaks off. *)
LEMMA FailType ==
    ASSUME RequestTypeOK, PageTypeOK, NEW s \in Slot, req[s] # Idle,
           Fail(s), UNCHANGED scans
    PROVE  RequestTypeOK' /\ PageTypeOK'
<1>1. req[s].dev \in Device
  BY BusyRequest
<1>2. RequestTypeOK'
  BY SetRequest DEF Fail
<1>3. PageTypeOK'
  BY <1>1 DEF Fail, PageTypeOK
<1> QED
  BY <1>2, <1>3

LEMMA HangUpType ==
    ASSUME PageTypeOK, RequestTypeOK, NEW s \in Slot, req[s] # Idle,
           HangUp(s), UNCHANGED scans
    PROVE  PageTypeOK'
<1>1. req[s].dev \in Device
  BY BusyRequest
<1>2. req[s].op = "verify" => [at |-> "guard", rec |-> req[s].rec] \in Scan
  BY BusyRequest DEF Scan
<1> QED
  BY <1>1, <1>2 DEF HangUp, PageTypeOK

-----------------------------------------------------------------------------
(* Type correctness, one lemma per part of the system *)

LEMMA ScanType ==
    ASSUME TypeOK, NEW d \in Device, ScanStep(d)
    PROVE  TypeOK'
<1> USE DEF TypeOK, dbVars, deviceVars
<1>1. CASE CheckGuard(d)
  <2>1. scan[d] \in Scan
    BY <1>1, BusyScan DEF CheckGuard
  <2>2. [scan[d] EXCEPT !.at = "save"] \in Scan
    BY <2>1 DEF Scan
  <2>3. PageTypeOK'
    BY <1>1, <2>2, SetScan DEF CheckGuard
  <2> QED
    BY <1>1, <2>3 DEF CheckGuard, DbTypeOK, DeviceTypeOK, RequestTypeOK
<1>2. CASE SaveCheckinLog(d)
  <2>1. scan[d] \in Scan /\ scan[d].rec \in Record
    BY <1>2, BusyScan DEF SaveCheckinLog
  <2>2. [scan[d] EXCEPT !.at = "mark"] \in Scan
    BY <2>1 DEF Scan
  <2>3. PageTypeOK'
    BY <1>2, <2>2, SetScan DEF SaveCheckinLog
  <2> QED
    BY <1>2, <2>1, <2>3 DEF SaveCheckinLog, DbTypeOK, DeviceTypeOK, RequestTypeOK
<1>3. CASE MarkTicketScanned(d)
  <2>1. scan[d].rec \in Record /\ TicketIn(scan[d].rec) \in Ticket
    BY <1>3, BusyScan, RecordTicket DEF MarkTicketScanned
  <2>2. PageTypeOK'
    BY <1>3, SetScan DEF MarkTicketScanned
  <2> QED
    BY <1>3, <2>1, <2>2 DEF MarkTicketScanned, DbTypeOK, DeviceTypeOK, RequestTypeOK
<1> QED
  BY <1>1, <1>2, <1>3 DEF ScanStep

LEMMA SyncType ==
    ASSUME TypeOK, NEW d \in Device, SyncStep(d)
    PROVE  TypeOK'
<1> USE DEF TypeOK, dbVars, deviceVars
<1>1. CASE MarkSynced(d)
  <2>1. sync[d] \in Sync /\ sync[d].good \subseteq Record
    BY <1>1, BusySync DEF MarkSynced
  <2>2. [sync[d] EXCEPT !.at = "clear"] \in Sync
    BY <2>1 DEF Sync
  <2>3. PageTypeOK'
    BY <1>1, <2>2, SetSync DEF MarkSynced
  <2> QED
    BY <1>1, <2>1, <2>3 DEF MarkSynced, DbTypeOK, DeviceTypeOK, RequestTypeOK
<1>2. CASE ClearScannedTicket(d)
  <2>1. sync[d] \in Sync
    BY <1>2, BusySync DEF ClearScannedTicket
  <2>2. \A r : [sync[d] EXCEPT !.clash = @ \ {r}] \in Sync
    BY <2>1 DEF Sync
  <2>3. PageTypeOK'
    BY <1>2, <2>2, SetSync DEF ClearScannedTicket
  <2> QED
    BY <1>2, <2>3 DEF ClearScannedTicket, DbTypeOK, DeviceTypeOK, RequestTypeOK
<1> QED
  BY <1>1, <1>2 DEF SyncStep

(* New scans and new batches. *)
LEMMA BeginType ==
    ASSUME TypeOK, NEW d \in Device
    PROVE  /\ \A c \in Code : ScanOffline(d, c) => TypeOK'
           /\ \A c \in Code, s \in Slot : ScanOnline(d, c, s) => TypeOK'
           /\ \A s \in Slot : StartSync(d, s) => TypeOK'
<1> USE DEF TypeOK, dbVars, deviceVars
<1>1. ASSUME NEW c \in Code, NEW at \in {"verify", "guard"},
             BeginScan(d, c, at), UNCHANGED sync
      PROVE  PageTypeOK'
  <2>1. [at |-> at, rec |-> NextScan(d, c)] \in Scan
    BY NextScanType DEF Scan
  <2> QED
    BY <1>1, <2>1 DEF BeginScan, PageTypeOK
<1>2. ASSUME NEW c \in Code, ScanOffline(d, c) PROVE TypeOK'
  BY <1>1, <1>2 DEF ScanOffline, DbTypeOK, DeviceTypeOK, RequestTypeOK
<1>3. ASSUME NEW c \in Code, NEW s \in Slot, ScanOnline(d, c, s) PROVE TypeOK'
  <2>1. [op |-> "verify", dev |-> d, heard |-> TRUE, at |-> "check",
         rec |-> NextScan(d, c), status |-> "SUCCESS",
         todo |-> {}, good |-> {}, clash |-> {}] \in Request
    BY NextScanType DEF Request, Call, CheckinStatus
  <2>2. RequestTypeOK'
    BY <1>3, <2>1, SetRequest DEF ScanOnline
  <2> QED
    BY <1>1, <1>3, <2>2 DEF ScanOnline, DbTypeOK, DeviceTypeOK
<1>4. ASSUME NEW s \in Slot, StartSync(d, s) PROVE TypeOK'
  <2>1. [op |-> "sync", dev |-> d, heard |-> TRUE, at |-> "look",
         rec |-> Idle, status |-> "SUCCESS",
         todo |-> Unsynced(d), good |-> {}, clash |-> {}] \in Request
    BY DEF Request, Call, CheckinStatus, Unsynced, DeviceTypeOK
  <2>2. [at |-> "wait", good |-> {}, clash |-> {}] \in Sync
    BY DEF Sync
  <2>3. RequestTypeOK' /\ PageTypeOK'
    BY <1>4, <2>1, <2>2, SetRequest, SetSync DEF StartSync
  <2> QED
    BY <1>4, <2>3 DEF StartSync, DbTypeOK, DeviceTypeOK
<1> QED
  BY <1>2, <1>3, <1>4

(* The server's steps. *)
LEMMA ServeType ==
    ASSUME TypeOK, NEW s \in Slot, Serve(s)
    PROVE  TypeOK'
<1> USE DEF TypeOK, dbVars, deviceVars
<1> DEFINE q == req[s]
<1>1. q # Idle /\ q \in Request
  BY BusyRequest DEF Serve, LookUp, CheckTicket, CheckIn, LogVerify, LogRecord,
                     AnswerSync, Running
<1>2. CASE LookUp(s)
  <2>1. PICK r \in q.todo :
          \/ req' = [req EXCEPT ![s].todo = @ \ {r}, ![s].good = @ \cup {r}]
          \/ req' = [req EXCEPT ![s].rec = r, ![s].at = "check"]
    BY <1>2 DEF LookUp
  <2>2. r \in Record /\ q.at = "look"
    BY <1>1, <1>2, BusyRequest DEF LookUp, Running
  <2>3. [q EXCEPT !.todo = @ \ {r}, !.good = @ \cup {r}] \in Request
    BY <1>1, <2>2 DEF Request, Call
  <2>4. [q EXCEPT !.rec = r, !.at = "check"] \in Request
    BY <1>1, <2>2 DEF Request, Call
  <2>5. RequestTypeOK'
    BY <2>1, <2>3, <2>4 DEF RequestTypeOK
  <2> QED
    BY <1>2, <2>5 DEF LookUp, DbTypeOK, DeviceTypeOK, PageTypeOK
<1>3. CASE CheckTicket(s)
  <2>1. q.at = "check"
    BY <1>3 DEF CheckTicket, Running
  <2>2. [q EXCEPT !.at = "update"] \in Request
    BY <1>1, <2>1 DEF Request, Call
  <2>3. Verdict(q.rec) \notin {"OK", "NOT_FOUND"} => Verdict(q.rec) \in CheckinStatus
    BY DEF Verdict, CheckinStatus
  <2>4. ASSUME NEW v \in CheckinStatus
        PROVE  [q EXCEPT !.at = "log", !.status = v] \in Request
    BY <1>1, <2>1 DEF Request, Call
  <2>5. CASE Verdict(q.rec) = "NOT_FOUND"
    <3>1. RequestTypeOK' /\ PageTypeOK'
      BY <1>1, <1>3, <2>5, FailType DEF CheckTicket
    <3> QED
      BY <1>3, <2>5, <3>1 DEF CheckTicket, Fail, DbTypeOK, DeviceTypeOK
  <2>6. CASE Verdict(q.rec) # "NOT_FOUND"
    <3>1. RequestTypeOK'
      BY <1>3, <2>2, <2>3, <2>4, <2>6, SetRequest DEF CheckTicket
    <3> QED
      BY <1>3, <2>6, <3>1 DEF CheckTicket, DbTypeOK, DeviceTypeOK, PageTypeOK
  <2> QED
    BY <2>5, <2>6
<1>4. CASE CheckIn(s)
  <2>1. q.at = "update" /\ q.rec \in Record /\ TicketIn(q.rec) \in Ticket
    BY <1>1, <1>4, BusyRequest, RecordTicket DEF CheckIn, Running
  <2>2. ASSUME NEW v \in CheckinStatus
        PROVE  [q EXCEPT !.at = "log", !.status = v] \in Request
    BY <1>1, <2>1 DEF Request, Call
  <2>3. PICK v \in CheckinStatus :
          req' = [req EXCEPT ![s] = [q EXCEPT !.at = "log", !.status = v]]
    BY <1>1, <1>4 DEF CheckIn, CheckinStatus, RequestTypeOK
  <2>4. RequestTypeOK'
    BY <2>2, <2>3, SetRequest
  <2> QED
    BY <1>4, <2>1, <2>4 DEF CheckIn, DbTypeOK, DeviceTypeOK, PageTypeOK
<1>5. CASE LogVerify(s)
  <2>1. q.rec \in Record /\ q.status \in CheckinStatus /\ q.dev \in Device
    BY <1>1, <1>5, BusyRequest DEF LogVerify, Running
  <2>2. RequestTypeOK' /\ PageTypeOK'
    BY <1>5, <2>1, SetRequest DEF LogVerify, PageTypeOK
  <2>3. rows' \subseteq Row
    <3>1. [rec |-> q.rec, online |-> TRUE, status |-> q.status] \in Row
      BY <2>1 DEF Row
    <3>2. rows' = rows \cup {[rec |-> q.rec, online |-> TRUE, status |-> q.status]}
      BY <1>5 DEF LogVerify
    <3> QED
      BY <3>1, <3>2 DEF DbTypeOK
  <2>4. shown' \subseteq Record
    BY <1>5, <2>1 DEF LogVerify, DeviceTypeOK
  <2> QED
    BY <1>5, <2>2, <2>3, <2>4 DEF LogVerify, DbTypeOK, DeviceTypeOK
<1>6. CASE LogRecord(s)
  <2>1. /\ q.rec \in Record /\ q.status \in CheckinStatus
        /\ q.op = "sync" /\ q.at = "log"
    BY <1>1, <1>6, BusyRequest DEF LogRecord, Running
  <2>2. CASE RowsOf(q.rec) # {}
    <3>1. RequestTypeOK' /\ PageTypeOK'
      BY <1>1, <1>6, <2>2, FailType DEF LogRecord
    <3> QED
      BY <1>6, <2>2, <3>1 DEF LogRecord, Fail, DbTypeOK, DeviceTypeOK
  <2>3. CASE RowsOf(q.rec) = {}
    <3>1. ASSUME NEW g \in SUBSET Record, NEW c \in SUBSET Record
          PROVE  [q EXCEPT !.at = "look", !.rec = Idle, !.status = "SUCCESS",
                           !.todo = @ \ {q.rec}, !.good = g, !.clash = c] \in Request
      BY <1>1, <2>1 DEF Request, Call, CheckinStatus
    <3> DEFINE g == IF q.status = "SUCCESS" THEN q.good \cup {q.rec} ELSE q.good
               c == IF q.status = "REJECTED_CONFLICT"
                    THEN q.clash \cup {q.rec} ELSE q.clash
    <3>2. g \in SUBSET Record /\ c \in SUBSET Record
      BY <1>1, <2>1, BusyRequest
    <3>3. req' = [req EXCEPT ![s] =
                    [q EXCEPT !.at = "look", !.rec = Idle, !.status = "SUCCESS",
                              !.todo = @ \ {q.rec}, !.good = g, !.clash = c]]
      BY <1>6, <2>3 DEF LogRecord
    <3> HIDE DEF g, c
    <3>4. RequestTypeOK'
      BY <3>1, <3>2, <3>3, SetRequest
    <3>5. rows' \subseteq Row
      <4>1. [rec |-> q.rec, online |-> FALSE, status |-> q.status] \in Row
        BY <2>1 DEF Row
      <4>2. rows' = rows \cup {[rec |-> q.rec, online |-> FALSE, status |-> q.status]}
        BY <1>6, <2>3 DEF LogRecord
      <4> QED
        BY <4>1, <4>2 DEF DbTypeOK
    <3> QED
      BY <1>6, <2>3, <3>4, <3>5 DEF LogRecord, DbTypeOK, DeviceTypeOK, PageTypeOK
  <2> QED
    BY <2>2, <2>3
<1>7. CASE AnswerSync(s)
  <2>1. q.dev \in Device /\ [at |-> "mark", good |-> q.good, clash |-> q.clash] \in Sync
    BY <1>1, BusyRequest DEF Sync
  <2>2. RequestTypeOK' /\ PageTypeOK'
    BY <1>7, <2>1, SetRequest DEF AnswerSync, PageTypeOK
  <2> QED
    BY <1>7, <2>2 DEF AnswerSync, DbTypeOK, DeviceTypeOK
<1> QED
  BY <1>2, <1>3, <1>4, <1>5, <1>6, <1>7 DEF Serve

(* Lost calls, crashes, reloads and failing stores. *)
LEMMA FailureType ==
    ASSUME TypeOK
    PROVE  /\ \A s \in Slot : Disconnect(s) => TypeOK'
           /\ \A s \in Slot : ServerCrash(s) => TypeOK'
           /\ \A s \in Slot : DatabaseFails(s) => TypeOK'
           /\ \A d \in Device : Reload(d) => TypeOK'
           /\ \A d \in Device : StorageFails(d) => TypeOK'
<1> USE DEF TypeOK, dbVars, deviceVars
<1>1. ASSUME NEW s \in Slot, Disconnect(s) PROVE TypeOK'
  <2>1. req[s] \in Request
    BY <1>1, BusyRequest DEF Disconnect
  <2>2. [req[s] EXCEPT !.heard = FALSE] \in Request
    BY <2>1 DEF Request, Call
  <2>3. RequestTypeOK' /\ PageTypeOK'
    BY <1>1, <2>2, SetRequest, HangUpType DEF Disconnect
  <2> QED
    BY <1>1, <2>3 DEF Disconnect, DbTypeOK, DeviceTypeOK
<1>2. ASSUME NEW s \in Slot, ServerCrash(s) PROVE TypeOK'
  <2>1. RequestTypeOK'
    BY <1>2, SetRequest DEF ServerCrash
  <2>2. PageTypeOK'
    BY <1>2, HangUpType DEF ServerCrash, PageTypeOK
  <2> QED
    BY <1>2, <2>1, <2>2 DEF ServerCrash, DbTypeOK, DeviceTypeOK
<1>3. ASSUME NEW d \in Device, Reload(d) PROVE TypeOK'
  <2>1. ASSUME NEW s \in Slot, req[s] # Idle
        PROVE  [req[s] EXCEPT !.heard = FALSE] \in Request
    BY <2>1, BusyRequest, ZenonT(30) DEF Request, Call
  <2>2. RequestTypeOK' /\ PageTypeOK'
    BY <1>3, <2>1 DEF Reload, RequestTypeOK, PageTypeOK
  <2> QED
    BY <1>3, <2>2 DEF Reload, DbTypeOK, DeviceTypeOK
<1>4. ASSUME NEW s \in Slot, DatabaseFails(s) PROVE TypeOK'
  <2>1. RequestTypeOK' /\ PageTypeOK'
    BY <1>4, FailType DEF DatabaseFails
  <2> QED
    BY <1>4, <2>1 DEF DatabaseFails, Fail, DbTypeOK, DeviceTypeOK
<1>5. ASSUME NEW d \in Device, StorageFails(d) PROVE TypeOK'
  <2>1. CASE scan[d].at \in {"guard", "save", "mark"} /\ UNCHANGED sync
    <3>1. scan[d] \in Scan /\ scan[d].rec \in Record
      BY <2>1, BusyScan
    <3>2. [scan[d] EXCEPT !.at = "save"] \in Scan
      BY <3>1 DEF Scan
    <3>3. PageTypeOK'
      <4>1. \/ scan' = scan
            \/ scan' = [scan EXCEPT ![d] = [scan[d] EXCEPT !.at = "save"]]
            \/ scan' = [scan EXCEPT ![d] = Idle]
        BY <1>5 DEF StorageFails, PageTypeOK
      <4> QED
        BY <1>5, <2>1, <3>2, <4>1 DEF StorageFails, PageTypeOK
    <3>4. shown' \subseteq Record /\ failed' \subseteq Record
      BY <1>5, <3>1 DEF StorageFails, DeviceTypeOK
    <3> QED
      BY <1>5, <3>3, <3>4 DEF StorageFails, DbTypeOK, DeviceTypeOK, RequestTypeOK
  <2>2. CASE /\ sync[d].at \in {"mark", "clear"}
             /\ sync[d].at = "mark" => sync' = [sync EXCEPT ![d] = Idle]
             /\ sync[d].at = "clear" =>
                  \E r : sync' = [sync EXCEPT ![d].clash = @ \ {r}]
             /\ UNCHANGED <<scan, shown, failed>>
    <3>1. sync[d] \in Sync
      BY <2>2, BusySync
    <3>2. \A r : [sync[d] EXCEPT !.clash = @ \ {r}] \in Sync
      BY <3>1 DEF Sync
    <3>3. PageTypeOK'
      <4>1. CASE sync[d].at = "mark"
        BY <1>5, <2>2, <4>1, SetSync DEF StorageFails
      <4>2. CASE sync[d].at = "clear"
        <5>1. PICK r : sync' = [sync EXCEPT ![d] = [sync[d] EXCEPT !.clash = @ \ {r}]]
          BY <1>5, <2>2, <4>2 DEF StorageFails, PageTypeOK
        <5> QED
          BY <1>5, <2>2, <3>2, <5>1, SetSync DEF StorageFails
      <4> QED
        BY <2>2, <4>1, <4>2
    <3> QED
      BY <1>5, <2>2, <3>3 DEF StorageFails, DbTypeOK, DeviceTypeOK, RequestTypeOK
  <2> QED
    BY <1>5, <2>1, <2>2 DEF StorageFails
<1> QED
  BY <1>1, <1>2, <1>3, <1>4, <1>5

(* Every variable keeps its type. *)
THEOREM TypeCorrect == Spec => []TypeOK
<1>1. Init => TypeOK
  BY DEF Init, TypeOK, DbTypeOK, DeviceTypeOK, PageTypeOK, RequestTypeOK
<1>2. TypeOK /\ [Next]_vars => TypeOK'
  <2> SUFFICES ASSUME TypeOK, [Next]_vars PROVE TypeOK'
    OBVIOUS
  <2>1. CASE UNCHANGED vars
    BY <2>1 DEF vars, dbVars, deviceVars, TypeOK, DbTypeOK, DeviceTypeOK,
                PageTypeOK, RequestTypeOK
  <2>2. CASE Next
    BY <2>2, ScanType, SyncType, BeginType, ServeType, FailureType DEF Next
  <2> QED
    BY <2>1, <2>2
<1> QED
  BY <1>1, <1>2, PTL DEF Spec

-----------------------------------------------------------------------------
(* UpdatedOnce is inductive *)

(* No step but the ticket's update creates a debt. *)
FewerOwe == \A x \in Slot, t \in Ticket : Owes(x, t)' => Owes(x, t)

LEMMA QuietStep ==
    ASSUME UpdatedOnce, FewerOwe, UNCHANGED dbVars
    PROVE  UpdatedOnce'
<1>1. UNCHANGED <<rows, checkedIn>>
  BY DEF dbVars
<1>2. \A t \in Ticket : SuccessOf(t)' = SuccessOf(t)
  BY <1>1 DEF SuccessOf
<1>3. RowsCheckedIn' /\ OneSuccess'
  BY <1>1, <1>2 DEF UpdatedOnce, RowsCheckedIn, OneSuccess
<1>4. OwedOnce'
  BY <1>1, <1>2 DEF UpdatedOnce, OwedOnce, FewerOwe
<1> QED
  BY <1>3, <1>4 DEF UpdatedOnce

(* A slot whose request is not about to log SUCCESS owes nothing. *)
LEMMA NoDebt ==
    ASSUME RequestTypeOK, NEW s \in Slot, NEW q, req' = [req EXCEPT ![s] = q],
           q = Idle \/ q.at # "log" \/ q.status # "SUCCESS"
    PROVE  FewerOwe /\ \A t \in Ticket : ~ Owes(s, t)'
<1>1. req'[s] = q /\ \A x \in Slot \ {s} : req'[x] = req[x]
  BY DEF RequestTypeOK
<1> QED
  BY <1>1 DEF FewerOwe, Owes

LEMMA DeviceQuiet ==
    ASSUME NEW d \in Device, ScanStep(d) \/ SyncStep(d)
    PROVE  FewerOwe /\ UNCHANGED dbVars
BY DEF ScanStep, SyncStep, CheckGuard, SaveCheckinLog, MarkTicketScanned,
       MarkSynced, ClearScannedTicket, FewerOwe, Owes, dbVars

LEMMA BeginQuiet ==
    ASSUME TypeOK, NEW d \in Device
    PROVE  /\ \A c \in Code : ScanOffline(d, c) => FewerOwe /\ UNCHANGED dbVars
           /\ \A c \in Code, s \in Slot :
                ScanOnline(d, c, s) => FewerOwe /\ UNCHANGED dbVars
           /\ \A s \in Slot : StartSync(d, s) => FewerOwe /\ UNCHANGED dbVars
<1>1. ASSUME NEW c \in Code, ScanOffline(d, c) PROVE FewerOwe /\ UNCHANGED dbVars
  BY <1>1 DEF ScanOffline, FewerOwe, Owes
<1>2. ASSUME NEW c \in Code, NEW s \in Slot, ScanOnline(d, c, s)
      PROVE  FewerOwe /\ UNCHANGED dbVars
  BY <1>2, NoDebt DEF ScanOnline, TypeOK
<1>3. ASSUME NEW s \in Slot, StartSync(d, s) PROVE FewerOwe /\ UNCHANGED dbVars
  BY <1>3, NoDebt DEF StartSync, TypeOK
<1> QED
  BY <1>1, <1>2, <1>3

LEMMA FailureQuiet ==
    ASSUME TypeOK
    PROVE  /\ \A s \in Slot : Disconnect(s) => FewerOwe /\ UNCHANGED dbVars
           /\ \A s \in Slot : ServerCrash(s) => FewerOwe /\ UNCHANGED dbVars
           /\ \A s \in Slot : DatabaseFails(s) => FewerOwe /\ UNCHANGED dbVars
           /\ \A d \in Device : Reload(d) => FewerOwe /\ UNCHANGED dbVars
           /\ \A d \in Device : StorageFails(d) => FewerOwe /\ UNCHANGED dbVars
<1>1. ASSUME NEW s \in Slot, Disconnect(s) PROVE FewerOwe /\ UNCHANGED dbVars
  <2>1. req[s] \in Request
    BY <1>1, BusyRequest DEF Disconnect, TypeOK
  <2>2. /\ req'[s] = [req[s] EXCEPT !.heard = FALSE]
        /\ \A x \in Slot \ {s} : req'[x] = req[x]
    BY <1>1 DEF Disconnect, TypeOK, RequestTypeOK
  <2>3. /\ req'[s].at = req[s].at /\ req'[s].status = req[s].status
        /\ req'[s].rec = req[s].rec
    BY <2>1, <2>2 DEF Request, Call
  <2> QED
    BY <1>1, <2>2, <2>3 DEF Disconnect, FewerOwe, Owes
<1>2. ASSUME NEW s \in Slot, ServerCrash(s) PROVE FewerOwe /\ UNCHANGED dbVars
  BY <1>2, NoDebt DEF ServerCrash, TypeOK
<1>3. ASSUME NEW d \in Device, Reload(d) PROVE FewerOwe /\ UNCHANGED dbVars
  <2>1. ASSUME NEW s \in Slot, req'[s] # Idle
        PROVE  /\ req[s] # Idle /\ req'[s].at = req[s].at
               /\ req'[s].status = req[s].status /\ req'[s].rec = req[s].rec
    <3>1. CASE req[s] = Idle
      BY <1>3, <2>1, <3>1 DEF Reload
    <3>2. CASE req[s] # Idle
      <4>1. req[s] \in Request
        BY <3>2, BusyRequest DEF TypeOK
      <4>2. req'[s] = req[s] \/ req'[s] = [req[s] EXCEPT !.heard = FALSE]
        BY <1>3 DEF Reload
      <4> QED
        BY <3>2, <4>1, <4>2 DEF Request, Call
    <3> QED
      BY <3>1, <3>2
  <2> QED
    BY <1>3, <2>1 DEF Reload, FewerOwe, Owes
<1>4. ASSUME NEW s \in Slot, DatabaseFails(s) PROVE FewerOwe /\ UNCHANGED dbVars
  BY <1>4, NoDebt DEF DatabaseFails, Fail, TypeOK, dbVars
<1>5. ASSUME NEW d \in Device, StorageFails(d) PROVE FewerOwe /\ UNCHANGED dbVars
  BY <1>5 DEF StorageFails, FewerOwe, Owes
<1> QED
  BY <1>1, <1>2, <1>3, <1>4, <1>5

(* The row of a request is written: its debt, if it has one, is paid. *)
LEMMA RowWritten ==
    ASSUME TypeOK, UpdatedOnce, NEW s \in Slot, Running(s, "log"),
           NEW row, row.rec = req[s].rec, row.status = req[s].status,
           rows' = rows \cup {row}, UNCHANGED checkedIn,
           NEW q, q = Idle \/ q.at # "log", req' = [req EXCEPT ![s] = q]
    PROVE  UpdatedOnce'
<1> DEFINE t == TicketIn(row.rec)
<1>1. FewerOwe /\ \A u \in Ticket : ~ Owes(s, u)'
  BY NoDebt DEF TypeOK
<1>2. req[s].rec \in Record /\ t \in Ticket
  BY BusyRequest, RecordTicket DEF Running, TypeOK
<1>3. CASE row.status # "SUCCESS"
  <2>1. \A u \in Ticket : SuccessOf(u)' = SuccessOf(u)
    BY <1>3 DEF SuccessOf, TicketIn
  <2>2. OwedOnce' /\ RowsCheckedIn'
    BY <1>1, <2>1 DEF UpdatedOnce, OwedOnce, RowsCheckedIn, FewerOwe
  <2>3. OneSuccess'
    BY <1>3 DEF UpdatedOnce, OneSuccess, TicketIn
  <2> QED
    BY <2>2, <2>3 DEF UpdatedOnce
<1>4. CASE row.status = "SUCCESS"
  <2>1. Owes(s, t)
    BY <1>4 DEF Running, Owes
  <2>2. t \in checkedIn /\ SuccessOf(t) = {} /\ \A x \in Slot : Owes(x, t) => x = s
    BY <1>2, <2>1 DEF UpdatedOnce, OwedOnce
  <2>3. \A u \in Ticket \ {t} : SuccessOf(u)' = SuccessOf(u)
    BY DEF SuccessOf, TicketIn
  <2>4. RowsCheckedIn'
    BY <2>2, <2>3 DEF UpdatedOnce, RowsCheckedIn
  <2>5. ASSUME NEW x \in Slot, NEW u \in Ticket, Owes(x, u)'
        PROVE  /\ u \in checkedIn' /\ SuccessOf(u)' = {}
               /\ \A y \in Slot : Owes(y, u)' => y = x
    <3>1. Owes(x, u) /\ x # s
      BY <1>1, <2>5 DEF FewerOwe
    <3>2. u # t
      BY <2>2, <3>1
    <3> QED
      BY <1>1, <2>3, <3>1, <3>2 DEF UpdatedOnce, OwedOnce, FewerOwe
  <2>6. OneSuccess'
    <3>1. \A a \in rows : a.status = "SUCCESS" => TicketIn(a.rec) # t
      BY <2>2 DEF SuccessOf
    <3> QED
      BY <3>1 DEF UpdatedOnce, OneSuccess, TicketIn
  <2> QED
    BY <2>4, <2>5, <2>6 DEF UpdatedOnce, OwedOnce
<1> QED
  BY <1>3, <1>4

(* The update of a ticket that is still ISSUED: the request owes its row. *)
LEMMA TicketUpdated ==
    ASSUME TypeOK, UpdatedOnce, NEW s \in Slot, CheckIn(s),
           TicketIn(req[s].rec) \notin checkedIn
    PROVE  UpdatedOnce'
<1> DEFINE t == TicketIn(req[s].rec)
<1>1. req[s] \in Request /\ req[s].rec \in Record /\ t \in Ticket
  BY BusyRequest, RecordTicket DEF CheckIn, Running, TypeOK
<1>2. /\ req'[s] = [req[s] EXCEPT !.at = "log", !.status = "SUCCESS"]
      /\ \A x \in Slot \ {s} : req'[x] = req[x]
  BY <1>1 DEF CheckIn, TypeOK, RequestTypeOK
<1>3. req'[s].rec = req[s].rec
  BY <1>1, <1>2 DEF Request, Call
<1>4. /\ \A x \in Slot \ {s}, u \in Ticket : Owes(x, u)' => Owes(x, u)
      /\ \A u \in Ticket : Owes(s, u)' => u = t
  BY <1>2, <1>3 DEF Owes, TicketIn
<1>5. SuccessOf(t) = {} /\ \A x \in Slot : ~ Owes(x, t)
  BY <1>1 DEF UpdatedOnce, OwedOnce, RowsCheckedIn
<1>6. checkedIn' = checkedIn \cup {t} /\ rows' = rows
  BY DEF CheckIn
<1>7. \A u \in Ticket : SuccessOf(u)' = SuccessOf(u)
  BY <1>6 DEF SuccessOf
<1>8. OwedOnce'
  <2> SUFFICES ASSUME NEW x \in Slot, NEW u \in Ticket, Owes(x, u)'
               PROVE  /\ u \in checkedIn' /\ SuccessOf(u)' = {}
                      /\ \A y \in Slot : Owes(y, u)' => y = x
    BY DEF OwedOnce
  <2>1. CASE x = s
    BY <1>4, <1>5, <1>6, <1>7, <2>1
  <2>2. CASE x # s
    <3>1. Owes(x, u) /\ u # t
      BY <1>4, <1>5, <2>2
    <3> QED
      BY <1>4, <1>6, <1>7, <3>1 DEF UpdatedOnce, OwedOnce
  <2> QED
    BY <2>1, <2>2
<1>9. RowsCheckedIn' /\ OneSuccess'
  BY <1>6, <1>7 DEF UpdatedOnce, RowsCheckedIn, OneSuccess
<1> QED
  BY <1>8, <1>9 DEF UpdatedOnce

LEMMA ServeUpdated ==
    ASSUME TypeOK, UpdatedOnce, NEW s \in Slot, Serve(s)
    PROVE  UpdatedOnce'
<1> DEFINE q == req[s]
<1>1. q # Idle /\ q \in Request
  BY BusyRequest DEF TypeOK, Serve, LookUp, CheckTicket, CheckIn, LogVerify,
                     LogRecord, AnswerSync, Running
<1>2. CASE LookUp(s)
  <2>1. PICK r \in q.todo :
          \/ req' = [req EXCEPT ![s].todo = @ \ {r}, ![s].good = @ \cup {r}]
          \/ req' = [req EXCEPT ![s].rec = r, ![s].at = "check"]
    BY <1>2 DEF LookUp
  <2>2. /\ [q EXCEPT !.todo = @ \ {r}, !.good = @ \cup {r}].at # "log"
        /\ [q EXCEPT !.rec = r, !.at = "check"].at # "log"
    BY <1>1, <1>2 DEF Request, Call, LookUp, Running
  <2>3. \/ req' = [req EXCEPT ![s] = [q EXCEPT !.todo = @ \ {r}, !.good = @ \cup {r}]]
        \/ req' = [req EXCEPT ![s] = [q EXCEPT !.rec = r, !.at = "check"]]
    BY <2>1 DEF TypeOK, RequestTypeOK
  <2>4. FewerOwe
    BY <2>2, <2>3, NoDebt DEF TypeOK
  <2> QED
    BY <1>2, <2>4, QuietStep DEF LookUp
<1>3. CASE CheckTicket(s)
  <2> DEFINE v == Verdict(q.rec)
             p == IF v = "OK" THEN [q EXCEPT !.at = "update"]
                  ELSE [q EXCEPT !.at = "log", !.status = v]
  <2>1. p.at # "log" \/ p.status # "SUCCESS"
    BY <1>1 DEF Verdict, Request, Call
  <2>2. req' = [req EXCEPT ![s] = Idle] \/ req' = [req EXCEPT ![s] = p]
    BY <1>3 DEF CheckTicket, Fail
  <2> HIDE DEF p
  <2>3. FewerOwe
    BY <2>1, <2>2, NoDebt DEF TypeOK
  <2>4. UNCHANGED dbVars
    BY <1>3 DEF CheckTicket, Fail, dbVars
  <2> QED
    BY <2>3, <2>4, QuietStep
<1>4. CASE CheckIn(s)
  <2>1. CASE TicketIn(q.rec) \in checkedIn
    <3>1. PICK v \in {"ALREADY_CHECKED_IN", "REJECTED_CONFLICT"} :
            req' = [req EXCEPT ![s] = [q EXCEPT !.at = "log", !.status = v]]
      BY <1>4, <2>1 DEF CheckIn, TypeOK, RequestTypeOK
    <3>2. [q EXCEPT !.at = "log", !.status = v].status # "SUCCESS"
      BY <1>1, <3>1 DEF Request, Call
    <3>3. FewerOwe
      BY <3>1, <3>2, NoDebt DEF TypeOK
    <3>4. UNCHANGED dbVars
      BY <1>4, <2>1 DEF CheckIn, dbVars
    <3> QED
      BY <3>3, <3>4, QuietStep
  <2> QED
    BY <1>4, <2>1, TicketUpdated
<1>5. CASE LogVerify(s)
  BY <1>5, RowWritten DEF LogVerify
<1>6. CASE LogRecord(s)
  <2>1. CASE RowsOf(q.rec) # {}
    <3>1. FewerOwe /\ UNCHANGED dbVars
      BY <1>6, <2>1, NoDebt DEF LogRecord, Fail, TypeOK, dbVars
    <3> QED
      BY <3>1, QuietStep
  <2>2. CASE RowsOf(q.rec) = {}
    <3>1. PICK g, c :
            req' = [req EXCEPT ![s] =
                      [q EXCEPT !.at = "look", !.rec = Idle, !.status = "SUCCESS",
                                !.todo = @ \ {q.rec}, !.good = g, !.clash = c]]
      BY <1>6, <2>2 DEF LogRecord
    <3> DEFINE p == [q EXCEPT !.at = "look", !.rec = Idle, !.status = "SUCCESS",
                              !.todo = @ \ {q.rec}, !.good = g, !.clash = c]
    <3>2. p.at # "log"
      BY <1>1 DEF Request, Call
    <3>3. rows' = rows \cup {[rec |-> q.rec, online |-> FALSE, status |-> q.status]}
      BY <1>6, <2>2 DEF LogRecord
    <3> QED
      <4> HIDE DEF p
      <4>1. req' = [req EXCEPT ![s] = p]
        BY <3>1 DEF p
      <4> QED
        BY <1>6, <3>2, <3>3, <4>1, RowWritten DEF LogRecord
  <2> QED
    BY <2>1, <2>2
<1>7. CASE AnswerSync(s)
  BY <1>7, NoDebt, QuietStep DEF AnswerSync, TypeOK
<1> QED
  BY <1>2, <1>3, <1>4, <1>5, <1>6, <1>7 DEF Serve

(***************************************************************************)
(* verifyAndCheckin, processSyncRecord: whatever is scanned, sent twice or *)
(* cut short, a ticket has at most one SUCCESS row in CheckinLog.          *)
(***************************************************************************)
THEOREM SuccessOnce == Spec => []OneSuccess
<1>1. Init => UpdatedOnce
  BY DEF Init, UpdatedOnce, OwedOnce, RowsCheckedIn, OneSuccess, Owes, SuccessOf
<1>2. TypeOK /\ UpdatedOnce /\ [Next]_vars => UpdatedOnce'
  <2> SUFFICES ASSUME TypeOK, UpdatedOnce, [Next]_vars PROVE UpdatedOnce'
    OBVIOUS
  <2>1. CASE UNCHANGED vars
    BY <2>1, QuietStep DEF vars, FewerOwe, Owes
  <2>2. CASE Next
    BY <2>2, DeviceQuiet, BeginQuiet, FailureQuiet, ServeUpdated, QuietStep DEF Next
  <2> QED
    BY <2>1, <2>2
<1>3. UpdatedOnce => OneSuccess
  BY DEF UpdatedOnce
<1> QED
  BY <1>1, <1>2, <1>3, TypeCorrect, PTL DEF Spec

-----------------------------------------------------------------------------
(***************************************************************************)
(* SyncedIsLogged is not inductive either: what the device is about to     *)
(* mark, and what a running batch is about to answer, is already logged.   *)
(***************************************************************************)
GoodLogged ==
    /\ SyncedIsLogged
    /\ \A d \in Device : sync[d].at = "mark" =>
         \A r \in sync[d].good : RowsOf(r) # {}
    /\ \A s \in Slot : req[s] # Idle => \A r \in req[s].good : RowsOf(r) # {}

(* No row is ever removed from CheckinLog. *)
LEMMA RowsStay ==
    ASSUME rows \subseteq rows', NEW r, RowsOf(r) # {}
    PROVE  RowsOf(r)' # {}
BY DEF RowsOf

(* Nothing is answered or marked that was not answered before. *)
NothingNew ==
    /\ \A d \in Device : sync'[d].at = "mark" => sync'[d] = sync[d]
    /\ \A s \in Slot : req'[s] # Idle =>
         req'[s].good = {} \/ (req[s] # Idle /\ req'[s].good = req[s].good)

LEMMA NothingNewLogged ==
    ASSUME GoodLogged, NothingNew, rows \subseteq rows', synced' = synced
    PROVE  GoodLogged'
<1>1. SyncedIsLogged'
  BY RowsStay DEF GoodLogged, SyncedIsLogged
<1>2. ASSUME NEW d \in Device, sync'[d].at = "mark", NEW r \in sync'[d].good
      PROVE  RowsOf(r)' # {}
  BY <1>2, RowsStay DEF GoodLogged, NothingNew
<1>3. ASSUME NEW s \in Slot, req'[s] # Idle, NEW r \in req'[s].good
      PROVE  RowsOf(r)' # {}
  BY <1>3, RowsStay DEF GoodLogged, NothingNew
<1> QED
  BY <1>1, <1>2, <1>3 DEF GoodLogged

(* A slot that ends its request, or goes on with the same answers. *)
LEMMA SameAnswers ==
    ASSUME RequestTypeOK, NEW s \in Slot, NEW q, req' = [req EXCEPT ![s] = q],
           q = Idle \/ q.good = {} \/ (req[s] # Idle /\ q.good = req[s].good)
    PROVE  \A x \in Slot : req'[x] # Idle =>
             req'[x].good = {} \/ (req[x] # Idle /\ req'[x].good = req[x].good)
BY DEF RequestTypeOK

(* A device that does not start to mark anything. *)
LEMMA NoMark ==
    ASSUME PageTypeOK, NEW d \in Device, NEW v, v.at # "mark",
           sync' = sync \/ sync' = [sync EXCEPT ![d] = v]
    PROVE  \A x \in Device : sync'[x].at = "mark" => sync'[x] = sync[x]
BY DEF PageTypeOK

LEMMA DeviceLogged ==
    ASSUME TypeOK, GoodLogged, NEW d \in Device, ScanStep(d) \/ SyncStep(d)
    PROVE  GoodLogged'
<1>1. CASE ScanStep(d)
  <2>1. UNCHANGED <<rows, synced, sync, req>>
    BY <1>1 DEF ScanStep, CheckGuard, SaveCheckinLog, MarkTicketScanned,
                dbVars, deviceVars
  <2> QED
    BY <2>1, NothingNewLogged DEF NothingNew
<1>2. CASE MarkSynced(d)
  <2>1. synced' = synced \cup sync[d].good /\ UNCHANGED <<rows, req>>
    BY <1>2 DEF MarkSynced, dbVars
  <2>2. \A r : RowsOf(r)' = RowsOf(r)
    BY <2>1 DEF RowsOf
  <2>3. SyncedIsLogged'
    BY <1>2, <2>1, <2>2 DEF MarkSynced, GoodLogged, SyncedIsLogged
  <2>4. \A x \in Device : sync'[x].at = "mark" => sync'[x] = sync[x]
    <3>1. sync[d] \in Sync
      BY <1>2, BusySync DEF MarkSynced, TypeOK
    <3>2. [sync[d] EXCEPT !.at = "clear"].at # "mark"
      BY <3>1 DEF Sync
    <3> QED
      BY <1>2, <3>2, NoMark DEF MarkSynced, TypeOK
  <2> QED
    BY <2>1, <2>2, <2>3, <2>4 DEF GoodLogged
<1>3. CASE ClearScannedTicket(d)
  <2>1. UNCHANGED <<rows, synced, req>>
    BY <1>3 DEF ClearScannedTicket, dbVars
  <2>2. \A x \in Device : sync'[x].at = "mark" => sync'[x] = sync[x]
    <3>1. sync[d] \in Sync /\ sync[d].at = "clear"
      BY <1>3, BusySync DEF ClearScannedTicket, TypeOK
    <3>2. \A r : [sync[d] EXCEPT !.clash = @ \ {r}].at # "mark"
      BY <3>1 DEF Sync
    <3> QED
      BY <1>3, <3>2, NoMark DEF ClearScannedTicket, TypeOK, Idle
  <2> QED
    BY <2>1, <2>2, NothingNewLogged DEF NothingNew
<1> QED
  BY <1>1, <1>2, <1>3 DEF SyncStep

LEMMA BeginLogged ==
    ASSUME TypeOK, GoodLogged, NEW d \in Device
    PROVE  /\ \A c \in Code : ScanOffline(d, c) => GoodLogged'
           /\ \A c \in Code, s \in Slot : ScanOnline(d, c, s) => GoodLogged'
           /\ \A s \in Slot : StartSync(d, s) => GoodLogged'
<1> USE DEF TypeOK, dbVars, deviceVars, NothingNew
<1>1. ASSUME NEW c \in Code, ScanOffline(d, c) PROVE GoodLogged'
  BY <1>1, NothingNewLogged DEF ScanOffline
<1>2. ASSUME NEW c \in Code, NEW s \in Slot, ScanOnline(d, c, s) PROVE GoodLogged'
  <2>1. \A x \in Slot : req'[x] # Idle =>
          req'[x].good = {} \/ (req[x] # Idle /\ req'[x].good = req[x].good)
    BY <1>2 DEF ScanOnline, RequestTypeOK
  <2> QED
    BY <1>2, <2>1, NothingNewLogged DEF ScanOnline
<1>3. ASSUME NEW s \in Slot, StartSync(d, s) PROVE GoodLogged'
  <2>1. \A x \in Device : sync'[x].at = "mark" => sync'[x] = sync[x]
    BY <1>3, NoMark DEF StartSync
  <2>2. \A x \in Slot : req'[x] # Idle =>
          req'[x].good = {} \/ (req[x] # Idle /\ req'[x].good = req[x].good)
    BY <1>3 DEF StartSync, RequestTypeOK
  <2> QED
    BY <1>3, <2>1, <2>2, NothingNewLogged DEF StartSync
<1> QED
  BY <1>1, <1>2, <1>3

(* A request that fails or breaks off never starts to mark. *)
LEMMA FailLogged ==
    ASSUME TypeOK, GoodLogged, NEW s \in Slot, req[s] # Idle,
           Fail(s), UNCHANGED synced
    PROVE  GoodLogged'
<1>1. req[s].dev \in Device
  BY BusyRequest DEF TypeOK
<1>2. NothingNew
  <2>1. \A x \in Device : sync'[x].at = "mark" => sync'[x] = sync[x]
    BY <1>1 DEF Fail, TypeOK, PageTypeOK, Idle
  <2> QED
    BY <2>1, SameAnswers DEF Fail, TypeOK, NothingNew
<1> QED
  BY <1>2, NothingNewLogged DEF Fail

LEMMA HangUpNoMark ==
    ASSUME TypeOK, NEW s \in Slot, req[s] # Idle, HangUp(s)
    PROVE  \A x \in Device : sync'[x].at = "mark" => sync'[x] = sync[x]
<1>1. req[s].dev \in Device
  BY BusyRequest DEF TypeOK
<1> QED
  BY <1>1 DEF HangUp, TypeOK, PageTypeOK, Idle

LEMMA FailureLogged ==
    ASSUME TypeOK, GoodLogged
    PROVE  /\ \A s \in Slot : Disconnect(s) => GoodLogged'
           /\ \A s \in Slot : ServerCrash(s) => GoodLogged'
           /\ \A s \in Slot : DatabaseFails(s) => GoodLogged'
           /\ \A d \in Device : Reload(d) => GoodLogged'
           /\ \A d \in Device : StorageFails(d) => GoodLogged'
<1>1. ASSUME NEW s \in Slot, Disconnect(s) PROVE GoodLogged'
  <2>1. req[s] \in Request /\ req[s] # Idle
    BY <1>1, BusyRequest DEF Disconnect, TypeOK
  <2>2. [req[s] EXCEPT !.heard = FALSE].good = req[s].good
    BY <2>1 DEF Request, Call
  <2>3. NothingNew
    BY <1>1, <2>1, <2>2, HangUpNoMark, SameAnswers DEF Disconnect, TypeOK, NothingNew
  <2> QED
    BY <1>1, <2>3, NothingNewLogged DEF Disconnect, dbVars, deviceVars
<1>2. ASSUME NEW s \in Slot, ServerCrash(s) PROVE GoodLogged'
  <2>1. \A d \in Device : sync'[d].at = "mark" => sync'[d] = sync[d]
    BY <1>2, HangUpNoMark DEF ServerCrash
  <2>2. NothingNew
    BY <1>2, <2>1, SameAnswers DEF ServerCrash, TypeOK, NothingNew
  <2> QED
    BY <1>2, <2>2, NothingNewLogged DEF ServerCrash, dbVars, deviceVars
<1>3. ASSUME NEW s \in Slot, DatabaseFails(s) PROVE GoodLogged'
  BY <1>3, FailLogged DEF DatabaseFails, deviceVars
<1>4. ASSUME NEW d \in Device, Reload(d) PROVE GoodLogged'
  <2>1. ASSUME NEW s \in Slot, req'[s] # Idle
        PROVE  req[s] # Idle /\ req'[s].good = req[s].good
    <3>1. req[s] # Idle
      BY <1>4, <2>1 DEF Reload
    <3>2. req[s] \in Request
      BY <3>1, BusyRequest DEF TypeOK
    <3>3. req'[s] = req[s] \/ req'[s] = [req[s] EXCEPT !.heard = FALSE]
      BY <1>4 DEF Reload
    <3> QED
      BY <3>1, <3>2, <3>3 DEF Request, Call
  <2>2. \A x \in Device : sync'[x].at = "mark" => sync'[x] = sync[x]
    BY <1>4, NoMark DEF Reload, TypeOK, Idle
  <2> QED
    BY <1>4, <2>1, <2>2, NothingNewLogged DEF Reload, NothingNew, dbVars, deviceVars
<1>5. ASSUME NEW d \in Device, StorageFails(d) PROVE GoodLogged'
  <2>1. UNCHANGED <<rows, synced, req>>
    BY <1>5 DEF StorageFails, dbVars, deviceVars
  <2>2. \A x \in Device : sync'[x].at = "mark" => sync'[x] = sync[x]
    <3>1. CASE sync' = sync
      BY <3>1
    <3>2. CASE sync' = [sync EXCEPT ![d] = Idle]
      BY <3>2, NoMark DEF TypeOK, Idle
    <3>3. CASE sync[d].at = "clear" /\ \E r : sync' = [sync EXCEPT ![d].clash = @ \ {r}]
      <4>1. sync[d] \in Sync
        BY <3>3, BusySync DEF TypeOK
      <4>2. \A r : [sync[d] EXCEPT !.clash = @ \ {r}].at # "mark"
        BY <3>3, <4>1 DEF Sync
      <4> QED
        BY <3>3, <4>2, NoMark DEF TypeOK
    <3> QED
      BY <1>5, <3>1, <3>2, <3>3 DEF StorageFails
  <2> QED
    BY <2>1, <2>2, NothingNewLogged DEF NothingNew
<1> QED
  BY <1>1, <1>2, <1>3, <1>4, <1>5

LEMMA ServeLogged ==
    ASSUME TypeOK, GoodLogged, NEW s \in Slot, Serve(s)
    PROVE  GoodLogged'
<1> DEFINE q == req[s]
<1>1. q # Idle /\ q \in Request /\ q.dev \in Device
  BY BusyRequest DEF TypeOK, Serve, LookUp, CheckTicket, CheckIn, LogVerify,
                     LogRecord, AnswerSync, Running
<1>2. ASSUME NEW p, req' = [req EXCEPT ![s] = p], UNCHANGED <<rows, synced, sync>>,
             p = Idle \/ \A r \in p.good : RowsOf(r) # {}
      PROVE  GoodLogged'
  <2>1. \A r : RowsOf(r)' = RowsOf(r)
    BY <1>2 DEF RowsOf
  <2>2. req'[s] = p /\ \A x \in Slot \ {s} : req'[x] = req[x]
    BY <1>2 DEF TypeOK, RequestTypeOK
  <2> QED
    BY <1>2, <2>1, <2>2 DEF GoodLogged, SyncedIsLogged
<1>3. CASE LookUp(s)
  <2>1. PICK r \in q.todo :
          \/ /\ RowsOf(r) # {}
             /\ req' = [req EXCEPT ![s] = [q EXCEPT !.todo = @ \ {r}, !.good = @ \cup {r}]]
          \/ req' = [req EXCEPT ![s] = [q EXCEPT !.rec = r, !.at = "check"]]
    BY <1>3 DEF LookUp, TypeOK, RequestTypeOK
  <2>2. \A x \in q.good : RowsOf(x) # {}
    BY <1>1 DEF GoodLogged
  <2>3. /\ [q EXCEPT !.todo = @ \ {r}, !.good = @ \cup {r}].good = q.good \cup {r}
        /\ [q EXCEPT !.rec = r, !.at = "check"].good = q.good
    BY <1>1 DEF Request, Call
  <2>4. UNCHANGED <<rows, synced, sync>>
    BY <1>3 DEF LookUp, dbVars, deviceVars
  <2> QED
    BY <1>2, <2>1, <2>2, <2>3, <2>4
<1>4. CASE CheckTicket(s)
  <2> DEFINE v == Verdict(q.rec)
             p == IF v = "OK" THEN [q EXCEPT !.at = "update"]
                  ELSE [q EXCEPT !.at = "log", !.status = v]
  <2>1. CASE v = "NOT_FOUND"
    BY <1>1, <1>4, <2>1, FailLogged DEF CheckTicket, deviceVars
  <2>2. CASE v # "NOT_FOUND"
    <3>1. p.good = q.good
      BY <1>1 DEF Request, Call
    <3>2. req' = [req EXCEPT ![s] = p] /\ UNCHANGED <<rows, synced, sync>>
      BY <1>4, <2>2 DEF CheckTicket, deviceVars
    <3> HIDE DEF p
    <3> QED
      BY <1>1, <1>2, <3>1, <3>2 DEF GoodLogged
  <2> QED
    BY <2>1, <2>2
<1>5. CASE CheckIn(s)
  <2>1. PICK v : req' = [req EXCEPT ![s] = [q EXCEPT !.at = "log", !.status = v]]
    BY <1>5 DEF CheckIn, TypeOK, RequestTypeOK
  <2>2. [q EXCEPT !.at = "log", !.status = v].good = q.good
    BY <1>1 DEF Request, Call
  <2>3. UNCHANGED <<rows, synced, sync>>
    BY <1>5 DEF CheckIn, deviceVars
  <2> QED
    BY <1>1, <1>2, <2>1, <2>2, <2>3 DEF GoodLogged
<1>6. CASE LogVerify(s)
  <2>1. NothingNew
    BY <1>6, SameAnswers DEF LogVerify, TypeOK, NothingNew
  <2> QED
    BY <1>6, <2>1, NothingNewLogged DEF LogVerify, deviceVars
<1>7. CASE LogRecord(s)
  <2>1. CASE RowsOf(q.rec) # {}
    BY <1>1, <1>7, <2>1, FailLogged DEF LogRecord, deviceVars
  <2>2. CASE RowsOf(q.rec) = {}
    <3> DEFINE g == IF q.status = "SUCCESS" THEN q.good \cup {q.rec} ELSE q.good
               c == IF q.status = "REJECTED_CONFLICT"
                    THEN q.clash \cup {q.rec} ELSE q.clash
    <3>1. req' = [req EXCEPT ![s] =
                    [q EXCEPT !.at = "look", !.rec = Idle, !.status = "SUCCESS",
                              !.todo = @ \ {q.rec}, !.good = g, !.clash = c]]
      BY <1>7, <2>2 DEF LogRecord
    <3> g \subseteq q.good \cup {q.rec}
      OBVIOUS
    <3> HIDE DEF g, c
    <3>2. PICK row : row.rec = q.rec /\ ~ row.online /\ rows' = rows \cup {row}
      <4>1. rows' = rows \cup {[rec |-> q.rec, online |-> FALSE, status |-> q.status]}
        BY <1>7, <2>2 DEF LogRecord
      <4> QED
        BY <4>1
    <3>3. RowsOf(row.rec)' # {} /\ rows \subseteq rows'
      BY <3>2 DEF RowsOf
    <3>4. req'[s].good = g /\ \A x \in Slot \ {s} : req'[x] = req[x]
      BY <1>1, <3>1 DEF TypeOK, RequestTypeOK, Request, Call
    <3>5. ASSUME NEW x \in Slot, req'[x] # Idle, NEW r \in req'[x].good
          PROVE  RowsOf(r)' # {}
      <4>1. CASE r = row.rec
        BY <3>3, <4>1
      <4>2. CASE r # row.rec
        <5>1. req[x] # Idle /\ r \in req[x].good
          BY <1>1, <3>2, <3>4, <3>5, <4>2
        <5> QED
          BY <3>3, <5>1, RowsStay DEF GoodLogged
      <4> QED
        BY <4>1, <4>2
    <3>6. UNCHANGED <<synced, sync>>
      BY <1>7, <2>2 DEF LogRecord, deviceVars
    <3>7. SyncedIsLogged'
      BY <3>3, <3>6, RowsStay DEF GoodLogged, SyncedIsLogged
    <3> QED
      BY <3>3, <3>5, <3>6, <3>7, RowsStay DEF GoodLogged
  <2> QED
    BY <2>1, <2>2
<1>8. CASE AnswerSync(s)
  <2>1. /\ UNCHANGED <<rows, synced>> /\ req' = [req EXCEPT ![s] = Idle]
        /\ \/ sync' = sync
           \/ sync' = [sync EXCEPT ![q.dev] =
                         [at |-> "mark", good |-> q.good, clash |-> q.clash]]
    BY <1>8 DEF AnswerSync, dbVars, deviceVars, TypeOK, PageTypeOK
  <2>2. \A r : RowsOf(r)' = RowsOf(r)
    BY <2>1 DEF RowsOf
  <2>3. \A d \in Device : sync'[d].at = "mark" =>
          sync'[d] = sync[d] \/ sync'[d].good = q.good
    BY <1>1, <2>1 DEF TypeOK, PageTypeOK
  <2>4. \A x \in Slot : req'[x] # Idle => req'[x] = req[x]
    BY <2>1 DEF TypeOK, RequestTypeOK
  <2> QED
    BY <1>1, <2>1, <2>2, <2>3, <2>4 DEF GoodLogged, SyncedIsLogged
<1> QED
  BY <1>3, <1>4, <1>5, <1>6, <1>7, <1>8 DEF Serve

(***************************************************************************)
(* triggerSync, markSynced: a record a device has marked synced has its    *)
(* row in CheckinLog, whatever is lost, repeated, reloaded or stopped.     *)
(***************************************************************************)
THEOREM SyncedLogged == Spec => []SyncedIsLogged
<1>1. Init => GoodLogged
  BY DEF Init, GoodLogged, SyncedIsLogged, Idle
<1>2. TypeOK /\ GoodLogged /\ [Next]_vars => GoodLogged'
  <2> SUFFICES ASSUME TypeOK, GoodLogged, [Next]_vars PROVE GoodLogged'
    OBVIOUS
  <2>1. CASE UNCHANGED vars
    BY <2>1, NothingNewLogged DEF vars, dbVars, deviceVars, NothingNew
  <2>2. CASE Next
    BY <2>2, DeviceLogged, BeginLogged, FailureLogged, ServeLogged DEF Next
  <2> QED
    BY <2>1, <2>2
<1>3. GoodLogged => SyncedIsLogged
  BY DEF GoodLogged
<1> QED
  BY <1>1, <1>2, <1>3, TypeCorrect, PTL DEF Spec

-----------------------------------------------------------------------------
(* What a step does to the requests *)

Others(s) == \A x \in Slot : x # s => req'[x] = req[x]

(* If slot s is still busy, it is with the same request, at the same place; *)
(* only its device may have stopped listening. *)
Stays(s) ==
    req'[s] # Idle =>
      /\ req[s] # Idle
      /\ req'[s].op = req[s].op /\ req'[s].dev = req[s].dev
      /\ req'[s].at = req[s].at /\ req'[s].rec = req[s].rec
      /\ req'[s].status = req[s].status /\ req'[s].todo = req[s].todo
      /\ req'[s].good = req[s].good /\ req'[s].clash = req[s].clash
      /\ req'[s].heard => req[s].heard

AllStay == \A s \in Slot : Stays(s)

(* The request in slot s goes on, for the same device. *)
GoesOn(s) ==
    /\ req[s] # Idle /\ req'[s] # Idle /\ Others(s)
    /\ req'[s].op = req[s].op /\ req'[s].dev = req[s].dev
    /\ req'[s].heard = req[s].heard

LEMMA RequestFields ==
    ASSUME RequestTypeOK, NEW s \in Slot, req[s] # Idle
    PROVE  /\ req[s].op \in {"verify", "sync"} /\ req[s].heard \in BOOLEAN
           /\ req[s].at = "look" => req[s].op = "sync"
           /\ req[s].op = "verify" => req[s].at \in {"check", "update", "log"}
BY DEF RequestTypeOK, Request, Call

LEMMA SlotFreed ==
    ASSUME RequestTypeOK, NEW s \in Slot, req' = [req EXCEPT ![s] = Idle]
    PROVE  AllStay /\ req'[s] = Idle /\ Others(s)
<1>1. req'[s] = Idle /\ Others(s)
  BY DEF RequestTypeOK, Others
<1> QED
  BY <1>1 DEF AllStay, Stays, Others

LEMMA SlotDeaf ==
    ASSUME RequestTypeOK, NEW s \in Slot, req[s] # Idle,
           req'[s] = [req[s] EXCEPT !.heard = FALSE]
    PROVE  Stays(s) /\ req'[s] # Idle /\ ~ req'[s].heard
<1>1. req[s] \in Request
  BY BusyRequest
<1> QED
  BY <1>1 DEF Request, Call, Stays, Idle

LEMMA DeviceRequests ==
    ASSUME RequestTypeOK, NEW d \in Device
    PROVE  /\ ScanStep(d) => req' = req
           /\ SyncStep(d) => req' = req
           /\ StorageFails(d) => req' = req
           /\ \A c \in Code : ScanOffline(d, c) => req' = req
           /\ Reload(d) => AllStay /\ \A x \in Slot : req'[x] # Idle /\ req'[x].dev = d
                                                       => ~ req'[x].heard
<1>1. ASSUME Reload(d), NEW x \in Slot, req'[x] # Idle
      PROVE  Stays(x) /\ (req'[x].dev = d => ~ req'[x].heard)
  <2>1. req'[x] = IF req[x] # Idle /\ req[x].dev = d
                  THEN [req[x] EXCEPT !.heard = FALSE] ELSE req[x]
    BY <1>1 DEF Reload
  <2>2. CASE req[x] # Idle /\ req[x].dev = d
    BY <2>1, <2>2, SlotDeaf
  <2>3. CASE ~ (req[x] # Idle /\ req[x].dev = d)
    BY <1>1, <2>1, <2>3 DEF Stays
  <2> QED
    BY <2>2, <2>3
<1>2. Reload(d) => AllStay /\ \A x \in Slot : req'[x] # Idle /\ req'[x].dev = d
                                               => ~ req'[x].heard
  BY <1>1 DEF AllStay, Stays
<1> QED
  BY <1>2 DEF ScanStep, CheckGuard, SaveCheckinLog, MarkTicketScanned, SyncStep,
              MarkSynced, ClearScannedTicket, StorageFails, ScanOffline

LEMMA FailureRequests ==
    ASSUME RequestTypeOK, NEW s \in Slot
    PROVE  /\ Fail(s) => AllStay /\ req'[s] = Idle /\ Others(s)
           /\ ServerCrash(s) => AllStay /\ req'[s] = Idle /\ Others(s)
           /\ Disconnect(s) => AllStay /\ req'[s] # Idle /\ ~ req'[s].heard /\ Others(s)
<1>1. ASSUME Disconnect(s)
      PROVE  AllStay /\ req'[s] # Idle /\ ~ req'[s].heard /\ Others(s)
  <2>1. req'[s] = [req[s] EXCEPT !.heard = FALSE] /\ Others(s) /\ req[s] # Idle
    BY <1>1 DEF Disconnect, RequestTypeOK, Others
  <2> QED
    BY <2>1, SlotDeaf DEF AllStay, Stays, Others
<1> QED
  BY <1>1, SlotFreed DEF Fail, ServerCrash

LEMMA BeginRequests ==
    ASSUME RequestTypeOK, NEW d \in Device, NEW s \in Slot
    PROVE  /\ \A c \in Code : ScanOnline(d, c, s) =>
                /\ Others(s) /\ req[s] = Idle /\ req'[s] # Idle
                /\ req'[s].op = "verify" /\ req'[s].dev = d /\ req'[s].heard
                /\ req'[s].at = "check" /\ req'[s].rec = NextScan(d, c)
                /\ req'[s].todo = {} /\ req'[s].good = {} /\ req'[s].clash = {}
           /\ StartSync(d, s) =>
                /\ Others(s) /\ req[s] = Idle /\ req'[s] # Idle
                /\ req'[s].op = "sync" /\ req'[s].dev = d /\ req'[s].heard
                /\ req'[s].at = "look" /\ req'[s].todo = Unsynced(d)
                /\ req'[s].good = {} /\ req'[s].clash = {}
<1>1. ASSUME NEW c \in Code, ScanOnline(d, c, s)
      PROVE  /\ Others(s) /\ req[s] = Idle
             /\ req'[s] = [op |-> "verify", dev |-> d, heard |-> TRUE, at |-> "check",
                           rec |-> NextScan(d, c), status |-> "SUCCESS",
                           todo |-> {}, good |-> {}, clash |-> {}]
  BY <1>1 DEF ScanOnline, RequestTypeOK, Others
<1>2. ASSUME StartSync(d, s)
      PROVE  /\ Others(s) /\ req[s] = Idle
             /\ req'[s] = [op |-> "sync", dev |-> d, heard |-> TRUE, at |-> "look",
                           rec |-> Idle, status |-> "SUCCESS",
                           todo |-> Unsynced(d), good |-> {}, clash |-> {}]
  BY <1>2 DEF StartSync, RequestTypeOK, Others
<1>3. ASSUME NEW c \in Code, ScanOnline(d, c, s)
      PROVE  /\ req'[s] # Idle /\ req'[s].op = "verify" /\ req'[s].dev = d
             /\ req'[s].heard /\ req'[s].at = "check" /\ req'[s].rec = NextScan(d, c)
             /\ req'[s].todo = {} /\ req'[s].good = {} /\ req'[s].clash = {}
  <2>1. req'[s] = [op |-> "verify", dev |-> d, heard |-> TRUE, at |-> "check",
                   rec |-> NextScan(d, c), status |-> "SUCCESS",
                   todo |-> {}, good |-> {}, clash |-> {}]
    BY <1>1, <1>3
  <2> QED
    BY <2>1 DEF Idle
<1>4. ASSUME StartSync(d, s)
      PROVE  /\ req'[s] # Idle /\ req'[s].op = "sync" /\ req'[s].dev = d
             /\ req'[s].heard /\ req'[s].at = "look" /\ req'[s].todo = Unsynced(d)
             /\ req'[s].good = {} /\ req'[s].clash = {}
  BY <1>2, <1>4 DEF Idle
<1> QED
  BY <1>1, <1>2, <1>3, <1>4

LEMMA LookUpEffect ==
    ASSUME RequestTypeOK, NEW s \in Slot, LookUp(s)
    PROVE  /\ GoesOn(s) /\ req[s].at = "look" /\ req[s].op = "sync"
           /\ req'[s].clash = req[s].clash
           /\ \E r \in req[s].todo :
                \/ /\ RowsOf(r) # {} /\ req'[s].at = "look"
                   /\ req'[s].todo = req[s].todo \ {r}
                   /\ req'[s].good = req[s].good \cup {r}
                \/ /\ RowsOf(r) = {} /\ req'[s].at = "check" /\ req'[s].rec = r
                   /\ req'[s].todo = req[s].todo /\ req'[s].good = req[s].good
<1>1. req[s] # Idle /\ req[s] \in Request /\ req[s].at = "look" /\ req[s].op = "sync"
  BY BusyRequest, RequestFields DEF LookUp, Running
<1>2. PICK r \in req[s].todo :
        \/ /\ RowsOf(r) # {}
           /\ req' = [req EXCEPT ![s] = [req[s] EXCEPT !.todo = @ \ {r}, !.good = @ \cup {r}]]
        \/ /\ RowsOf(r) = {}
           /\ req' = [req EXCEPT ![s] = [req[s] EXCEPT !.rec = r, !.at = "check"]]
  BY DEF LookUp, RequestTypeOK
<1>3. Others(s)
  BY <1>2 DEF RequestTypeOK, Others
<1>4. CASE RowsOf(r) # {}
  <2>1. req'[s] = [req[s] EXCEPT !.todo = @ \ {r}, !.good = @ \cup {r}]
    BY <1>2, <1>4 DEF RequestTypeOK
  <2> QED
    BY <1>1, <1>2, <1>3, <1>4, <2>1, ZenonT(30) DEF Request, Call, GoesOn, Idle
<1>5. CASE RowsOf(r) = {}
  <2>1. req'[s] = [req[s] EXCEPT !.rec = r, !.at = "check"]
    BY <1>2, <1>5 DEF RequestTypeOK
  <2> QED
    BY <1>1, <1>2, <1>3, <1>5, <2>1 DEF Request, Call, GoesOn, Idle
<1> QED
  BY <1>4, <1>5

(* The same record and batch, at the next place. *)
SameBatch(s) ==
    /\ req'[s].rec = req[s].rec /\ req'[s].todo = req[s].todo
    /\ req'[s].good = req[s].good /\ req'[s].clash = req[s].clash

LEMMA CheckTicketEffect ==
    ASSUME RequestTypeOK, NEW s \in Slot, CheckTicket(s)
    PROVE  /\ req[s] # Idle /\ req[s].at = "check"
           /\ \/ Verdict(req[s].rec) = "NOT_FOUND" /\ Fail(s)
              \/ /\ Verdict(req[s].rec) # "NOT_FOUND"
                 /\ GoesOn(s) /\ SameBatch(s) /\ UNCHANGED <<rows, scan, sync>>
                 /\ \/ Verdict(req[s].rec) = "OK" /\ req'[s].at = "update"
                    \/ /\ Verdict(req[s].rec) # "OK" /\ req'[s].at = "log"
                       /\ req'[s].status = Verdict(req[s].rec)
<1> DEFINE v == Verdict(req[s].rec)
<1>1. req[s] # Idle /\ req[s] \in Request /\ req[s].at = "check"
  BY BusyRequest DEF CheckTicket, Running
<1>2. CASE v = "NOT_FOUND"
  BY <1>1, <1>2 DEF CheckTicket
<1>3. CASE v # "NOT_FOUND"
  <2>1. /\ req' = [req EXCEPT ![s] = IF v = "OK" THEN [req[s] EXCEPT !.at = "update"]
                                     ELSE [req[s] EXCEPT !.at = "log", !.status = v]]
        /\ UNCHANGED <<rows, scan, sync>>
    BY <1>3 DEF CheckTicket, RequestTypeOK
  <2>2. /\ req'[s] = IF v = "OK" THEN [req[s] EXCEPT !.at = "update"]
                     ELSE [req[s] EXCEPT !.at = "log", !.status = v]
        /\ Others(s)
    BY <2>1 DEF RequestTypeOK, Others
  <2> HIDE DEF v
  <2>3. CASE v = "OK"
    <3>1. req'[s] = [req[s] EXCEPT !.at = "update"]
      BY <2>2, <2>3
    <3>2. GoesOn(s) /\ SameBatch(s) /\ req'[s].at = "update"
      BY <1>1, <2>2, <3>1 DEF Request, Call, GoesOn, SameBatch, Idle
    <3> QED
      BY <1>1, <2>1, <2>3, <3>2 DEF v
  <2>4. CASE v # "OK"
    <3>1. req'[s] = [req[s] EXCEPT !.at = "log", !.status = v]
      BY <2>2, <2>4
    <3>2. GoesOn(s) /\ SameBatch(s) /\ req'[s].at = "log" /\ req'[s].status = v
      BY <1>1, <2>2, <3>1 DEF Request, Call, GoesOn, SameBatch, Idle
    <3> QED
      BY <1>1, <1>3, <2>1, <2>4, <3>2 DEF v
  <2> QED
    BY <2>3, <2>4
<1> QED
  BY <1>2, <1>3

LEMMA CheckInEffect ==
    ASSUME RequestTypeOK, NEW s \in Slot, CheckIn(s)
    PROVE  /\ GoesOn(s) /\ SameBatch(s) /\ req[s].at = "update" /\ req'[s].at = "log"
           /\ checkedIn' = checkedIn \cup {TicketIn(req[s].rec)}
           /\ req'[s].status = "SUCCESS" <=> TicketIn(req[s].rec) \notin checkedIn
<1>1. req[s] # Idle /\ req[s] \in Request /\ req[s].at = "update"
  BY BusyRequest DEF CheckIn, Running
<1>2. PICK v \in {"SUCCESS", "ALREADY_CHECKED_IN", "REJECTED_CONFLICT"} :
        /\ req' = [req EXCEPT ![s] = [req[s] EXCEPT !.at = "log", !.status = v]]
        /\ v = "SUCCESS" <=> TicketIn(req[s].rec) \notin checkedIn
  BY DEF CheckIn, RequestTypeOK
<1>3. req'[s] = [req[s] EXCEPT !.at = "log", !.status = v] /\ Others(s)
  BY <1>2 DEF RequestTypeOK, Others
<1>4. checkedIn' = checkedIn \cup {TicketIn(req[s].rec)}
  BY DEF CheckIn
<1>5. GoesOn(s) /\ SameBatch(s) /\ req'[s].at = "log" /\ req'[s].status = v
  BY <1>1, <1>3 DEF Request, Call, GoesOn, SameBatch, Idle
<1> QED
  BY <1>1, <1>2, <1>4, <1>5

LEMMA LogVerifyEffect ==
    ASSUME RequestTypeOK, NEW s \in Slot, LogVerify(s)
    PROVE  /\ req[s] # Idle /\ req[s].at = "log" /\ req[s].op = "verify"
           /\ AllStay /\ req'[s] = Idle /\ Others(s)
BY SlotFreed DEF LogVerify, Running

LEMMA LogRecordEffect ==
    ASSUME RequestTypeOK, NEW s \in Slot, LogRecord(s)
    PROVE  /\ req[s] # Idle /\ req[s].at = "log" /\ req[s].op = "sync"
           /\ \/ RowsOf(req[s].rec) # {} /\ Fail(s)
              \/ /\ RowsOf(req[s].rec) = {}
                 /\ GoesOn(s) /\ req'[s].at = "look" /\ UNCHANGED <<scan, sync>>
                 /\ rows' = rows \cup {[rec |-> req[s].rec, online |-> FALSE,
                                        status |-> req[s].status]}
                 /\ req'[s].todo = req[s].todo \ {req[s].rec}
                 /\ req'[s].good = IF req[s].status = "SUCCESS"
                                   THEN req[s].good \cup {req[s].rec} ELSE req[s].good
                 /\ req'[s].clash = IF req[s].status = "REJECTED_CONFLICT"
                                    THEN req[s].clash \cup {req[s].rec} ELSE req[s].clash
<1>1. req[s] # Idle /\ req[s] \in Request /\ req[s].at = "log" /\ req[s].op = "sync"
  BY BusyRequest DEF LogRecord, Running
<1>2. CASE RowsOf(req[s].rec) # {}
  BY <1>1, <1>2 DEF LogRecord
<1>3. CASE RowsOf(req[s].rec) = {}
  <2> DEFINE g == IF req[s].status = "SUCCESS"
                  THEN req[s].good \cup {req[s].rec} ELSE req[s].good
             c == IF req[s].status = "REJECTED_CONFLICT"
                  THEN req[s].clash \cup {req[s].rec} ELSE req[s].clash
  <2>1. /\ req' = [req EXCEPT ![s] =
                [req[s] EXCEPT !.at = "look", !.rec = Idle, !.status = "SUCCESS",
                               !.todo = @ \ {req[s].rec}, !.good = g, !.clash = c]]
        /\ rows' = rows \cup {[rec |-> req[s].rec, online |-> FALSE,
                               status |-> req[s].status]}
        /\ UNCHANGED <<scan, sync>>
    BY <1>3 DEF LogRecord
  <2> HIDE DEF g, c
  <2>2. /\ req'[s] = [req[s] EXCEPT !.at = "look", !.rec = Idle, !.status = "SUCCESS",
                               !.todo = @ \ {req[s].rec}, !.good = g, !.clash = c]
        /\ Others(s)
    BY <2>1 DEF RequestTypeOK, Others
  <2>3. /\ GoesOn(s) /\ req'[s].at = "look" /\ req'[s].good = g /\ req'[s].clash = c
        /\ req'[s].todo = req[s].todo \ {req[s].rec}
    BY <1>1, <2>2 DEF Request, Call, GoesOn, Idle
  <2> QED
    BY <1>1, <1>3, <2>1, <2>3 DEF g, c
<1> QED
  BY <1>2, <1>3

LEMMA AnswerSyncEffect ==
    ASSUME RequestTypeOK, PageTypeOK, NEW s \in Slot, AnswerSync(s)
    PROVE  /\ req[s] # Idle /\ req[s].at = "look" /\ req[s].op = "sync"
           /\ req[s].todo = {} /\ AllStay /\ req'[s] = Idle /\ Others(s)
           /\ \A d \in Device :
                \/ sync'[d] = sync[d]
                \/ /\ d = req[s].dev /\ req[s].heard
                   /\ sync'[d] = [at |-> "mark", good |-> req[s].good,
                                  clash |-> req[s].clash]
<1>1. req[s] # Idle /\ req[s].at = "look" /\ req[s].op = "sync" /\ req[s].todo = {}
  BY RequestFields DEF AnswerSync, Running
<1>2. AllStay /\ req'[s] = Idle /\ Others(s)
  BY SlotFreed DEF AnswerSync
<1>3. sync' = [sync EXCEPT ![req[s].dev] =
                 IF req[s].heard THEN [at |-> "mark", good |-> req[s].good,
                                       clash |-> req[s].clash] ELSE @]
  BY DEF AnswerSync
<1> QED
  BY <1>1, <1>2, <1>3 DEF PageTypeOK

=============================================================================
