------------------------- MODULE CheckinDeviceProofs -------------------------
(***************************************************************************)
(* What the doors may rely on when devices go offline, lose replies,       *)
(* reload and fail, for any number of devices, requests and tickets:       *)
(* a scan that let somebody in is kept (NoScanLost), an unknown ticket     *)
(* holds its device's queue (UnknownBlocksQueue), a device lets a ticket   *)
(* in once while offline (OfflineOnce), and the log tells who came in      *)
(* while no call is given up (LogTellsTruth).                              *)
(*                                                                         *)
(* None of them is inductive.  Pages relates a scan on a page to the       *)
(* device's stores and to the call that carries it; Queues relates batches *)
(* to the queue they were read from; LetIn, AdmittedOnce and Truthful say  *)
(* what each place of a request still owes.                                *)
(***************************************************************************)
EXTENDS CheckinProofs

-----------------------------------------------------------------------------
(***************************************************************************)
(* What a page's scan and the stores have to do with each other: the scans *)
(* of a device are numbered in the order of its queue, the one at hand is  *)
(* the last, and a call that is listened to is the scan at hand.           *)
(***************************************************************************)
Hears(s) == req[s] # Idle /\ req[s].op = "verify" /\ req[s].heard

PageOf(d) ==
    scan[d] # Idle =>
      /\ scan[d].rec.dev = d /\ scan[d].rec.n = scans[d]
      /\ \A r \in shown : r.dev = d => r.n < scans[d]
      /\ \A r \in saved : r.dev = d =>
           r.n < scans[d] \/ (scan[d].at = "mark" /\ r = scan[d].rec)
      /\ scan[d].at = "mark" => scan[d].rec \in saved

PastScans == \A r \in saved \cup shown : r.n <= scans[r.dev]

CallOf(s) ==
    Hears(s) =>
      /\ scan[req[s].dev] # Idle /\ scan[req[s].dev].at = "verify"
      /\ scan[req[s].dev].rec = req[s].rec
      /\ \A x \in Slot : Hears(x) /\ req[x].dev = req[s].dev => x = s

Pages ==
    /\ PastScans
    /\ \A d \in Device : PageOf(d)
    /\ \A s \in Slot : CallOf(s)

(* No new call is listened to. *)
HearsKept ==
    \A s \in Slot : Hears(s)' =>
        Hears(s) /\ req'[s].dev = req[s].dev /\ req'[s].rec = req[s].rec

(* Device d's scan is over, or goes on without a call and without the store. *)
ScanMovesOn(d) ==
    /\ \A s \in Slot : Hears(s)' => req'[s].dev # d
    /\ \/ scan'[d] = Idle
       \/ /\ scan[d] # Idle /\ scan[d].at # "mark"
          /\ scan'[d].at # "mark" /\ scan'[d].rec = scan[d].rec

LEMMA HearsStay ==
    ASSUME AllStay
    PROVE  HearsKept
BY DEF AllStay, Stays, HearsKept, Hears

LEMMA HearsOn ==
    ASSUME NEW s \in Slot, GoesOn(s), req'[s].rec = req[s].rec \/ req[s].op = "sync"
    PROVE  HearsKept
BY DEF GoesOn, Others, HearsKept, Hears

LEMMA PagesKept ==
    ASSUME TypeOK, Pages, HearsKept, UNCHANGED <<scans, saved>>,
           \A d \in Device : scan'[d] = scan[d] \/ ScanMovesOn(d),
           \/ shown' = shown
           \/ \E d \in Device : /\ scan[d] # Idle /\ scan'[d] = Idle
                                /\ shown' = shown \cup {scan[d].rec}
    PROVE  Pages'
<1> USE DEF Pages
<1>1. \A r \in shown' \ shown : \E d \in Device :
         r.dev = d /\ r.n = scans[d] /\ scan'[d] = Idle
  BY DEF PageOf
<1>2. PastScans'
  BY <1>1 DEF PastScans, TypeOK, PageTypeOK
<1>3. ASSUME NEW d \in Device PROVE PageOf(d)'
  BY <1>1, <1>3 DEF PageOf, ScanMovesOn
<1>4. ASSUME NEW s \in Slot, Hears(s)'
      PROVE  /\ scan'[req'[s].dev] # Idle /\ scan'[req'[s].dev].at = "verify"
             /\ scan'[req'[s].dev].rec = req'[s].rec
             /\ \A x \in Slot : Hears(x)' /\ req'[x].dev = req'[s].dev => x = s
  <2>1. Hears(s) /\ req'[s].dev = req[s].dev /\ req'[s].rec = req[s].rec
    BY <1>4 DEF HearsKept
  <2>2. req[s].dev \in Device
    BY <2>1, BusyRequest DEF Hears, TypeOK
  <2>3. scan'[req[s].dev] = scan[req[s].dev]
    BY <1>4, <2>1, <2>2 DEF ScanMovesOn
  <2> QED
    BY <2>1, <2>3 DEF HearsKept, CallOf
<1> QED
  BY <1>2, <1>3, <1>4 DEF CallOf

LEMMA PagesBegin ==
    ASSUME TypeOK, Pages, NEW d \in Device, NEW c \in Code,
           ScanOffline(d, c) \/ \E s \in Slot : ScanOnline(d, c, s)
    PROVE  Pages'
<1> USE DEF Pages
<1>1. PICK at \in {"verify", "guard"} :
        /\ BeginScan(d, c, at) /\ UNCHANGED <<saved, shown>>
        /\ at = "verify" => \E s \in Slot : ScanOnline(d, c, s)
        /\ at = "guard" => req' = req
  BY DEF ScanOffline, ScanOnline, deviceVars
<1>2. /\ scan[d] = Idle /\ scan'[d] = [at |-> at, rec |-> NextScan(d, c)]
      /\ scans'[d] = scans[d] + 1 /\ scans[d] \in Nat
      /\ \A e \in Device : e # d => scan'[e] = scan[e] /\ scans'[e] = scans[e]
  BY <1>1 DEF BeginScan, TypeOK, PageTypeOK
<1>3. NextScan(d, c).dev = d /\ NextScan(d, c).n = scans[d] + 1
  BY DEF NextScan
<1>4. \A r \in saved \cup shown : r.dev \in Device /\ r.n \in Nat
  BY DEF TypeOK, DeviceTypeOK, Record
<1>5. PastScans'
  BY <1>1, <1>2, <1>4 DEF PastScans, TypeOK, PageTypeOK
<1>6. ASSUME NEW e \in Device PROVE PageOf(e)'
  <2>1. CASE e = d
    BY <1>1, <1>2, <1>3, <1>4, <2>1 DEF PageOf, PastScans
  <2>2. CASE e # d
    BY <1>1, <1>2, <2>2 DEF PageOf
  <2> QED
    BY <2>1, <2>2
<1>7. \A s \in Slot : Hears(s) => req[s].dev \in Device /\ req[s].dev # d
  BY <1>2, BusyRequest DEF Hears, CallOf, TypeOK
<1>8. CASE at = "guard"
  BY <1>1, <1>2, <1>5, <1>6, <1>7, <1>8 DEF CallOf, Hears
<1>9. CASE at = "verify"
  <2>1. PICK s \in Slot : ScanOnline(d, c, s)
    BY <1>1, <1>9
  <2>2. /\ Others(s) /\ req[s] = Idle /\ req'[s] # Idle /\ req'[s].dev = d
        /\ req'[s].rec = NextScan(d, c)
    BY <2>1, BeginRequests DEF TypeOK
  <2>3. \A x \in Slot : x # s => (Hears(x)' <=> Hears(x)) /\ req'[x] = req[x]
    BY <2>2 DEF Others, Hears
  <2>4. CallOf(s)'
    BY <1>2, <1>7, <1>9, <2>2, <2>3 DEF CallOf, Idle
  <2>5. ASSUME NEW x \in Slot, x # s PROVE CallOf(x)'
    BY <1>2, <1>7, <2>2, <2>3, <2>5 DEF CallOf
  <2> QED
    BY <1>5, <1>6, <2>4, <2>5
<1> QED
  BY <1>8, <1>9

LEMMA PagesDevice ==
    ASSUME TypeOK, Pages, NEW d \in Device
    PROVE  ScanStep(d) \/ SyncStep(d) \/ StorageFails(d) \/ Reload(d) => Pages'
<1> USE DEF TypeOK
<1>1. req' = req => HearsKept
  BY DEF HearsKept, Hears
<1>2. scan[d].at \in {"guard", "save", "mark"} =>
        scan[d] \in Scan /\ scan[d] # Idle /\ \A s \in Slot : Hears(s) => req[s].dev # d
  BY BusyScan DEF Pages, CallOf, Idle
<1>3. CASE CheckGuard(d)
  <2>1. scan' = [scan EXCEPT ![d] = Idle] \/ scan' = [scan EXCEPT ![d] = [scan[d] EXCEPT !.at = "save"]]
    BY <1>3 DEF CheckGuard, PageTypeOK
  <2>2. scan'[d] = Idle \/ (scan'[d].at = "save" /\ scan'[d].rec = scan[d].rec)
    BY <1>2, <1>3, <2>1 DEF CheckGuard, PageTypeOK, Scan
  <2>3. ScanMovesOn(d) /\ HearsKept
    BY <1>1, <1>2, <1>3, <2>2 DEF CheckGuard, ScanMovesOn, Hears
  <2>4. \A e \in Device : e # d => scan'[e] = scan[e]
    BY <2>1 DEF PageTypeOK
  <2> QED
    BY <1>3, <2>3, <2>4, PagesKept DEF CheckGuard, deviceVars
<1>4. CASE SaveCheckinLog(d)
  <2>1. /\ scan'[d].at = "mark" /\ scan'[d].rec = scan[d].rec
        /\ scan[d] # Idle /\ scan[d].at = "save"
        /\ \A e \in Device : e # d => scan'[e] = scan[e]
    BY <1>2, <1>4 DEF SaveCheckinLog, PageTypeOK, Scan
  <2>2. saved' = saved \cup {scan[d].rec} /\ UNCHANGED <<req, scans, shown>>
    BY <1>4 DEF SaveCheckinLog
  <2>3. scan[d].rec.dev = d /\ scan[d].rec.n = scans[d] /\ scans[d] \in Nat
    BY <2>1 DEF Pages, PageOf, PageTypeOK
  <2>4. PastScans'
    BY <2>2, <2>3 DEF Pages, PastScans
  <2>5. ASSUME NEW e \in Device PROVE PageOf(e)'
    <3>1. CASE e = d
      BY <2>1, <2>2, <2>3, <3>1 DEF Pages, PageOf
    <3>2. CASE e # d
      BY <2>1, <2>2, <2>3, <3>2 DEF Pages, PageOf
    <3> QED
      BY <3>1, <3>2
  <2>6. ASSUME NEW s \in Slot, Hears(s) PROVE req[s].dev \in Device /\ req[s].dev # d
    BY <1>2, <2>1, <2>6, BusyRequest DEF Hears
  <2>7. \A s \in Slot : CallOf(s)'
    BY <2>1, <2>2, <2>6 DEF Pages, CallOf, Hears
  <2> QED
    BY <2>4, <2>5, <2>7 DEF Pages
<1>5. CASE MarkTicketScanned(d)
  <2>1. /\ scan'[d] = Idle /\ \A e \in Device : e # d => scan'[e] = scan[e]
    BY <1>5 DEF MarkTicketScanned, PageTypeOK
  <2>2. ScanMovesOn(d) /\ HearsKept /\ scan[d] # Idle
    BY <1>1, <1>2, <1>5, <2>1 DEF MarkTicketScanned, ScanMovesOn, Hears
  <2> QED
    BY <1>5, <2>1, <2>2, PagesKept DEF MarkTicketScanned
<1>6. CASE SyncStep(d)
  BY <1>1, <1>6, PagesKept DEF SyncStep, MarkSynced, ClearScannedTicket
<1>7. CASE StorageFails(d)
  <2>1. CASE scan' = scan
    <3>1. shown' = shown
      BY <1>2, <1>7, <2>1 DEF StorageFails, PageTypeOK
    <3> QED
      BY <1>1, <1>7, <2>1, <3>1, PagesKept DEF StorageFails, deviceVars
  <2>2. CASE scan' # scan
    <3>1. /\ scan[d].at \in {"guard", "save", "mark"}
          /\ \/ /\ scan[d].at = "guard" /\ shown' = shown
                /\ scan' = [scan EXCEPT ![d] = [scan[d] EXCEPT !.at = "save"]]
             \/ /\ scan' = [scan EXCEPT ![d] = Idle]
                /\ shown' = shown \cup {scan[d].rec}
      BY <1>7, <2>2 DEF StorageFails, PageTypeOK
    <3>2. /\ \A e \in Device : e # d => scan'[e] = scan[e]
          /\ \/ /\ scan[d].at = "guard" /\ shown' = shown
                /\ scan'[d].at = "save" /\ scan'[d].rec = scan[d].rec
             \/ /\ scan'[d] = Idle /\ shown' = shown \cup {scan[d].rec}
      BY <1>2, <3>1 DEF PageTypeOK, Scan
    <3>3. UNCHANGED <<req, scans, saved>>
      BY <1>7 DEF StorageFails, deviceVars
    <3>4. ScanMovesOn(d) /\ HearsKept /\ scan[d] # Idle
      BY <1>1, <1>2, <3>1, <3>2, <3>3 DEF ScanMovesOn, Hears
    <3> QED
      BY <3>2, <3>3, <3>4, PagesKept
  <2> QED
    BY <2>1, <2>2
<1>8. CASE Reload(d)
  <2>1. AllStay /\ \A x \in Slot : req'[x] # Idle /\ req'[x].dev = d => ~ req'[x].heard
    BY <1>8, DeviceRequests
  <2>2. scan'[d] = Idle /\ \A e \in Device : e # d => scan'[e] = scan[e]
    BY <1>8 DEF Reload, PageTypeOK
  <2>3. ScanMovesOn(d) /\ HearsKept
    BY <2>1, <2>2, HearsStay DEF ScanMovesOn, Hears
  <2> QED
    BY <1>8, <2>2, <2>3, PagesKept DEF Reload, deviceVars
<1> QED
  BY <1>3, <1>4, <1>5, <1>6, <1>7, <1>8 DEF ScanStep

(* The end of a call at the device, listened to or not. *)
LEMMA FailEffect ==
    ASSUME TypeOK, NEW s \in Slot, req[s] # Idle, Fail(s)
    PROVE  /\ AllStay /\ req'[s] = Idle /\ Others(s) /\ req[s].dev \in Device
           /\ \A d \in Device :
                /\ \/ scan'[d] = scan[d]
                   \/ scan'[d] = Idle /\ Hears(s) /\ d = req[s].dev
                /\ \/ sync'[d] = sync[d]
                   \/ sync'[d] = Idle /\ req[s].op = "sync" /\ d = req[s].dev
           /\ req[s].heard /\ req[s].op = "sync" => sync'[req[s].dev] = Idle
<1>1. AllStay /\ req'[s] = Idle /\ Others(s) /\ req[s].dev \in Device
  BY FailureRequests, BusyRequest DEF TypeOK
<1> QED
  BY <1>1 DEF Fail, TypeOK, PageTypeOK, Hears

LEMMA HangUpEffect ==
    ASSUME TypeOK, NEW s \in Slot, req[s] # Idle, HangUp(s)
    PROVE  /\ req[s].dev \in Device
           /\ \A d \in Device :
                /\ \/ scan'[d] = scan[d]
                   \/ /\ req[s].op = "verify" /\ d = req[s].dev
                      /\ scan'[d] = [at |-> "guard", rec |-> req[s].rec]
                /\ sync'[d] = sync[d] \/ sync'[d] = Idle
<1>1. req[s].dev \in Device
  BY BusyRequest DEF TypeOK
<1> QED
  BY <1>1 DEF HangUp, TypeOK, PageTypeOK

LEMMA PagesFail ==
    ASSUME TypeOK, Pages, NEW s \in Slot, req[s] # Idle
    PROVE  /\ Fail(s) /\ UNCHANGED <<scans, saved, shown>> => Pages'
           /\ HangUp(s) /\ UNCHANGED <<scans, saved, shown>> /\ req[s].heard
              /\ AllStay /\ ~ Hears(s)' => Pages'
<1>1. \A x \in Slot : Hears(x) /\ Hears(s) /\ req[x].dev = req[s].dev => x = s
  BY DEF Pages, CallOf
<1>2. ASSUME Fail(s), UNCHANGED <<scans, saved, shown>> PROVE Pages'
  <2>1. HearsKept
    BY <1>2, FailEffect, HearsStay
  <2>2. ASSUME NEW d \in Device, scan'[d] # scan[d] PROVE ScanMovesOn(d)
    <3>1. scan'[d] = Idle /\ Hears(s) /\ d = req[s].dev /\ ~ Hears(s)'
      BY <1>2, <2>2, FailEffect DEF Hears
    <3> QED
      BY <1>1, <2>1, <3>1 DEF ScanMovesOn, HearsKept
  <2> QED
    BY <1>2, <2>1, <2>2, PagesKept
<1>3. ASSUME HangUp(s), UNCHANGED <<scans, saved, shown>>, req[s].heard,
             AllStay, ~ Hears(s)'
      PROVE  Pages'
  <2>1. HearsKept
    BY <1>3, HearsStay
  <2>2. ASSUME NEW d \in Device, scan'[d] # scan[d] PROVE ScanMovesOn(d)
    <3>1. /\ Hears(s) /\ d = req[s].dev
          /\ scan'[d] = [at |-> "guard", rec |-> req[s].rec]
      BY <1>3, <2>2, HangUpEffect DEF Hears
    <3>2. scan[d] # Idle /\ scan[d].at = "verify" /\ scan[d].rec = req[s].rec
      BY <3>1 DEF Pages, CallOf
    <3> QED
      BY <1>1, <1>3, <2>1, <3>1, <3>2 DEF ScanMovesOn, HearsKept
  <2> QED
    BY <1>3, <2>1, <2>2, PagesKept
<1> QED
  BY <1>2, <1>3

LEMMA PagesFailure ==
    ASSUME TypeOK, Pages, NEW s \in Slot
    PROVE  Disconnect(s) \/ ServerCrash(s) \/ DatabaseFails(s) => Pages'
<1>1. CASE Disconnect(s)
  <2>1. AllStay /\ ~ Hears(s)'
    BY <1>1, FailureRequests DEF TypeOK, Hears
  <2> QED
    BY <1>1, <2>1, PagesFail DEF Disconnect, deviceVars
<1>2. CASE ServerCrash(s)
  <2>1. AllStay /\ ~ Hears(s)'
    BY <1>2, FailureRequests DEF TypeOK, Hears
  <2> QED
    BY <1>2, <2>1, PagesFail, PagesKept, HearsStay DEF ServerCrash, deviceVars
<1>3. CASE DatabaseFails(s)
  BY <1>3, PagesFail DEF DatabaseFails, deviceVars
<1> QED
  BY <1>1, <1>2, <1>3

LEMMA PagesServe ==
    ASSUME TypeOK, Pages, NEW s \in Slot, Serve(s)
    PROVE  Pages'
<1> USE DEF TypeOK, deviceVars
<1>1. CASE LookUp(s)
  BY <1>1, LookUpEffect, HearsOn, PagesKept DEF LookUp
<1>2. CASE CheckTicket(s)
  <2>1. UNCHANGED <<scans, saved, shown>>
    BY <1>2 DEF CheckTicket
  <2>2. CASE Fail(s)
    BY <1>2, <2>1, <2>2, CheckTicketEffect, PagesFail
  <2>3. CASE GoesOn(s) /\ SameBatch(s) /\ scan' = scan
    BY <2>1, <2>3, HearsOn, PagesKept DEF SameBatch
  <2> QED
    BY <1>2, <2>2, <2>3, CheckTicketEffect
<1>3. CASE CheckIn(s)
  BY <1>3, CheckInEffect, HearsOn, PagesKept DEF CheckIn, SameBatch
<1>4. CASE LogVerify(s)
  <2>1. /\ req[s] # Idle /\ req[s].op = "verify" /\ AllStay /\ req'[s] = Idle
        /\ req[s].dev \in Device
    BY <1>4, LogVerifyEffect, BusyRequest
  <2>2. CASE ~ req[s].heard
    <3>1. scan' = scan /\ UNCHANGED <<scans, saved, shown>>
      BY <1>4, <2>2 DEF LogVerify, PageTypeOK
    <3> QED
      BY <2>1, <3>1, HearsStay, PagesKept
  <2>3. CASE req[s].heard
    <3> DEFINE d == req[s].dev
    <3>1. /\ scan'[d] = Idle /\ \A e \in Device : e # d => scan'[e] = scan[e]
          /\ shown' = shown \/ shown' = shown \cup {req[s].rec}
          /\ UNCHANGED <<scans, saved>>
      BY <1>4, <2>1, <2>3 DEF LogVerify, PageTypeOK
    <3>2. scan[d] # Idle /\ scan[d].rec = req[s].rec
      BY <2>1, <2>3 DEF Pages, CallOf, Hears
    <3>3. ~ Hears(s)' /\ \A x \in Slot : Hears(x) /\ req[x].dev = d => x = s
      BY <2>1, <2>3 DEF Pages, CallOf, Hears
    <3>4. ScanMovesOn(d) /\ HearsKept
      BY <2>1, <3>1, <3>3, HearsStay DEF ScanMovesOn, HearsKept
    <3> QED
      BY <2>1, <3>1, <3>2, <3>4, PagesKept
  <2> QED
    BY <2>2, <2>3
<1>5. CASE LogRecord(s)
  <2>1. UNCHANGED <<scans, saved, shown>>
    BY <1>5 DEF LogRecord
  <2>2. CASE Fail(s)
    BY <1>5, <2>1, <2>2, LogRecordEffect, PagesFail
  <2>3. CASE GoesOn(s) /\ scan' = scan
    BY <1>5, <2>1, <2>3, LogRecordEffect, HearsOn, PagesKept
  <2> QED
    BY <1>5, <2>2, <2>3, LogRecordEffect
<1>6. CASE AnswerSync(s)
  BY <1>6, AnswerSyncEffect, HearsStay, PagesKept DEF AnswerSync
<1> QED
  BY <1>1, <1>2, <1>3, <1>4, <1>5, <1>6 DEF Serve

LEMMA PagesStart ==
    ASSUME TypeOK, Pages, NEW d \in Device, NEW s \in Slot, StartSync(d, s)
    PROVE  Pages'
<1>1. HearsKept
  BY BeginRequests DEF TypeOK, HearsKept, Hears, Others
<1> QED
  BY <1>1, PagesKept DEF StartSync, deviceVars

(* A scan on a page is the last of its device, and its call carries it. *)
THEOREM PagesInvariant == Spec => []Pages
<1>1. Init => Pages
  BY DEF Init, Pages, PastScans, PageOf, CallOf, Hears
<1>2. TypeOK /\ Pages /\ [Next]_vars => Pages'
  <2> SUFFICES ASSUME TypeOK, Pages, [Next]_vars PROVE Pages'
    OBVIOUS
  <2>1. CASE UNCHANGED vars
    BY <2>1 DEF vars, deviceVars, Pages, PastScans, PageOf, CallOf, Hears
  <2>2. CASE Next
    BY <2>2, PagesBegin, PagesDevice, PagesFailure, PagesServe, PagesStart DEF Next
  <2> QED
    BY <2>1, <2>2
<1> QED
  BY <1>1, <1>2, TypeCorrect, PTL DEF Spec

-----------------------------------------------------------------------------
(***************************************************************************)
(* NoScanLost: every row and every request about to write one is past the  *)
(* ticket's update, unless the server refused the code; and who was shown  *)
(* the valid screen is checked in, or the record was saved.  That a saved  *)
(* record is not taken off the queue too early is SyncedIsLogged.          *)
(***************************************************************************)
Welcome(r) == Verdict(r) = "OK" => TicketIn(r) \in checkedIn

LetIn ==
    /\ \A row \in rows : Welcome(row.rec)
    /\ \A s \in Slot : Running(s, "log") => Welcome(req[s].rec)
    /\ \A r \in shown \ failed : Welcome(r) \/ r \in saved

LEMMA LetInKept ==
    ASSUME LetIn, UNCHANGED dbVars, saved \subseteq saved', failed \subseteq failed',
           AllStay, shown' \subseteq shown \cup saved' \cup failed'
    PROVE  LetIn'
<1>1. \A r : Welcome(r)' <=> Welcome(r)
  BY DEF Welcome, Verdict, UnknownTicket, TicketIn, dbVars
<1>2. \A s \in Slot : Running(s, "log")' => Running(s, "log") /\ req'[s].rec = req[s].rec
  BY DEF AllStay, Stays, Running
<1> QED
  BY <1>1, <1>2 DEF LetIn, dbVars

(* More tickets are checked in, one slot moves on. *)
LEMMA LetInServed ==
    ASSUME LetIn, NEW s \in Slot, Others(s), checkedIn \subseteq checkedIn',
           Running(s, "log")' => Welcome(req[s].rec)' /\ req'[s].rec = req[s].rec,
           rows' = rows \/ \E row : /\ rows' = rows \cup {row}
                                    /\ Welcome(row.rec),
           shown' = shown \/ \E r : shown' = shown \cup {r} /\ Welcome(r),
           UNCHANGED <<saved, failed>>
    PROVE  LetIn'
<1>1. \A r : Welcome(r) => Welcome(r)'
  BY DEF Welcome, Verdict, UnknownTicket, TicketIn
<1>2. \A row \in rows' : Welcome(row.rec)'
  BY <1>1 DEF LetIn
<1>3. ASSUME NEW x \in Slot, Running(x, "log")' PROVE Welcome(req[x].rec)'
  <2>1. CASE x = s
    <3>1. Welcome(req[s].rec)' /\ req'[s].rec = req[s].rec
      BY <1>3, <2>1
    <3> QED
      BY <2>1, <3>1
  <2>2. CASE x # s
    <3>1. req'[x] = req[x] /\ Running(x, "log")
      BY <1>3, <2>2 DEF Others, Running
    <3>2. Welcome(req[x].rec)
      BY <3>1 DEF LetIn
    <3>3. Welcome(req'[x].rec)
      BY <3>1, <3>2
    <3> QED
      BY <3>1, <3>2, <1>1 DEF Welcome
  <2> QED
    BY <2>1, <2>2
<1>4. ASSUME NEW r \in shown' \ failed' PROVE Welcome(r)' \/ r \in saved'
  BY <1>1, <1>4 DEF LetIn
<1> QED
  BY <1>2, <1>3, <1>4 DEF LetIn


LEMMA LetInDevice ==
    ASSUME TypeOK, Pages, LetIn, NEW d \in Device
    PROVE  /\ ScanStep(d) \/ SyncStep(d) \/ StorageFails(d) \/ Reload(d) => LetIn'
           /\ \A c \in Code : ScanOffline(d, c) => LetIn'
<1> USE DEF deviceVars
<1>1. req' = req => AllStay
  BY DEF AllStay, Stays
<1>2. CASE ScanStep(d)
  <2>1. MarkTicketScanned(d) => scan[d].rec \in saved
    BY DEF MarkTicketScanned, Pages, PageOf, Idle
  <2> QED
    BY <1>1, <1>2, <2>1, LetInKept
    DEF ScanStep, CheckGuard, SaveCheckinLog, MarkTicketScanned
<1>3. CASE SyncStep(d)
  BY <1>1, <1>3, LetInKept DEF SyncStep, MarkSynced, ClearScannedTicket
<1>4. CASE StorageFails(d)
  BY <1>1, <1>4, LetInKept DEF StorageFails
<1>5. CASE Reload(d)
  BY <1>5, DeviceRequests, LetInKept DEF Reload, TypeOK
<1>6. ASSUME NEW c \in Code, ScanOffline(d, c) PROVE LetIn'
  BY <1>1, <1>6, LetInKept DEF ScanOffline
<1> QED
  BY <1>2, <1>3, <1>4, <1>5, <1>6

LEMMA LetInFailure ==
    ASSUME TypeOK, LetIn, NEW s \in Slot
    PROVE  Disconnect(s) \/ ServerCrash(s) \/ DatabaseFails(s) => LetIn'
<1> USE DEF deviceVars, TypeOK
<1>1. CASE Disconnect(s)
  BY <1>1, FailureRequests, LetInKept DEF Disconnect
<1>2. CASE ServerCrash(s)
  BY <1>2, FailureRequests, LetInKept DEF ServerCrash
<1>3. CASE DatabaseFails(s)
  BY <1>3, FailureRequests, LetInKept DEF DatabaseFails, Fail, dbVars
<1> QED
  BY <1>1, <1>2, <1>3

LEMMA LetInBegin ==
    ASSUME TypeOK, LetIn, NEW d \in Device, NEW s \in Slot
    PROVE  /\ \A c \in Code : ScanOnline(d, c, s) => LetIn'
           /\ StartSync(d, s) => LetIn'
<1> USE DEF dbVars, deviceVars, TypeOK
<1>1. ASSUME NEW c \in Code, ScanOnline(d, c, s) PROVE LetIn'
  <2>1. Others(s) /\ ~ Running(s, "log")'
    BY <1>1, BeginRequests DEF Running
  <2> QED
    BY <1>1, <2>1, LetInServed DEF ScanOnline
<1>2. ASSUME StartSync(d, s) PROVE LetIn'
  <2>1. Others(s) /\ ~ Running(s, "log")'
    BY <1>2, BeginRequests DEF Running
  <2> QED
    BY <1>2, <2>1, LetInServed DEF StartSync
<1> QED
  BY <1>1, <1>2

LEMMA LetInServe ==
    ASSUME TypeOK, LetIn, NEW s \in Slot, Serve(s)
    PROVE  LetIn'
<1> USE DEF TypeOK, dbVars, deviceVars
<1> DEFINE r == req[s].rec
<1>1. CASE LookUp(s)
  <2>1. Others(s) /\ ~ Running(s, "log")'
    BY <1>1, LookUpEffect DEF Running, GoesOn
  <2> QED
    BY <1>1, <2>1, LetInServed DEF LookUp
<1>2. CASE CheckTicket(s)
  <2>1. UNCHANGED <<checkedIn, deviceVars, shown, failed>>
    BY <1>2 DEF CheckTicket
  <2>2. CASE Fail(s)
    BY <2>1, <2>2, FailureRequests, LetInKept DEF Fail
  <2>3. CASE GoesOn(s) /\ SameBatch(s) /\ rows' = rows
    <3>1. Running(s, "log")' => req'[s].rec = r /\ Verdict(r) # "OK"
      BY <1>2, <2>3, CheckTicketEffect, FailureRequests DEF Running, SameBatch
    <3>2. Running(s, "log")' => Welcome(r)' /\ req'[s].rec = r
      BY <3>1 DEF Welcome
    <3> QED
      BY <2>1, <2>3, <3>2, LetInServed DEF GoesOn
  <2> QED
    BY <1>2, <2>2, <2>3, CheckTicketEffect
<1>3. CASE CheckIn(s)
  <2>1. /\ GoesOn(s) /\ req'[s].rec = r /\ checkedIn' = checkedIn \cup {TicketIn(r)}
    BY <1>3, CheckInEffect DEF SameBatch
  <2>2. Welcome(req[s].rec)'
    BY <2>1 DEF Welcome, TicketIn
  <2> QED
    BY <1>3, <2>1, <2>2, LetInServed DEF CheckIn, GoesOn
<1>4. CASE LogVerify(s)
  <2>1. Running(s, "log") /\ Welcome(r) /\ Others(s) /\ req'[s] = Idle
    BY <1>4, LogVerifyEffect DEF LetIn, Running
  <2>2. rows' = rows \cup {[rec |-> r, online |-> TRUE, status |-> req[s].status]}
    BY <1>4 DEF LogVerify
  <2>3. \E row : rows' = rows \cup {row} /\ Welcome(row.rec)
    <3>1. Welcome([rec |-> r, online |-> TRUE, status |-> req[s].status].rec)
      BY <2>1
    <3> QED
      BY <2>2, <3>1
  <2>4. shown' = shown \/ \E x : shown' = shown \cup {x} /\ Welcome(x)
    BY <1>4, <2>1 DEF LogVerify
  <2> QED
    BY <1>4, <2>1, <2>3, <2>4, LetInServed DEF LogVerify, Running
<1>5. CASE LogRecord(s)
  <2>1. UNCHANGED <<checkedIn, deviceVars, shown, failed>>
    BY <1>5 DEF LogRecord
  <2>2. CASE Fail(s)
    BY <2>1, <2>2, FailureRequests, LetInKept DEF Fail
  <2>3. CASE ~ Fail(s)
    <3>1. /\ GoesOn(s) /\ req'[s].at = "look" /\ Welcome(r)
          /\ rows' = rows \cup {[rec |-> r, online |-> FALSE, status |-> req[s].status]}
      BY <1>5, <2>3, LogRecordEffect DEF LetIn, Running
    <3>2. \E row : rows' = rows \cup {row} /\ Welcome(row.rec)
      <4>1. Welcome([rec |-> r, online |-> FALSE, status |-> req[s].status].rec)
        BY <3>1
      <4> QED
        BY <3>1, <4>1
    <3> QED
      BY <2>1, <3>1, <3>2, LetInServed DEF Running, GoesOn
  <2> QED
    BY <2>2, <2>3
<1>6. CASE AnswerSync(s)
  BY <1>6, AnswerSyncEffect, LetInKept DEF AnswerSync
<1> QED
  BY <1>1, <1>2, <1>3, <1>4, <1>5, <1>6 DEF Serve

LEMMA LetInQueued ==
    ASSUME LetIn, SyncedIsLogged
    PROVE  NoScanLost
<1> SUFFICES ASSUME NEW r \in shown \ failed, Verdict(r) = "OK",
                    TicketIn(r) \notin checkedIn
             PROVE  r \in saved \ synced
  BY DEF NoScanLost
<1>1. r \in saved
  BY DEF LetIn, Welcome
<1>2. ASSUME r \in synced PROVE FALSE
  <2>1. PICK row \in rows : row.rec = r
    BY <1>2 DEF SyncedIsLogged, RowsOf
  <2> QED
    BY <2>1 DEF LetIn, Welcome
<1> QED
  BY <1>1, <1>2

(***************************************************************************)
(* handleScan, triggerSync, processSyncRecord: whoever was shown the valid *)
(* screen is checked in at the server or still in the device's queue.      *)
(***************************************************************************)
THEOREM ScansKept == Spec => []NoScanLost
<1>1. Init => LetIn
  BY DEF Init, LetIn, Running
<1>2. TypeOK /\ Pages /\ LetIn /\ [Next]_vars => LetIn'
  <2> SUFFICES ASSUME TypeOK, Pages, LetIn, [Next]_vars PROVE LetIn'
    OBVIOUS
  <2>1. CASE UNCHANGED vars
    BY <2>1, LetInKept DEF vars, deviceVars, AllStay, Stays
  <2>2. CASE Next
    BY <2>2, LetInDevice, LetInFailure, LetInBegin, LetInServe DEF Next
  <2> QED
    BY <2>1, <2>2
<1> QED
  BY <1>1, <1>2, LetInQueued, TypeCorrect, PagesInvariant, SyncedLogged, PTL DEF Spec

-----------------------------------------------------------------------------
(***************************************************************************)
(* UnknownBlocksQueue: a batch is a part of the device's queue, and as     *)
(* long as a record of an unknown ticket was in it, it still is to be      *)
(* done; a batch that was sent before that record was scanned holds only   *)
(* earlier ones.                                                           *)
(***************************************************************************)
Batch(s) == req[s].todo \cup req[s].good

BatchOf(s) ==
    req[s] # Idle /\ req[s].op = "sync" =>
      /\ \A r \in Batch(s) : r \in saved /\ r.dev = req[s].dev
      /\ req[s].at # "look" => req[s].rec \in req[s].todo
      /\ \A u \in saved : u.dev = req[s].dev /\ UnknownTicket(u) =>
           u \in req[s].todo \/ \A r \in Batch(s) : r.n < u.n

AnswerOf(d) ==
    sync[d].at = "mark" =>
      \A r \in sync[d].good :
        /\ r \in saved /\ r.dev = d
        /\ \A u \in saved : u.dev = d /\ UnknownTicket(u) => r.n < u.n

KnownRows ==
    /\ \A row \in rows : ~ UnknownTicket(row.rec)
    /\ \A s \in Slot : Running(s, "update") \/ Running(s, "log") =>
         ~ UnknownTicket(req[s].rec)

Queues ==
    /\ synced \subseteq saved
    /\ UnknownBlocksQueue
    /\ KnownRows
    /\ \A s \in Slot : BatchOf(s)
    /\ \A d \in Device : AnswerOf(d)

SyncMovesOn == \A d \in Device : sync'[d] = sync[d] \/ sync'[d].at # "mark"

LEMMA QueuesKept ==
    ASSUME Queues, AllStay, SyncMovesOn, UNCHANGED <<rows, saved, synced>>
    PROVE  Queues'
<1>1. UnknownBlocksQueue'
  BY DEF Queues, UnknownBlocksQueue, UnknownTicket, TicketIn
<1>2. KnownRows'
  BY DEF Queues, KnownRows, UnknownTicket, TicketIn, AllStay, Stays, Running
<1>3. \A s \in Slot : BatchOf(s)'
  BY DEF Queues, BatchOf, Batch, UnknownTicket, TicketIn, AllStay, Stays
<1>4. \A d \in Device : AnswerOf(d)'
  BY DEF Queues, AnswerOf, UnknownTicket, TicketIn, SyncMovesOn
<1> QED
  BY <1>1, <1>2, <1>3, <1>4 DEF Queues

LEMMA QueuesServed ==
    ASSUME Queues, NEW s \in Slot, Others(s), BatchOf(s)',
           UNCHANGED <<sync, saved, synced>>,
           Running(s, "update")' \/ Running(s, "log")' => ~ UnknownTicket(req'[s].rec),
           rows' = rows \/ \E row : /\ rows' = rows \cup {row}
                                    /\ ~ UnknownTicket(row.rec)
    PROVE  Queues'
<1>1. UnknownBlocksQueue'
  BY DEF Queues, UnknownBlocksQueue, UnknownTicket, TicketIn
<1>2. KnownRows'
  BY DEF Queues, KnownRows, UnknownTicket, TicketIn, Others, Running
<1>3. ASSUME NEW x \in Slot, x # s PROVE BatchOf(x)'
  BY <1>3 DEF Queues, BatchOf, Batch, UnknownTicket, TicketIn, Others
<1>4. \A d \in Device : AnswerOf(d)'
  BY DEF Queues, AnswerOf, UnknownTicket, TicketIn
<1> QED
  BY <1>1, <1>2, <1>3, <1>4 DEF Queues

(* The queue of a device grows at its end. *)
LEMMA QueuesSave ==
    ASSUME TypeOK, Pages, Queues, NEW d \in Device, SaveCheckinLog(d)
    PROVE  Queues'
<1> DEFINE r == scan[d].rec
<1>1. /\ saved' = saved \cup {r} /\ UNCHANGED <<rows, synced, req, sync>>
  BY DEF SaveCheckinLog, dbVars
<1>2. r.dev = d /\ \A x \in saved : x.dev = d => x.n < r.n
  BY DEF SaveCheckinLog, Pages, PageOf, Idle
<1> HIDE DEF r
<1>3. UnknownBlocksQueue'
  BY <1>1, <1>2 DEF Queues, UnknownBlocksQueue, UnknownTicket, TicketIn
<1>4. KnownRows'
  BY <1>1 DEF Queues, KnownRows, UnknownTicket, TicketIn, Running
<1>5. ASSUME NEW s \in Slot, req[s] # Idle, req[s].op = "sync"
      PROVE  BatchOf(s)'
  <2>1. \A x \in Batch(s) : x \in saved /\ x.dev = req[s].dev
    BY <1>5 DEF Queues, BatchOf
  <2> QED
    BY <1>1, <1>2, <1>5, <2>1 DEF Queues, BatchOf, Batch, UnknownTicket, TicketIn
<1>6. ASSUME NEW e \in Device PROVE AnswerOf(e)'
  BY <1>1, <1>2 DEF Queues, AnswerOf, UnknownTicket, TicketIn
<1>7. \A s \in Slot : BatchOf(s)'
  BY <1>1, <1>5 DEF BatchOf
<1> QED
  BY <1>1, <1>3, <1>4, <1>6, <1>7 DEF Queues

LEMMA QueuesDevice ==
    ASSUME TypeOK, Pages, Queues, NEW d \in Device
    PROVE  /\ ScanStep(d) \/ SyncStep(d) \/ StorageFails(d) \/ Reload(d) => Queues'
           /\ \A c \in Code : ScanOffline(d, c) => Queues'
<1> USE DEF dbVars, deviceVars, TypeOK
<1>1. req' = req => AllStay
  BY DEF AllStay, Stays
<1>2. sync' = sync => SyncMovesOn
  BY DEF SyncMovesOn
<1>3. CASE ScanStep(d)
  BY <1>1, <1>2, <1>3, QueuesKept, QueuesSave
  DEF ScanStep, CheckGuard, MarkTicketScanned
<1>4. CASE MarkSynced(d)
  <2>1. synced' = synced \cup sync[d].good /\ UNCHANGED <<rows, saved, req>>
    BY <1>4 DEF MarkSynced
  <2>2. \A r \in sync[d].good :
          /\ r \in saved /\ r.dev = d
          /\ \A u \in saved : u.dev = d /\ UnknownTicket(u) => r.n < u.n
    BY <1>4 DEF MarkSynced, Queues, AnswerOf
  <2>3. UnknownBlocksQueue' /\ synced' \subseteq saved'
    BY <2>1, <2>2 DEF Queues, UnknownBlocksQueue, UnknownTicket, TicketIn
  <2>4. SyncMovesOn
    BY <1>4, BusySync DEF MarkSynced, SyncMovesOn, PageTypeOK, Sync
  <2>5. \A e \in Device : AnswerOf(e)'
    BY <2>1, <2>4 DEF Queues, AnswerOf, SyncMovesOn, UnknownTicket, TicketIn
  <2>6. KnownRows' /\ \A s \in Slot : BatchOf(s)'
    BY <2>1 DEF Queues, KnownRows, Running, BatchOf, Batch, UnknownTicket, TicketIn
  <2> QED
    BY <2>3, <2>5, <2>6 DEF Queues
<1>5. CASE ClearScannedTicket(d)
  <2>1. SyncMovesOn
    <3>1. sync[d] \in Sync /\ sync[d].at = "clear"
      BY <1>5, BusySync DEF ClearScannedTicket
    <3>2. \A r : [sync[d] EXCEPT !.clash = @ \ {r}].at # "mark"
      BY <3>1 DEF Sync
    <3> QED
      BY <1>5, <3>2, NoMark DEF ClearScannedTicket, SyncMovesOn, Idle
  <2> QED
    BY <1>1, <1>5, <2>1, QueuesKept DEF ClearScannedTicket
<1>6. CASE StorageFails(d)
  <2>1. SyncMovesOn
    <3>1. CASE sync' = sync
      BY <1>2, <3>1
    <3>2. CASE sync' = [sync EXCEPT ![d] = Idle]
      BY <3>2, NoMark DEF SyncMovesOn, Idle
    <3>3. CASE sync[d].at = "clear" /\ \E r : sync' = [sync EXCEPT ![d].clash = @ \ {r}]
      <4>1. sync[d] \in Sync
        BY <3>3, BusySync
      <4>2. \A r : [sync[d] EXCEPT !.clash = @ \ {r}].at # "mark"
        BY <3>3, <4>1 DEF Sync
      <4> QED
        BY <3>3, <4>2, NoMark DEF SyncMovesOn
    <3> QED
      BY <1>6, <3>1, <3>2, <3>3 DEF StorageFails
  <2> QED
    BY <1>1, <1>6, <2>1, QueuesKept DEF StorageFails
<1>7. CASE Reload(d)
  <2>1. SyncMovesOn
    BY <1>7, NoMark DEF Reload, SyncMovesOn, Idle
  <2> QED
    BY <1>7, <2>1, DeviceRequests, QueuesKept DEF Reload
<1>8. ASSUME NEW c \in Code, ScanOffline(d, c) PROVE Queues'
  BY <1>1, <1>2, <1>8, QueuesKept DEF ScanOffline
<1> QED
  BY <1>3, <1>4, <1>5, <1>6, <1>7, <1>8 DEF SyncStep

LEMMA QueuesFail ==
    ASSUME TypeOK, Queues, NEW s \in Slot, req[s] # Idle, Fail(s),
           UNCHANGED <<saved, synced>>
    PROVE  Queues'
<1>1. SyncMovesOn
  BY FailEffect DEF SyncMovesOn, Idle
<1> QED
  BY <1>1, FailEffect, QueuesKept DEF Fail

LEMMA QueuesFailure ==
    ASSUME TypeOK, Queues, NEW s \in Slot
    PROVE  Disconnect(s) \/ ServerCrash(s) \/ DatabaseFails(s) => Queues'
<1> USE DEF dbVars, deviceVars
<1>1. ASSUME HangUp(s), req[s] # Idle PROVE SyncMovesOn
  <2>1. \A e \in Device : sync'[e] = sync[e] \/ sync'[e] = Idle
    BY <1>1, HangUpEffect
  <2> QED
    BY <2>1 DEF SyncMovesOn, Idle
<1>2. CASE Disconnect(s)
  BY <1>1, <1>2, FailureRequests, QueuesKept DEF Disconnect, TypeOK
<1>3. CASE ServerCrash(s)
  BY <1>1, <1>3, FailureRequests, QueuesKept DEF ServerCrash, TypeOK, SyncMovesOn
<1>4. CASE DatabaseFails(s)
  BY <1>4, QueuesFail DEF DatabaseFails
<1> QED
  BY <1>2, <1>3, <1>4

LEMMA QueuesBegin ==
    ASSUME TypeOK, Queues, NEW d \in Device, NEW s \in Slot
    PROVE  /\ \A c \in Code : ScanOnline(d, c, s) => Queues'
           /\ StartSync(d, s) => Queues'
<1> USE DEF dbVars, deviceVars, TypeOK
<1>1. ASSUME NEW c \in Code, ScanOnline(d, c, s) PROVE Queues'
  <2>1. /\ Others(s) /\ ~ Running(s, "log")' /\ ~ Running(s, "update")' /\ BatchOf(s)'
    BY <1>1, BeginRequests DEF Running, BatchOf
  <2> QED
    BY <1>1, <2>1, QueuesServed DEF ScanOnline
<1>2. ASSUME StartSync(d, s) PROVE Queues'
  <2>1. /\ Others(s) /\ req'[s].at = "look" /\ req'[s].dev = d
        /\ req'[s].todo = Unsynced(d) /\ req'[s].good = {}
    BY <1>2, BeginRequests
  <2>2. UNCHANGED <<rows, saved, synced>>
    BY <1>2 DEF StartSync
  <2>3. BatchOf(s)'
    <3>1. \A u \in saved : u.dev = d /\ UnknownTicket(u) => u \in Unsynced(d)
      BY DEF Queues, UnknownBlocksQueue, Unsynced, DeviceTypeOK, Record
    <3> QED
      BY <2>1, <2>2, <3>1 DEF BatchOf, Batch, Unsynced, UnknownTicket, TicketIn
  <2>4. AllStay \/ (~ Running(s, "log")' /\ ~ Running(s, "update")')
    BY <2>1 DEF Running
  <2>5. KnownRows'
    BY <2>1, <2>2 DEF Queues, KnownRows, UnknownTicket, TicketIn, Others, Running
  <2>6. \A x \in Slot : x # s => BatchOf(x)'
    BY <2>1, <2>2 DEF Queues, BatchOf, Batch, UnknownTicket, TicketIn, Others
  <2>7. \A e \in Device : AnswerOf(e)'
    BY <1>2, <2>2 DEF StartSync, PageTypeOK, Queues, AnswerOf, UnknownTicket, TicketIn
  <2> QED
    BY <2>2, <2>3, <2>5, <2>6, <2>7 DEF Queues, UnknownBlocksQueue, UnknownTicket, TicketIn
<1> QED
  BY <1>1, <1>2

LEMMA QueuesServe ==
    ASSUME TypeOK, Queues, NEW s \in Slot, Serve(s)
    PROVE  Queues'
<1> USE DEF TypeOK, dbVars, deviceVars
<1> DEFINE r == req[s].rec
<1>1. CASE LookUp(s)
  <2>1. UNCHANGED <<rows, sync, saved, synced>>
    BY <1>1 DEF LookUp
  <2>2. GoesOn(s) /\ req[s].op = "sync"
    BY <1>1, LookUpEffect
  <2>3. PICK x \in req[s].todo :
          \/ /\ RowsOf(x) # {} /\ req'[s].at = "look"
             /\ req'[s].todo = req[s].todo \ {x} /\ req'[s].good = req[s].good \cup {x}
          \/ /\ req'[s].at = "check" /\ req'[s].rec = x
             /\ req'[s].todo = req[s].todo /\ req'[s].good = req[s].good
    BY <1>1, LookUpEffect
  <2>4. RowsOf(x) # {} => ~ UnknownTicket(x)
    BY DEF RowsOf, Queues, KnownRows
  <2>5. BatchOf(s)
    BY DEF Queues
  <2>6. BatchOf(s)'
    BY <2>1, <2>2, <2>3, <2>4, <2>5 DEF BatchOf, Batch, GoesOn, UnknownTicket, TicketIn
  <2> QED
    BY <2>1, <2>2, <2>3, <2>6, QueuesServed DEF GoesOn, Running
<1>2. CASE CheckTicket(s)
  <2>1. UNCHANGED <<saved, synced>>
    BY <1>2 DEF CheckTicket
  <2>2. CASE Fail(s)
    BY <1>2, <2>1, <2>2, CheckTicketEffect, QueuesFail
  <2>3. CASE ~ Fail(s)
    <3>1. /\ GoesOn(s) /\ SameBatch(s) /\ Verdict(r) # "NOT_FOUND"
          /\ UNCHANGED <<rows, sync>> /\ req[s].at = "check"
      BY <1>2, <2>3, CheckTicketEffect
    <3>2. ~ UnknownTicket(r)
      <4>1. UnknownTicket(r) => Verdict(r) = "NOT_FOUND"
        BY DEF Verdict
      <4> QED
        BY <3>1, <4>1
    <3>3. BatchOf(s)'
      BY <2>1, <3>1 DEF Queues, BatchOf, Batch, GoesOn, SameBatch, UnknownTicket, TicketIn
    <3> QED
      BY <2>1, <3>1, <3>2, <3>3, QueuesServed DEF GoesOn, SameBatch
  <2> QED
    BY <2>2, <2>3
<1>3. CASE CheckIn(s)
  <2>1. /\ GoesOn(s) /\ SameBatch(s) /\ req[s].at = "update"
    BY <1>3, CheckInEffect
  <2>2. ~ UnknownTicket(r)
    BY <2>1 DEF GoesOn, Running, Queues, KnownRows
  <2>3. UNCHANGED <<rows, sync, saved, synced>>
    BY <1>3 DEF CheckIn
  <2>4. BatchOf(s)'
    BY <2>1, <2>3 DEF Queues, BatchOf, Batch, GoesOn, SameBatch, UnknownTicket, TicketIn
  <2> QED
    BY <2>1, <2>2, <2>3, <2>4, QueuesServed DEF GoesOn, SameBatch
<1>4. CASE LogVerify(s)
  <2>1. /\ Running(s, "log") /\ Others(s) /\ req'[s] = Idle
        /\ UNCHANGED <<sync, saved, synced>>
    BY <1>4, LogVerifyEffect DEF LogVerify
  <2>2. ~ UnknownTicket(r)
    BY <2>1 DEF Queues, KnownRows
  <2>3. \E row : rows' = rows \cup {row} /\ ~ UnknownTicket(row.rec)
    <3>1. ~ UnknownTicket([rec |-> r, online |-> TRUE, status |-> req[s].status].rec)
      BY <2>2
    <3> QED
      BY <1>4, <3>1 DEF LogVerify
  <2>4. BatchOf(s)' /\ ~ Running(s, "log")' /\ ~ Running(s, "update")'
    BY <2>1 DEF BatchOf, Running
  <2> QED
    BY <2>1, <2>3, <2>4, QueuesServed
<1>5. CASE LogRecord(s)
  <2>1. UNCHANGED <<saved, synced>>
    BY <1>5 DEF LogRecord
  <2>2. CASE Fail(s)
    BY <1>5, <2>1, <2>2, LogRecordEffect, QueuesFail
  <2>3. CASE ~ Fail(s)
    <3>1. /\ GoesOn(s) /\ req[s].at = "log" /\ req[s].op = "sync" /\ req'[s].at = "look"
          /\ rows' = rows \cup {[rec |-> r, online |-> FALSE, status |-> req[s].status]}
          /\ req'[s].todo = req[s].todo \ {r} /\ req'[s].good \subseteq req[s].good \cup {r}
          /\ sync' = sync
      BY <1>5, <2>3, LogRecordEffect
    <3>2. ~ UnknownTicket(r)
      BY <3>1 DEF GoesOn, Running, Queues, KnownRows
    <3>3. \E row : rows' = rows \cup {row} /\ ~ UnknownTicket(row.rec)
      <4>1. ~ UnknownTicket([rec |-> r, online |-> FALSE, status |-> req[s].status].rec)
        BY <3>2
      <4> QED
        BY <3>1, <4>1
    <3>4. BatchOf(s)
      BY DEF Queues
    <3>5. BatchOf(s)'
      BY <2>1, <3>1, <3>2, <3>4 DEF BatchOf, Batch, GoesOn, UnknownTicket, TicketIn
    <3> QED
      BY <2>1, <3>1, <3>3, <3>5, QueuesServed DEF GoesOn, Running
  <2> QED
    BY <2>2, <2>3
<1>6. CASE AnswerSync(s)
  <2>1. UNCHANGED <<rows, saved, synced>>
    BY <1>6 DEF AnswerSync
  <2>2. /\ req[s] # Idle /\ req[s].op = "sync" /\ req[s].todo = {} /\ AllStay
    BY <1>6, AnswerSyncEffect
  <2>7. \A d \in Device : sync'[d] = sync[d]
                         \/ (d = req[s].dev /\ sync'[d].good = req[s].good)
    <3>1. \A d \in Device :
            \/ sync'[d] = sync[d]
            \/ d = req[s].dev /\ sync'[d] = [at |-> "mark", good |-> req[s].good,
                                             clash |-> req[s].clash]
      BY <1>6, AnswerSyncEffect
    <3> QED
      BY <3>1
  <2>3. \A x \in req[s].good :
          /\ x \in saved /\ x.dev = req[s].dev
          /\ \A u \in saved : u.dev = req[s].dev /\ UnknownTicket(u) => x.n < u.n
    BY <2>2 DEF Queues, BatchOf, Batch
  <2>4. \A d \in Device : AnswerOf(d)'
    BY <2>1, <2>3, <2>7 DEF Queues, AnswerOf, UnknownTicket, TicketIn
  <2>5. KnownRows' /\ \A x \in Slot : BatchOf(x)'
    <3>1. KnownRows'
      BY <2>1, <2>2 DEF Queues, KnownRows, UnknownTicket, TicketIn, AllStay, Stays, Running
    <3>2. \A x \in Slot : BatchOf(x)'
      BY <2>1, <2>2 DEF Queues, BatchOf, Batch, UnknownTicket, TicketIn, AllStay, Stays
    <3> QED
      BY <3>1, <3>2
  <2> QED
    BY <2>1, <2>4, <2>5 DEF Queues, UnknownBlocksQueue, UnknownTicket, TicketIn
<1> QED
  BY <1>1, <1>2, <1>3, <1>4, <1>5, <1>6 DEF Serve

(* What is in the queues, in the batches and in the answers fits together. *)
THEOREM QueuesInvariant == Spec => []Queues
<1>1. Init => Queues
  BY DEF Init, Queues, UnknownBlocksQueue, KnownRows, BatchOf, AnswerOf, Running, Idle
<1>2. TypeOK /\ Pages /\ Queues /\ [Next]_vars => Queues'
  <2> SUFFICES ASSUME TypeOK, Pages, Queues, [Next]_vars PROVE Queues'
    OBVIOUS
  <2>1. CASE UNCHANGED vars
    BY <2>1, QueuesKept DEF vars, dbVars, deviceVars, AllStay, Stays, SyncMovesOn
  <2>2. CASE Next
    BY <2>2, QueuesDevice, QueuesFailure, QueuesBegin, QueuesServe DEF Next
  <2> QED
    BY <2>1, <2>2
<1> QED
  BY <1>1, <1>2, TypeCorrect, PagesInvariant, PTL DEF Spec

(***************************************************************************)
(* handleBatchSync: a record whose ticket the server does not know fails   *)
(* every batch it is in, so nothing scanned after it is ever synced.       *)
(***************************************************************************)
THEOREM UnknownBlocks == Spec => []UnknownBlocksQueue
<1>1. Queues => UnknownBlocksQueue
  BY DEF Queues
<1> QED
  BY <1>1, QueuesInvariant, PTL

-----------------------------------------------------------------------------
(***************************************************************************)
(* OfflineOnce: a ticket a device let in offline is in its guard, unless a *)
(* conflict took it out again; whatever is about to take it out, or goes   *)
(* past the guard, has the conflict's row behind it.                       *)
(***************************************************************************)
Conflict(d, t) ==
    \E row \in rows : /\ row.rec.dev = d /\ TicketIn(row.rec) = t
                      /\ row.status = "REJECTED_CONFLICT"

Offline == (shown \cap saved) \ failed
Admitted(d, t) == \E r \in Offline : r.dev = d /\ TicketIn(r) = t

PastGuard(d) ==
    /\ scan[d] # Idle /\ scan[d].at \in {"save", "mark"}
    /\ scan[d].rec \notin failed /\ Admitted(d, TicketIn(scan[d].rec))
    => Conflict(d, TicketIn(scan[d].rec))

ClashOf(s) ==
    req[s] # Idle => \A r \in req[s].clash : Conflict(req[s].dev, TicketIn(r))

ClearOf(d) ==
    sync[d] # Idle => \A r \in sync[d].clash : Conflict(d, TicketIn(r))

Guarded ==
    \A d \in Device, t \in Ticket :
        Admitted(d, t) => <<d, t>> \in guard \/ Conflict(d, t)

AdmittedOnce ==
    /\ OfflineOnce
    /\ Guarded
    /\ \A d \in Device : PastGuard(d)
    /\ \A s \in Slot : ClashOf(s)
    /\ \A d \in Device : ClearOf(d)

(* At most clash sets the devices and requests already had. *)
NoNewClash ==
    /\ \A s \in Slot : req'[s] # Idle =>
         \/ req'[s].clash = {}
         \/ req[s] # Idle /\ req'[s].dev = req[s].dev /\ req'[s].clash \subseteq req[s].clash
    /\ \A d \in Device : sync'[d] # Idle =>
         \/ sync'[d].clash = {}
         \/ sync[d] # Idle /\ sync'[d].clash \subseteq sync[d].clash
         \/ \E s \in Slot : /\ req[s] # Idle /\ req[s].dev = d
                            /\ sync'[d].clash = req[s].clash

LEMMA ConflictStays ==
    ASSUME rows \subseteq rows', NEW d, NEW t, Conflict(d, t)
    PROVE  Conflict(d, t)'
BY DEF Conflict, TicketIn

LEMMA ClashesKept ==
    ASSUME AdmittedOnce, NoNewClash, rows \subseteq rows'
    PROVE  (\A s \in Slot : ClashOf(s)') /\ (\A d \in Device : ClearOf(d)')
<1>1. ASSUME NEW s \in Slot, req'[s] # Idle, NEW r \in req'[s].clash
      PROVE  Conflict(req'[s].dev, TicketIn(r))
  <2>1. req[s] # Idle /\ req'[s].dev = req[s].dev /\ r \in req[s].clash
    BY <1>1 DEF NoNewClash
  <2>2. Conflict(req[s].dev, TicketIn(r))
    BY <2>1 DEF AdmittedOnce, ClashOf
  <2> QED
    BY <2>1, <2>2 DEF Conflict, TicketIn
<1>2. ASSUME NEW d \in Device, sync'[d] # Idle, NEW r \in sync'[d].clash
      PROVE  Conflict(d, TicketIn(r))
  <2>1. CASE sync[d] # Idle /\ r \in sync[d].clash
    BY <2>1 DEF AdmittedOnce, ClearOf
  <2>2. ASSUME NEW s \in Slot, req[s] # Idle, req[s].dev = d, sync'[d].clash = req[s].clash
        PROVE  Conflict(d, TicketIn(r))
    BY <1>2, <2>2 DEF AdmittedOnce, ClashOf
  <2> QED
    BY <1>2, <2>1, <2>2 DEF NoNewClash
<1>3. \A s \in Slot : ClashOf(s)'
  BY <1>1 DEF ClashOf, Conflict, TicketIn
<1>4. \A d \in Device : ClearOf(d)'
  BY <1>2 DEF ClearOf, Conflict, TicketIn
<1> QED
  BY <1>3, <1>4

(* The scans let in, and the guard, stay; scans stay past the guard. *)
LEMMA AdmittedKept ==
    ASSUME AdmittedOnce, rows \subseteq rows', failed \subseteq failed',
           Offline' \subseteq Offline, guard \subseteq guard',
           \A d \in Device :
             /\ scan'[d] # Idle /\ scan'[d].at \in {"save", "mark"}
             /\ scan'[d].rec \notin failed'
             => /\ scan[d] # Idle /\ scan[d].at \in {"save", "mark"}
                /\ scan'[d].rec = scan[d].rec
    PROVE  OfflineOnce' /\ Guarded' /\ \A d \in Device : PastGuard(d)'
<1>1. \A d, t : Admitted(d, t)' => Admitted(d, t)
  BY DEF Admitted, TicketIn
<1>2. OfflineOnce'
  BY DEF AdmittedOnce, OfflineOnce, Offline, TicketIn
<1>3. Guarded'
  BY <1>1, ConflictStays DEF AdmittedOnce, Guarded
<1>4. ASSUME NEW d \in Device, scan'[d] # Idle, scan'[d].at \in {"save", "mark"},
             scan'[d].rec \notin failed', Admitted(d, TicketIn(scan[d].rec))'
      PROVE  Conflict(d, TicketIn(scan[d].rec))'
  <2>1. scan[d] # Idle /\ scan[d].at \in {"save", "mark"} /\ scan'[d].rec = scan[d].rec
    BY <1>4
  <2>2. Admitted(d, TicketIn(scan[d].rec))
    BY <1>4, <2>1 DEF Admitted, TicketIn
  <2>3. Conflict(d, TicketIn(scan[d].rec))
    BY <1>4, <2>1, <2>2 DEF AdmittedOnce, PastGuard
  <2> QED
    BY <2>1, <2>3 DEF Conflict, TicketIn
<1> QED
  BY <1>2, <1>3, <1>4 DEF PastGuard

LEMMA OnceKept ==
    ASSUME AdmittedOnce, rows \subseteq rows', failed \subseteq failed', NoNewClash,
           Offline' \subseteq Offline, guard \subseteq guard',
           \A d \in Device :
             /\ scan'[d] # Idle /\ scan'[d].at \in {"save", "mark"}
             /\ scan'[d].rec \notin failed'
             => /\ scan[d] # Idle /\ scan[d].at \in {"save", "mark"}
                /\ scan'[d].rec = scan[d].rec
    PROVE  AdmittedOnce'
BY AdmittedKept, ClashesKept DEF AdmittedOnce

(* Requests and syncs as they are. *)
LEMMA SameClash ==
    ASSUME AllStay, \A d \in Device : sync'[d] = sync[d] \/ sync'[d] = Idle
    PROVE  NoNewClash
BY DEF AllStay, Stays, NoNewClash

(* A scan that is not past the guard yet. *)
ScansBack ==
    \A d \in Device :
      scan'[d] # Idle /\ scan'[d].at \in {"save", "mark"} => scan'[d] = scan[d]

LEMMA OnceQuiet ==
    ASSUME AdmittedOnce, rows \subseteq rows', NoNewClash, ScansBack,
           UNCHANGED <<failed, saved, shown, guard>>
    PROVE  AdmittedOnce'
<1>1. Offline' = Offline
  BY DEF Offline
<1> QED
  BY <1>1, OnceKept DEF ScansBack

LEMMA OnceScan ==
    ASSUME TypeOK, Pages, AdmittedOnce, NEW d \in Device, ScanStep(d)
    PROVE  AdmittedOnce'
<1> USE DEF TypeOK, dbVars, deviceVars
<1> DEFINE r == scan[d].rec
           t == TicketIn(r)
<1>1. /\ scan[d] \in Scan /\ scan[d] # Idle /\ r \in Record /\ t \in Ticket
      /\ UNCHANGED <<rows, req, sync, failed, synced>>
  BY BusyScan, RecordTicket DEF ScanStep, CheckGuard, SaveCheckinLog, MarkTicketScanned, Idle
<1>2. NoNewClash
  BY <1>1, SameClash DEF AllStay, Stays
<1>3. CASE CheckGuard(d)
  <2>1. /\ scan' = [scan EXCEPT ![d] = IF <<d, t>> \in guard THEN Idle
                                       ELSE [scan[d] EXCEPT !.at = "save"]]
        /\ UNCHANGED <<saved, shown, guard>>
    BY <1>3 DEF CheckGuard, PageTypeOK
  <2>2. CASE <<d, t>> \in guard
    BY <1>1, <1>2, <2>1, <2>2, OnceQuiet DEF PageTypeOK, ScansBack
  <2>3. CASE <<d, t>> \notin guard
    <3>1. /\ scan'[d].rec = r /\ \A e \in Device : e # d => scan'[e] = scan[e]
      BY <1>1, <2>1, <2>3 DEF PageTypeOK, Scan
    <3>2. \A x, u : (Admitted(x, u)' <=> Admitted(x, u)) /\ (Conflict(x, u)' <=> Conflict(x, u))
      BY <1>1, <2>1 DEF Admitted, Offline, Conflict, TicketIn
    <3>3. Admitted(d, t) => Conflict(d, t)
      BY <1>1, <2>3 DEF AdmittedOnce, Guarded
    <3>4. PastGuard(d)'
      BY <3>1, <3>2, <3>3 DEF PastGuard, TicketIn
    <3>5. \A e \in Device : e # d => PastGuard(e)'
      BY <1>1, <3>1, <3>2 DEF AdmittedOnce, PastGuard, TicketIn
    <3>6. OfflineOnce' /\ Guarded'
      BY <1>1, <2>1, <3>2 DEF AdmittedOnce, OfflineOnce, Guarded, TicketIn
    <3> QED
      BY <1>1, <1>2, <3>4, <3>5, <3>6, ClashesKept DEF AdmittedOnce
  <2> QED
    BY <2>2, <2>3
<1>4. CASE SaveCheckinLog(d)
  <2>1. /\ saved' = saved \cup {r} /\ UNCHANGED <<shown, guard>>
        /\ scan[d].at = "save" /\ scan'[d].at = "mark" /\ scan'[d].rec = r
        /\ \A e \in Device : e # d => scan'[e] = scan[e]
    BY <1>1, <1>4 DEF SaveCheckinLog, PageTypeOK, Scan
  <2>2. r \notin shown
    BY <1>1 DEF Pages, PageOf, Record, PageTypeOK
  <2>3. Offline' = Offline
    BY <1>1, <2>1, <2>2 DEF Offline
  <2> QED
    BY <1>1, <1>2, <2>1, <2>3, OnceKept
<1>5. CASE MarkTicketScanned(d)
  <2>1. /\ shown' = shown \cup {r} /\ guard' = guard \cup {<<d, t>>}
        /\ saved' = saved /\ scan[d].at = "mark" /\ scan'[d] = Idle
        /\ \A e \in Device : e # d => scan'[e] = scan[e]
    BY <1>5 DEF MarkTicketScanned, PageTypeOK
  <2>2. r.dev = d
    BY <1>1 DEF Pages, PageOf
  <2>3. \A e, u : Admitted(e, u)' => Admitted(e, u) \/ (e = d /\ u = t)
    BY <1>1, <2>1, <2>2 DEF Admitted, Offline, TicketIn
  <2>4. \A e, u : Conflict(e, u)' <=> Conflict(e, u)
    BY <1>1 DEF Conflict, TicketIn
  <2>5. Guarded'
    BY <2>1, <2>3, <2>4 DEF AdmittedOnce, Guarded
  <2>6. \A e \in Device : PastGuard(e)'
    BY <1>1, <2>1, <2>3, <2>4 DEF AdmittedOnce, PastGuard, TicketIn
  <2>7. r \notin failed /\ Admitted(d, t) => Conflict(d, t)
    BY <1>1, <2>1 DEF AdmittedOnce, PastGuard
  <2>8. OfflineOnce'
    <3> SUFFICES ASSUME NEW a \in Offline', NEW b \in Offline', a.dev = b.dev,
                        TicketIn(a) = TicketIn(b), a # b
                 PROVE  Conflict(a.dev, TicketIn(a))
      BY <1>1 DEF OfflineOnce, Offline, Conflict, TicketIn
    <3>1. CASE a \in Offline /\ b \in Offline
      BY <3>1 DEF AdmittedOnce, OfflineOnce, Offline, Conflict
    <3>2. CASE ~ (a \in Offline /\ b \in Offline)
      <4>1. r \notin failed /\ a.dev = d /\ TicketIn(a) = t
        BY <1>1, <2>1, <2>2, <3>2 DEF Offline
      <4>2. Admitted(d, t)
        BY <1>1, <2>1, <4>1 DEF Offline, Admitted
      <4> QED
        BY <2>7, <4>1, <4>2
    <3> QED
      BY <3>1, <3>2
  <2> QED
    BY <1>1, <1>2, <2>5, <2>6, <2>8, ClashesKept DEF AdmittedOnce
<1> QED
  BY <1>3, <1>4, <1>5 DEF ScanStep

(* A conflict less to clear. *)
LEMMA SmallerClash ==
    ASSUME PageTypeOK, NEW d \in Device, sync[d] \in Sync, NEW r,
           sync' = [sync EXCEPT ![d].clash = @ \ {r}]
    PROVE  /\ sync'[d].clash \subseteq sync[d].clash
           /\ \A e \in Device : e # d => sync'[e] = sync[e]
<1>1. sync' = [sync EXCEPT ![d] = [sync[d] EXCEPT !.clash = @ \ {r}]]
  BY DEF PageTypeOK
<1> QED
  BY <1>1 DEF PageTypeOK, Sync

LEMMA OnceSync ==
    ASSUME TypeOK, AdmittedOnce, NEW d \in Device, SyncStep(d)
    PROVE  AdmittedOnce'
<1> USE DEF TypeOK, dbVars, deviceVars
<1>1. req' = req => AllStay
  BY DEF AllStay, Stays
<1>2. sync[d] \in Sync /\ sync[d] # Idle
  BY BusySync DEF SyncStep, MarkSynced, ClearScannedTicket, Idle
<1>3. CASE MarkSynced(d)
  <2>1. sync'[d].clash = sync[d].clash /\ \A e \in Device : e # d => sync'[e] = sync[e]
    BY <1>2, <1>3 DEF MarkSynced, PageTypeOK, Sync
  <2>2. NoNewClash
    BY <1>2, <1>3, <2>1 DEF MarkSynced, NoNewClash
  <2> QED
    BY <1>3, <2>2, OnceQuiet DEF MarkSynced, ScansBack
<1>4. CASE ClearScannedTicket(d)
  <2>1. UNCHANGED <<rows, req, scan, failed, saved, shown>>
    BY <1>4 DEF ClearScannedTicket
  <2>2. CASE guard' = guard
    <3>1. \A e \in Device : sync'[e] = sync[e] \/ sync'[e] = Idle
                            \/ (e = d /\ sync'[e].clash \subseteq sync[d].clash)
      <4>1. CASE sync' = [sync EXCEPT ![d] = Idle]
        BY <4>1 DEF PageTypeOK
      <4>2. CASE \E r : sync' = [sync EXCEPT ![d].clash = @ \ {r}]
        BY <1>2, <4>2, SmallerClash
      <4> QED
        BY <1>4, <4>1, <4>2 DEF ClearScannedTicket
    <3>2. NoNewClash
      BY <1>2, <2>1, <3>1 DEF NoNewClash
    <3> QED
      BY <2>1, <2>2, <3>2, OnceQuiet DEF ScansBack
  <2>3. CASE guard' # guard
    <3>1. PICK r \in sync[d].clash :
            /\ guard' = guard \ {<<d, TicketIn(r)>>}
            /\ sync' = [sync EXCEPT ![d] = [sync[d] EXCEPT !.clash = @ \ {r}]]
      BY <1>4, <2>3 DEF ClearScannedTicket, PageTypeOK
    <3>2. sync'[d].clash \subseteq sync[d].clash /\ \A e \in Device : e # d => sync'[e] = sync[e]
      BY <1>2, <3>1 DEF PageTypeOK, Sync
    <3>3. NoNewClash
      BY <1>2, <2>1, <3>2 DEF NoNewClash
    <3>4. Conflict(d, TicketIn(r))
      BY <1>2, <3>1 DEF AdmittedOnce, ClearOf
    <3>5. \A x, u : (Admitted(x, u)' <=> Admitted(x, u)) /\ (Conflict(x, u)' <=> Conflict(x, u))
      BY <2>1 DEF Admitted, Offline, Conflict, TicketIn
    <3>6. Guarded'
      BY <3>1, <3>4, <3>5 DEF AdmittedOnce, Guarded
    <3>7. OfflineOnce' /\ \A e \in Device : PastGuard(e)'
      BY <2>1, <3>5 DEF AdmittedOnce, OfflineOnce, PastGuard, TicketIn
    <3> QED
      BY <2>1, <3>3, <3>6, <3>7, ClashesKept DEF AdmittedOnce
  <2> QED
    BY <2>2, <2>3
<1> QED
  BY <1>3, <1>4 DEF SyncStep

LEMMA OnceDevice ==
    ASSUME TypeOK, AdmittedOnce, NEW d \in Device
    PROVE  /\ StorageFails(d) \/ Reload(d) => AdmittedOnce'
           /\ \A c \in Code : ScanOffline(d, c) => AdmittedOnce'
<1> USE DEF TypeOK, dbVars, deviceVars
<1>1. req' = req => AllStay
  BY DEF AllStay, Stays
<1>2. CASE StorageFails(d)
  <2>1. UNCHANGED <<rows, req, saved, guard>>
    BY <1>2 DEF StorageFails
  <2>2. CASE ~ (UNCHANGED <<scan, shown, failed>> /\ sync[d].at \in {"mark", "clear"})
    <3>0. scan[d].at \in {"guard", "save", "mark"} /\ failed' = failed \cup {scan[d].rec}
      BY <1>2, <2>2 DEF StorageFails
    <3>1. /\ sync' = sync /\ shown' \subseteq shown \cup {scan[d].rec}
          /\ \/ scan' = [scan EXCEPT ![d] = [scan[d] EXCEPT !.at = "save"]]
             \/ scan' = [scan EXCEPT ![d] = Idle]
      BY <1>2, <2>2 DEF StorageFails, PageTypeOK
    <3>2. Offline' \subseteq Offline
      BY <2>1, <3>0, <3>1 DEF Offline
    <3>3. /\ scan'[d] = Idle \/ scan'[d].rec = scan[d].rec
          /\ \A e \in Device : e # d => scan'[e] = scan[e]
      BY <3>0, <3>1, BusyScan DEF PageTypeOK, Scan
    <3>4. NoNewClash
      BY <1>1, <2>1, <3>1, SameClash
    <3> QED
      BY <2>1, <3>0, <3>2, <3>3, <3>4, OnceKept
  <2>3. CASE UNCHANGED <<scan, shown, failed>> /\ sync[d].at \in {"mark", "clear"}
    <3>1. sync[d] \in Sync /\ sync[d] # Idle
      BY <2>3, BusySync DEF Idle
    <3>2. \A e \in Device : sync'[e] = sync[e] \/ sync'[e] = Idle
                            \/ (e = d /\ sync'[e].clash \subseteq sync[d].clash)
      <4>1. CASE sync' = [sync EXCEPT ![d] = Idle]
        BY <4>1 DEF PageTypeOK
      <4>2. CASE \E r : sync' = [sync EXCEPT ![d].clash = @ \ {r}]
        BY <3>1, <4>2, SmallerClash
      <4> QED
        BY <1>2, <2>3, <4>1, <4>2 DEF StorageFails
    <3>3. NoNewClash
      BY <2>1, <3>1, <3>2 DEF NoNewClash
    <3> QED
      BY <2>1, <2>3, <3>3, OnceQuiet DEF ScansBack
  <2> QED
    BY <1>2, <2>2, <2>3 DEF StorageFails
<1>3. CASE Reload(d)
  <2>1. /\ UNCHANGED <<rows, failed, saved, shown, guard>>
        /\ scan' = [scan EXCEPT ![d] = Idle] /\ sync' = [sync EXCEPT ![d] = Idle]
    BY <1>3 DEF Reload
  <2>2. NoNewClash /\ ScansBack
    BY <1>3, <2>1, DeviceRequests, SameClash DEF PageTypeOK, ScansBack
  <2> QED
    BY <2>1, <2>2, OnceQuiet
<1>4. ASSUME NEW c \in Code, ScanOffline(d, c) PROVE AdmittedOnce'
  <2>1. /\ UNCHANGED <<rows, failed, saved, shown, guard, req, sync>>
        /\ scan' = [scan EXCEPT ![d] = [at |-> "guard", rec |-> NextScan(d, c)]]
    BY <1>4 DEF ScanOffline, BeginScan
  <2>2. NoNewClash /\ ScansBack
    BY <1>1, <2>1, SameClash DEF PageTypeOK, ScansBack
  <2> QED
    BY <2>1, <2>2, OnceQuiet
<1> QED
  BY <1>2, <1>3, <1>4

LEMMA OnceFail ==
    ASSUME TypeOK, AdmittedOnce, NEW s \in Slot, req[s] # Idle, Fail(s),
           UNCHANGED <<failed, saved, shown, guard>>
    PROVE  AdmittedOnce'
<1>1. ScansBack
  BY FailEffect DEF ScansBack
<1>2. AllStay /\ \A d \in Device : sync'[d] = sync[d] \/ sync'[d] = Idle
  BY FailEffect
<1> QED
  BY <1>1, <1>2, SameClash, OnceQuiet DEF Fail

LEMMA OnceFailure ==
    ASSUME TypeOK, AdmittedOnce, NEW s \in Slot
    PROVE  Disconnect(s) \/ ServerCrash(s) \/ DatabaseFails(s) => AdmittedOnce'
<1> USE DEF dbVars, deviceVars
<1>1. ASSUME HangUp(s), req[s] # Idle, AllStay PROVE NoNewClash /\ ScansBack
  <2>1. \A d \in Device : sync'[d] = sync[d] \/ sync'[d] = Idle
    BY <1>1, HangUpEffect
  <2>2. \A d \in Device : scan'[d] = scan[d] \/ scan'[d].at = "guard"
    <3>1. \A d \in Device : scan'[d] = scan[d]
                            \/ scan'[d] = [at |-> "guard", rec |-> req[s].rec]
      BY <1>1, HangUpEffect
    <3> QED
      BY <3>1
  <2> QED
    BY <1>1, <2>1, <2>2, SameClash DEF ScansBack
<1>2. CASE Disconnect(s)
  BY <1>1, <1>2, FailureRequests, OnceQuiet DEF Disconnect, TypeOK
<1>3. CASE ServerCrash(s)
  <2>1. AllStay /\ req[s] # Idle /\ UNCHANGED <<rows, failed, saved, shown, guard>>
    BY <1>3, FailureRequests DEF ServerCrash, TypeOK
  <2>2. NoNewClash /\ ScansBack
    BY <1>1, <1>3, <2>1, SameClash DEF ServerCrash, ScansBack
  <2> QED
    BY <2>1, <2>2, OnceQuiet
<1>4. CASE DatabaseFails(s)
  BY <1>4, OnceFail DEF DatabaseFails
<1> QED
  BY <1>2, <1>3, <1>4

LEMMA OnceBegin ==
    ASSUME TypeOK, AdmittedOnce, NEW d \in Device, NEW s \in Slot
    PROVE  /\ \A c \in Code : ScanOnline(d, c, s) => AdmittedOnce'
           /\ StartSync(d, s) => AdmittedOnce'
<1> USE DEF dbVars, deviceVars, TypeOK
<1>1. ASSUME NEW c \in Code, ScanOnline(d, c, s) PROVE AdmittedOnce'
  <2>1. /\ UNCHANGED <<rows, failed, saved, shown, guard, sync>>
        /\ scan' = [scan EXCEPT ![d] = [at |-> "verify", rec |-> NextScan(d, c)]]
    BY <1>1 DEF ScanOnline, BeginScan
  <2>2. NoNewClash
    BY <1>1, <2>1, BeginRequests DEF NoNewClash, Others
  <2>3. ScansBack
    BY <2>1 DEF PageTypeOK, ScansBack
  <2> QED
    BY <2>1, <2>2, <2>3, OnceQuiet
<1>2. ASSUME StartSync(d, s) PROVE AdmittedOnce'
  <2>1. /\ UNCHANGED <<rows, failed, saved, shown, guard, scan>>
        /\ sync' = [sync EXCEPT ![d] = [at |-> "wait", good |-> {}, clash |-> {}]]
    BY <1>2 DEF StartSync
  <2>2. /\ \A e \in Device : sync'[e] = sync[e] \/ sync'[e].clash = {}
        /\ \A x \in Slot : req'[x] = req[x] \/ req'[x].clash = {}
    BY <1>2, <2>1, BeginRequests DEF Others, PageTypeOK
  <2>3. NoNewClash
    BY <2>2 DEF NoNewClash
  <2> QED
    BY <2>1, <2>3, OnceQuiet DEF ScansBack
<1> QED
  BY <1>1, <1>2

(* One slot goes on, without a conflict. *)
LEMMA GoesOnClash ==
    ASSUME NEW s \in Slot, GoesOn(s), req'[s].clash = req[s].clash, sync' = sync
    PROVE  NoNewClash
BY DEF GoesOn, Others, NoNewClash

LEMMA OnceServe ==
    ASSUME TypeOK, Pages, Queues, AdmittedOnce, NEW s \in Slot, Serve(s)
    PROVE  AdmittedOnce'
<1> USE DEF TypeOK, dbVars, deviceVars
<1> DEFINE r == req[s].rec
<1>1. scan' = scan => ScansBack
  BY DEF ScansBack
<1>2. CASE LookUp(s)
  <2>1. /\ UNCHANGED <<rows, failed, saved, shown, guard, scan, sync>>
    BY <1>2 DEF LookUp
  <2> QED
    BY <1>1, <1>2, <2>1, LookUpEffect, GoesOnClash, OnceQuiet
<1>3. CASE CheckTicket(s)
  <2>1. UNCHANGED <<failed, saved, shown, guard>>
    BY <1>3 DEF CheckTicket
  <2>2. CASE Fail(s)
    BY <1>3, <2>1, <2>2, CheckTicketEffect, OnceFail
  <2>3. CASE ~ Fail(s)
    <3>1. GoesOn(s) /\ SameBatch(s) /\ UNCHANGED <<rows, scan, sync>>
      BY <1>3, <2>3, CheckTicketEffect
    <3> QED
      BY <1>1, <2>1, <3>1, GoesOnClash, OnceQuiet DEF SameBatch
  <2> QED
    BY <2>2, <2>3
<1>4. CASE CheckIn(s)
  <2>1. UNCHANGED <<rows, failed, saved, shown, guard, scan, sync>>
    BY <1>4 DEF CheckIn
  <2> QED
    BY <1>1, <1>4, <2>1, CheckInEffect, GoesOnClash, OnceQuiet DEF SameBatch
<1>5. CASE LogVerify(s)
  <2>1. /\ UNCHANGED <<failed, saved, guard, sync>> /\ rows \subseteq rows'
    BY <1>5 DEF LogVerify
  <2>2. /\ AllStay /\ req[s] # Idle /\ req[s].op = "verify" /\ req[s].dev \in Device
    BY <1>5, LogVerifyEffect, BusyRequest
  <2>3. NoNewClash
    BY <2>1, <2>2, SameClash
  <2>4. ScansBack
    BY <1>5, <2>2 DEF LogVerify, PageTypeOK, ScansBack
  <2>5. CASE shown' = shown
    BY <2>1, <2>3, <2>4, <2>5, OnceQuiet
  <2>6. CASE shown' # shown
    <3>1. Hears(s) /\ shown' = shown \cup {r}
      BY <1>5, <2>2, <2>6 DEF LogVerify, Hears
    <3>2. scan[req[s].dev] # Idle /\ scan[req[s].dev].rec = r /\ scan[req[s].dev].at = "verify"
      BY <3>1 DEF Pages, CallOf
    <3>3. r \notin saved
      BY <2>2, <3>2 DEF Pages, PageOf, PageTypeOK
    <3>4. Offline' = Offline
      BY <2>1, <3>1, <3>3 DEF Offline
    <3> QED
      BY <2>1, <2>3, <2>4, <3>4, OnceKept DEF ScansBack
  <2> QED
    BY <2>5, <2>6
<1>6. CASE LogRecord(s)
  <2>1. UNCHANGED <<failed, saved, shown, guard>>
    BY <1>6 DEF LogRecord
  <2>2. CASE Fail(s)
    BY <1>6, <2>1, <2>2, LogRecordEffect, OnceFail
  <2>3. CASE ~ Fail(s)
    <3>1. /\ GoesOn(s) /\ UNCHANGED <<scan, sync>> /\ req[s].at = "log" /\ req[s].op = "sync"
          /\ rows' = rows \cup {[rec |-> r, online |-> FALSE, status |-> req[s].status]}
          /\ req'[s].clash = IF req[s].status = "REJECTED_CONFLICT"
                             THEN req[s].clash \cup {r} ELSE req[s].clash
      BY <1>6, <2>3, LogRecordEffect
    <3>2. CASE req[s].status # "REJECTED_CONFLICT"
      BY <1>1, <2>1, <3>1, <3>2, GoesOnClash, OnceQuiet
    <3>3. CASE req[s].status = "REJECTED_CONFLICT"
      <4>1. r \in req[s].todo /\ r.dev = req[s].dev
        BY <3>1 DEF Queues, BatchOf, Batch, GoesOn
      <4>2. \A y \in req'[s].clash : \E row \in rows' :
              /\ row.rec.dev = req[s].dev /\ TicketIn(row.rec) = TicketIn(y)
              /\ row.status = "REJECTED_CONFLICT"
        <5>1. \E row \in rows' : /\ row.rec.dev = r.dev /\ TicketIn(row.rec) = TicketIn(r)
                                 /\ row.status = "REJECTED_CONFLICT"
          <6>1. [rec |-> r, online |-> FALSE, status |-> "REJECTED_CONFLICT"] \in rows'
            BY <3>1, <3>3
          <6> QED
            BY <6>1
        <5>2. ASSUME NEW y \in req[s].clash PROVE Conflict(req[s].dev, TicketIn(y))
          BY <3>1 DEF GoesOn, AdmittedOnce, ClashOf
        <5> QED
          BY <3>1, <3>3, <4>1, <5>1, <5>2 DEF Conflict
      <4>3. OfflineOnce' /\ Guarded' /\ \A d \in Device : PastGuard(d)'
        BY <2>1, <3>1, AdmittedKept DEF Offline
      <4>4. ClashOf(s)'
        BY <3>1, <4>2 DEF ClashOf, Conflict, GoesOn, TicketIn
      <4>5. ASSUME NEW x \in Slot, x # s PROVE ClashOf(x)'
        <5>1. req'[x] = req[x]
          BY <3>1, <4>5 DEF GoesOn, Others
        <5> QED
          BY <3>1, <5>1 DEF AdmittedOnce, ClashOf, Conflict, TicketIn
      <4>6. \A d \in Device : ClearOf(d)'
        BY <3>1 DEF AdmittedOnce, ClearOf, Conflict, TicketIn
      <4> QED
        BY <4>3, <4>4, <4>5, <4>6 DEF AdmittedOnce
    <3> QED
      BY <3>2, <3>3
  <2> QED
    BY <2>2, <2>3
<1>7. CASE AnswerSync(s)
  <2>1. UNCHANGED <<rows, failed, saved, shown, guard, scan>>
    BY <1>7 DEF AnswerSync
  <2>2. req[s] # Idle /\ AllStay
    BY <1>7, AnswerSyncEffect
  <2>3. \A d \in Device : sync'[d] = sync[d]
                         \/ (d = req[s].dev /\ sync'[d].clash = req[s].clash)
    <3>1. \A d \in Device :
            \/ sync'[d] = sync[d]
            \/ d = req[s].dev /\ sync'[d] = [at |-> "mark", good |-> req[s].good,
                                             clash |-> req[s].clash]
      BY <1>7, AnswerSyncEffect
    <3> QED
      BY <3>1
  <2>4. NoNewClash
    BY <2>2, <2>3 DEF NoNewClash, AllStay, Stays
  <2> QED
    BY <1>1, <2>1, <2>4, OnceQuiet
<1> QED
  BY <1>2, <1>3, <1>4, <1>5, <1>6, <1>7 DEF Serve

(***************************************************************************)
(* hasTicketBeenScanned, markTicketScanned, clearScannedTicket: a device   *)
(* lets a ticket in twice while offline only after a conflict on it, with  *)
(* syncs, lost calls, reloads and failing stores in between.               *)
(***************************************************************************)
THEOREM GuardHolds == Spec => []OfflineOnce
<1>1. Init => AdmittedOnce
  BY DEF Init, AdmittedOnce, OfflineOnce, Guarded, Admitted, Offline, PastGuard,
         ClashOf, ClearOf
<1>2. TypeOK /\ Pages /\ Queues /\ AdmittedOnce /\ [Next]_vars => AdmittedOnce'
  <2> SUFFICES ASSUME TypeOK, Pages, Queues, AdmittedOnce, [Next]_vars
               PROVE  AdmittedOnce'
    OBVIOUS
  <2>1. CASE UNCHANGED vars
    BY <2>1, OnceQuiet, SameClash DEF vars, dbVars, deviceVars, AllStay, Stays, ScansBack
  <2>2. CASE Next
    BY <2>2, OnceScan, OnceSync, OnceDevice, OnceFailure, OnceBegin, OnceServe DEF Next
  <2> QED
    BY <2>1, <2>2
<1>3. AdmittedOnce => OfflineOnce
  BY DEF AdmittedOnce
<1> QED
  BY <1>1, <1>2, <1>3, TypeCorrect, PagesInvariant, QueuesInvariant, PTL DEF Spec

-----------------------------------------------------------------------------
(***************************************************************************)
(* LogTellsTruth: while every call is waited for and nothing stops, a      *)
(* device has one batch under way, a record is in one request at a time,   *)
(* and the request is the first to write its row.                          *)
(***************************************************************************)
Batching(s) == req[s] # Idle /\ req[s].op = "sync"

Listening ==
    /\ \A s \in Slot : req[s] # Idle => req[s].heard
    /\ \A s \in Slot : Batching(s) =>
         /\ sync[req[s].dev].at = "wait"
         /\ \A x \in Slot : Batching(x) /\ req[x].dev = req[s].dev => x = s

FirstRow(s) == Batching(s) /\ req[s].at # "look" => RowsOf(req[s].rec) = {}

RowApart(row) ==
    IF row.online
    THEN /\ row.rec \notin saved /\ row.rec.n <= scans[row.rec.dev]
         /\ \A d \in Device : scan[d] # Idle => scan[d].rec # row.rec
    ELSE row.rec \in saved

ConflictKnown(s) ==
    Running(s, "log") /\ req[s].status = "REJECTED_CONFLICT"
    => TicketIn(req[s].rec) \in checkedIn

Succeeded(t) == \E row \in rows : row.status = "SUCCESS" /\ TicketIn(row.rec) = t

TicketTrue(t) == t \in checkedIn => Logging(t) \/ Succeeded(t)

RowTrue(a) ==
    a.status = "REJECTED_CONFLICT" =>
      \/ Logging(TicketIn(a.rec))
      \/ \E b \in rows : /\ b.status = "SUCCESS" /\ b.rec # a.rec
                         /\ TicketIn(b.rec) = TicketIn(a.rec)

Truthful ==
    /\ Listening
    /\ \A s \in Slot : FirstRow(s) /\ ConflictKnown(s)
    /\ \A row \in rows : RowApart(row) /\ RowTrue(row)
    /\ \A t \in Ticket : TicketTrue(t)

(* The request at hand writes the first row of its record. *)
LEMMA NoRowYet ==
    ASSUME TypeOK, Pages, Queues, Truthful, NEW s \in Slot, req[s] # Idle,
           req[s].at # "look"
    PROVE  /\ \A row \in rows : row.rec # req[s].rec
           /\ req[s].op = "verify" => req[s].rec \notin saved
           /\ req[s].op = "sync" => req[s].rec \in saved /\ req[s].rec.dev = req[s].dev
<1>1. /\ req[s].dev \in Device /\ req[s].op \in {"verify", "sync"}
      /\ req[s].rec \in Record
  BY BusyRequest, RequestFields DEF TypeOK
<1>2. CASE req[s].op = "verify"
  <2>1. /\ scan[req[s].dev] # Idle /\ scan[req[s].dev].rec = req[s].rec
        /\ scan[req[s].dev].at = "verify"
    BY <1>2 DEF Truthful, Listening, Pages, CallOf, Hears
  <2>2. req[s].rec \notin saved
    BY <1>1, <2>1 DEF Pages, PageOf, TypeOK, PageTypeOK
  <2> QED
    BY <1>1, <1>2, <2>1, <2>2 DEF Truthful, RowApart
<1>3. CASE req[s].op = "sync"
  <2>1. req[s].rec \in saved /\ req[s].rec.dev = req[s].dev
    BY <1>3 DEF Queues, BatchOf, Batch
  <2>2. RowsOf(req[s].rec) = {}
    BY <1>3 DEF Truthful, FirstRow, Batching
  <2> QED
    BY <1>3, <2>1, <2>2 DEF Truthful, RowApart, RowsOf
<1> QED
  BY <1>1, <1>2, <1>3

(* Steps that write no row and take no success back. *)
LoggingKept == \A t \in Ticket : Logging(t) => Logging(t)'

LEMMA TruthKept ==
    ASSUME TypeOK, Truthful, rows' = rows, checkedIn' = checkedIn, LoggingKept, Listening',
           \A s \in Slot : FirstRow(s)' /\ ConflictKnown(s)',
           \A row \in rows : RowApart(row)'
    PROVE  Truthful'
<1>1. \A row \in rows : TicketIn(row.rec) \in Ticket
  BY RecordTicket DEF TypeOK, DbTypeOK, Row
<1>2. \A row \in rows : RowTrue(row)'
  BY <1>1 DEF Truthful, RowTrue, LoggingKept, TicketIn
<1>3. \A t \in Ticket : TicketTrue(t)'
  BY DEF Truthful, TicketTrue, LoggingKept, Succeeded, TicketIn
<1> QED
  BY <1>2, <1>3 DEF Truthful

(* The same, when the requests stay as they are or end before their row. *)
LEMMA TruthQuiet ==
    ASSUME TypeOK, Truthful, rows' = rows, checkedIn' = checkedIn, LoggingKept, Listening',
           AllStay, \A row \in rows : RowApart(row)'
    PROVE  Truthful'
<1>1. \A s \in Slot : FirstRow(s)' /\ ConflictKnown(s)'
  BY DEF Truthful, FirstRow, ConflictKnown, Batching, Running, RowsOf, TicketIn, AllStay, Stays
<1> QED
  BY <1>1, TruthKept

(* No row comes nearer to a queue or a page. *)
LEMMA RowsApart ==
    ASSUME Truthful, scans' = scans,
           \A d \in Device : scan'[d] = scan[d] \/ scan'[d] = Idle \/
                             (scan[d] # Idle /\ scan'[d].rec = scan[d].rec),
           saved' = saved \/ \E d \in Device : scan[d] # Idle /\ saved' = saved \cup {scan[d].rec}
    PROVE  \A row \in rows : RowApart(row)'
BY DEF Truthful, RowApart

LEMMA SameLogging ==
    ASSUME req' = req
    PROVE  LoggingKept /\ AllStay
BY DEF LoggingKept, Logging, Running, AllStay, Stays, TicketIn

LEMMA TruthBegin ==
    ASSUME TypeOK, Pages, Truthful, NEW d \in Device, NEW c \in Code,
           ScanOffline(d, c) \/ \E s \in Slot : ScanOnline(d, c, s)
    PROVE  Truthful'
<1> USE DEF TypeOK
<1>1. PICK at \in {"verify", "guard"} :
        /\ BeginScan(d, c, at) /\ UNCHANGED <<dbVars, deviceVars, sync>>
        /\ at = "verify" => \E s \in Slot : ScanOnline(d, c, s)
        /\ at = "guard" => req' = req
  BY DEF ScanOffline, ScanOnline
<1>2. /\ scan'[d] = [at |-> at, rec |-> NextScan(d, c)]
      /\ scans'[d] = scans[d] + 1 /\ scans[d] \in Nat
      /\ \A e \in Device : e # d => scan'[e] = scan[e] /\ scans'[e] = scans[e]
  BY <1>1 DEF BeginScan, PageTypeOK
<1>3. NextScan(d, c).dev = d /\ NextScan(d, c).n = scans[d] + 1
  BY DEF NextScan
<1>4. \A row \in rows : row.rec.dev \in Device /\ row.rec.n \in Nat
  BY DEF DbTypeOK, Row, Record
<1>5. \A row \in rows : RowApart(row)'
  <2> SUFFICES ASSUME NEW row \in rows PROVE RowApart(row)'
    OBVIOUS
  <2>1. saved' = saved
    BY <1>1 DEF deviceVars
  <2>2. CASE ~ row.online
    BY <2>1, <2>2 DEF Truthful, RowApart
  <2>3. CASE row.online
    <3>1. /\ row.rec \notin saved /\ row.rec.n <= scans[row.rec.dev]
          /\ \A e \in Device : scan[e] # Idle => scan[e].rec # row.rec
      BY <2>3 DEF Truthful, RowApart
    <3>2. row.rec.n <= scans'[row.rec.dev]
      BY <1>2, <1>4, <3>1
    <3>3. NextScan(d, c) # row.rec
      BY <1>2, <1>3, <1>4, <3>1
    <3> QED
      BY <1>2, <2>1, <2>3, <3>1, <3>2, <3>3 DEF RowApart
  <2> QED
    BY <2>2, <2>3
<1>6. CASE at = "guard"
  <2>1. Listening'
    BY <1>1, <1>6 DEF Truthful, Listening, Batching
  <2> QED
    BY <1>1, <1>5, <1>6, <2>1, SameLogging, TruthQuiet DEF dbVars
<1>7. CASE at = "verify"
  <2>1. PICK s \in Slot : ScanOnline(d, c, s)
    BY <1>1, <1>7
  <2>2. /\ Others(s) /\ req[s] = Idle /\ req'[s] # Idle /\ req'[s].op = "verify"
        /\ req'[s].heard /\ req'[s].at = "check"
    BY <2>1, BeginRequests
  <2>3. Listening'
    BY <1>1, <2>2 DEF Truthful, Listening, Batching, Others
  <2>4. LoggingKept
    BY <2>2 DEF LoggingKept, Logging, Running, Others, TicketIn
  <2>5. \A x \in Slot : FirstRow(x)' /\ ConflictKnown(x)'
    BY <1>1, <2>2 DEF Truthful, FirstRow, ConflictKnown, Batching, Running, RowsOf,
                      TicketIn, Others, dbVars
  <2> QED
    BY <1>1, <1>5, <2>3, <2>4, <2>5, TruthKept DEF dbVars
<1> QED
  BY <1>6, <1>7

LEMMA TruthDevice ==
    ASSUME TypeOK, Pages, Truthful, NEW d \in Device, ScanStep(d) \/ SyncStep(d)
    PROVE  Truthful'
<1> USE DEF TypeOK, dbVars, deviceVars
<1>1. UNCHANGED <<rows, checkedIn, req, scans>>
  BY DEF ScanStep, CheckGuard, SaveCheckinLog, MarkTicketScanned, SyncStep, MarkSynced,
         ClearScannedTicket
<1>2. CASE ScanStep(d)
  <2>1. scan[d] \in Scan /\ scan[d] # Idle
    BY <1>2, BusyScan DEF ScanStep, CheckGuard, SaveCheckinLog, MarkTicketScanned, Idle
  <2>2. \A e \in Device : scan'[e] = scan[e] \/ scan'[e] = Idle \/
                          (scan[e] # Idle /\ scan'[e].rec = scan[e].rec)
    <3>1. \/ scan' = [scan EXCEPT ![d] = Idle]
          \/ \E at : scan' = [scan EXCEPT ![d] = [scan[d] EXCEPT !.at = at]]
      BY <1>2 DEF ScanStep, CheckGuard, SaveCheckinLog, MarkTicketScanned, PageTypeOK
    <3>2. \A at : [scan[d] EXCEPT !.at = at].rec = scan[d].rec
      BY <2>1 DEF Scan
    <3> QED
      BY <2>1, <3>1, <3>2, ZenonT(30) DEF PageTypeOK
  <2>3. saved' = saved \/ saved' = saved \cup {scan[d].rec}
    BY <1>2 DEF ScanStep, CheckGuard, SaveCheckinLog, MarkTicketScanned
  <2>4. \A row \in rows : RowApart(row)'
    BY <1>1, <2>1, <2>2, <2>3, RowsApart
  <2>5. Listening'
    BY <1>1, <1>2 DEF ScanStep, CheckGuard, SaveCheckinLog, MarkTicketScanned,
                      Truthful, Listening, Batching
  <2> QED
    BY <1>1, <2>4, <2>5, SameLogging, TruthQuiet
<1>3. CASE SyncStep(d)
  <2>1. /\ UNCHANGED <<scan, saved>> /\ sync[d].at # "wait"
        /\ \A e \in Device : e # d => sync'[e] = sync[e]
    BY <1>3 DEF SyncStep, MarkSynced, ClearScannedTicket, PageTypeOK
  <2>2. \A s \in Slot : Batching(s) => req[s].dev \in Device /\ req[s].dev # d
    BY <2>1, BusyRequest DEF Truthful, Listening, Batching
  <2>3. Listening'
    BY <1>1, <2>1, <2>2 DEF Truthful, Listening, Batching
  <2>4. \A row \in rows : RowApart(row)'
    BY <1>1, <2>1, RowsApart
  <2> QED
    BY <1>1, <2>3, <2>4, SameLogging, TruthQuiet
<1> QED
  BY <1>2, <1>3

LEMMA TruthStart ==
    ASSUME TypeOK, Truthful, NEW d \in Device, NEW s \in Slot, StartSync(d, s)
    PROVE  Truthful'
<1> USE DEF TypeOK, dbVars, deviceVars
<1>1. /\ Others(s) /\ req[s] = Idle /\ req'[s] # Idle /\ req'[s].op = "sync"
      /\ req'[s].dev = d /\ req'[s].heard /\ req'[s].at = "look"
  BY BeginRequests
<1>2. /\ UNCHANGED <<rows, checkedIn, saved, scan, scans>>
      /\ sync[d] = Idle /\ sync'[d].at = "wait"
      /\ \A e \in Device : e # d => sync'[e] = sync[e]
  BY DEF StartSync, PageTypeOK
<1>3. \A x \in Slot : Batching(x) => req[x].dev \in Device /\ req[x].dev # d
  BY <1>2, BusyRequest DEF Truthful, Listening, Batching, Idle
<1>4. Listening'
  BY <1>1, <1>2, <1>3 DEF Truthful, Listening, Batching, Others
<1>5. LoggingKept
  BY <1>1 DEF LoggingKept, Logging, Running, Others, TicketIn
<1>6. \A x \in Slot : FirstRow(x)' /\ ConflictKnown(x)'
  BY <1>1, <1>2 DEF Truthful, FirstRow, ConflictKnown, Batching, Running, RowsOf,
                    TicketIn, Others
<1>7. \A row \in rows : RowApart(row)'
  BY <1>2, RowsApart
<1> QED
  BY <1>2, <1>4, <1>5, <1>6, <1>7, TruthKept

(* A batch or a scan ends: no other batch is the device's. *)
LEMMA ListeningOn ==
    ASSUME TypeOK, Truthful, NEW s \in Slot, Others(s), req[s] # Idle,
           \/ GoesOn(s) /\ sync' = sync
           \/ /\ req'[s] = Idle
              /\ \A d \in Device :
                   sync'[d] = sync[d] \/ (d = req[s].dev /\ req[s].op = "sync")
    PROVE  Listening'
<1>1. \A x \in Slot : req[x] # Idle => req[x].dev \in Device
  BY BusyRequest DEF TypeOK
<1>2. CASE GoesOn(s) /\ sync' = sync
  BY <1>1, <1>2 DEF Truthful, Listening, Batching, Others, GoesOn
<1>3. CASE /\ req'[s] = Idle
           /\ \A d \in Device :
                sync'[d] = sync[d] \/ (d = req[s].dev /\ req[s].op = "sync")
  <2>1. \A x \in Slot : Batching(x)' => x # s /\ Batching(x) /\ req'[x] = req[x]
    BY <1>3 DEF Others, Batching
  <2>2. \A x \in Slot : Batching(x)' => sync'[req[x].dev] = sync[req[x].dev]
    BY <1>1, <1>3, <2>1 DEF Truthful, Listening, Batching
  <2>3. \A x \in Slot : req'[x] # Idle => req'[x].heard
    BY <1>3 DEF Truthful, Listening, Others
  <2> QED
    BY <2>1, <2>2, <2>3 DEF Truthful, Listening
<1> QED
  BY <1>2, <1>3

LEMMA TruthFail ==
    ASSUME TypeOK, Truthful, NEW s \in Slot, req[s] # Idle, req[s].at # "log", Fail(s),
           UNCHANGED <<checkedIn, saved, scans>>
    PROVE  Truthful'
<1>1. AllStay /\ Others(s) /\ req'[s] = Idle
  BY FailEffect
<1>2. LoggingKept
  BY <1>1 DEF LoggingKept, Logging, Running, Others, TicketIn
<1>3. Listening'
  <2>1. \A d \in Device : sync'[d] = sync[d] \/ (d = req[s].dev /\ req[s].op = "sync")
    BY FailEffect
  <2> QED
    BY <1>1, <2>1, ListeningOn
<1>4. \A d \in Device : scan'[d] = scan[d] \/ scan'[d] = Idle
  BY FailEffect
<1>5. \A row \in rows : RowApart(row)'
  BY <1>4, RowsApart
<1> QED
  BY <1>1, <1>2, <1>3, <1>5, TruthQuiet DEF Fail

LEMMA TruthLook ==
    ASSUME TypeOK, Truthful, NEW s \in Slot, LookUp(s) \/ AnswerSync(s)
    PROVE  Truthful'
<1> USE DEF TypeOK, dbVars, deviceVars
<1>1. UNCHANGED <<rows, checkedIn, scan, scans, saved>>
  BY DEF LookUp, AnswerSync
<1>2. \A row \in rows : RowApart(row)'
  BY <1>1, RowsApart
<1>3. CASE LookUp(s)
  <2>1. /\ GoesOn(s) /\ req[s].at = "look"
        /\ \/ req'[s].at = "look"
           \/ RowsOf(req'[s].rec) = {} /\ req'[s].at = "check"
    BY <1>3, LookUpEffect
  <2>2. Listening'
    BY <1>3, <2>1, ListeningOn DEF LookUp, GoesOn
  <2>3. LoggingKept
    BY <2>1 DEF LoggingKept, Logging, Running, GoesOn, Others, TicketIn
  <2>4. \A x \in Slot : FirstRow(x)' /\ ConflictKnown(x)'
    BY <1>1, <2>1 DEF Truthful, FirstRow, ConflictKnown, Batching, Running, RowsOf,
                      TicketIn, GoesOn, Others
  <2> QED
    BY <1>1, <1>2, <2>2, <2>3, <2>4, TruthKept
<1>4. CASE AnswerSync(s)
  <2>1. /\ req[s] # Idle /\ req[s].at = "look" /\ req[s].op = "sync"
        /\ AllStay /\ req'[s] = Idle /\ Others(s)
    BY <1>4, AnswerSyncEffect
  <2>2. \A d \in Device : sync'[d] = sync[d] \/ (d = req[s].dev /\ req[s].op = "sync")
    BY <1>4, <2>1, AnswerSyncEffect
  <2>3. Listening'
    BY <2>1, <2>2, ListeningOn
  <2>4. LoggingKept
    BY <2>1 DEF LoggingKept, Logging, Running, Others, TicketIn
  <2> QED
    BY <1>1, <1>2, <2>1, <2>3, <2>4, TruthQuiet
<1> QED
  BY <1>3, <1>4

LEMMA TruthCheck ==
    ASSUME TypeOK, Truthful, NEW s \in Slot, CheckTicket(s)
    PROVE  Truthful'
<1> USE DEF TypeOK, dbVars, deviceVars
<1>1. UNCHANGED <<checkedIn, scans, saved>> /\ req[s] # Idle /\ req[s].at = "check"
  BY CheckTicketEffect DEF CheckTicket
<1>2. CASE Fail(s)
  BY <1>1, <1>2, TruthFail
<1>3. CASE ~ Fail(s)
  <2>1. /\ GoesOn(s) /\ SameBatch(s) /\ UNCHANGED <<rows, scan, sync>>
        /\ \/ req'[s].at = "update"
           \/ /\ Verdict(req[s].rec) \notin {"OK", "NOT_FOUND"}
              /\ req'[s].status = Verdict(req[s].rec)
    BY <1>3, CheckTicketEffect
  <2>2. req'[s].at = "update" \/ req'[s].status # "REJECTED_CONFLICT"
    BY <2>1 DEF Verdict
  <2>3. Listening'
    BY <1>1, <2>1, ListeningOn DEF GoesOn
  <2>4. LoggingKept
    BY <1>1, <2>1 DEF LoggingKept, Logging, Running, GoesOn, Others, TicketIn
  <2>5. \A x \in Slot : FirstRow(x)' /\ ConflictKnown(x)'
    BY <1>1, <2>1, <2>2 DEF Truthful, FirstRow, ConflictKnown, Batching, Running, RowsOf,
                           TicketIn, GoesOn, SameBatch, Others
  <2>6. \A row \in rows : RowApart(row)'
    BY <1>1, <2>1, RowsApart
  <2> QED
    BY <1>1, <2>1, <2>3, <2>4, <2>5, <2>6, TruthKept
<1> QED
  BY <1>2, <1>3

LEMMA TruthUpdate ==
    ASSUME TypeOK, Truthful, NEW s \in Slot, CheckIn(s)
    PROVE  Truthful'
<1> USE DEF TypeOK, dbVars, deviceVars
<1> DEFINE t == TicketIn(req[s].rec)
<1>1. /\ GoesOn(s) /\ SameBatch(s) /\ req[s].at = "update" /\ req'[s].at = "log"
      /\ checkedIn' = checkedIn \cup {t}
      /\ req'[s].status = "SUCCESS" <=> t \notin checkedIn
  BY CheckInEffect
<1>2. UNCHANGED <<rows, scan, scans, saved, sync>>
  BY DEF CheckIn
<1>3. LoggingKept
  BY <1>1 DEF LoggingKept, Logging, Running, GoesOn, Others, TicketIn
<1>4. Listening'
  BY <1>1, <1>2, ListeningOn DEF GoesOn
<1>5. \A x \in Slot : FirstRow(x)' /\ ConflictKnown(x)'
  BY <1>1, <1>2 DEF Truthful, FirstRow, ConflictKnown, Batching, Running, RowsOf,
                    TicketIn, GoesOn, SameBatch, Others
<1>6. \A row \in rows : RowApart(row)'
  BY <1>2, RowsApart
<1>7. \A row \in rows : RowTrue(row)'
  <2>1. \A row \in rows : TicketIn(row.rec) \in Ticket
    BY RecordTicket DEF DbTypeOK, Row
  <2> QED
    BY <1>2, <1>3, <2>1 DEF Truthful, RowTrue, LoggingKept, TicketIn
<1>8. ASSUME NEW u \in Ticket PROVE TicketTrue(u)'
  <2>1. CASE u \in checkedIn
    BY <1>2, <1>3, <2>1 DEF Truthful, TicketTrue, LoggingKept, Succeeded, TicketIn
  <2>2. CASE u = t /\ t \notin checkedIn
    <3>1. Logging(u)'
      BY <1>1, <2>2 DEF Logging, Running, GoesOn, SameBatch, TicketIn
    <3> QED
      BY <3>1 DEF TicketTrue
  <2>3. CASE u \notin checkedIn /\ u # t
    BY <1>1, <2>3 DEF TicketTrue
  <2> QED
    BY <2>1, <2>2, <2>3
<1> QED
  BY <1>2, <1>4, <1>5, <1>6, <1>7, <1>8 DEF Truthful

(* The row of a request is written: a success takes the place of its debt, *)
(* and a conflict has its reason.                                          *)
LEMMA TruthWritten ==
    ASSUME TypeOK, Pages, Queues, Truthful, NEW s \in Slot, Running(s, "log"),
           NEW row, row.rec = req[s].rec, row.status = req[s].status,
           rows' = rows \cup {row}, checkedIn' = checkedIn, Others(s),
           Listening', \A x \in Slot : FirstRow(x)' /\ ConflictKnown(x)',
           \A a \in rows' : RowApart(a)'
    PROVE  Truthful'
<1> DEFINE t == TicketIn(req[s].rec)
<1>1. req[s].rec \in Record /\ t \in Ticket /\ req[s] # Idle /\ req[s].at = "log"
  BY BusyRequest, RecordTicket DEF Running, TypeOK
<1>2. \A a \in rows : a.rec # req[s].rec
  BY <1>1, NoRowYet
<1>3. ASSUME NEW u \in Ticket, Logging(u)
      PROVE  Logging(u)' \/ (u = t /\ row.status = "SUCCESS")
  <2>1. PICK x \in Slot : Running(x, "log") /\ req[x].status = "SUCCESS"
                          /\ TicketIn(req[x].rec) = u
    BY <1>3 DEF Logging
  <2>2. x # s => req'[x] = req[x]
    BY DEF Others
  <2> QED
    BY <2>1, <2>2 DEF Logging, Running, TicketIn
<1>4. ASSUME NEW u \in Ticket PROVE TicketTrue(u)'
  <2>1. Succeeded(u) => Succeeded(u)'
    BY DEF Succeeded, TicketIn
  <2>2. row.status = "SUCCESS" /\ u = t => Succeeded(u)'
    BY DEF Succeeded, TicketIn
  <2>3. u \in checkedIn => Logging(u) \/ Succeeded(u)
    BY DEF Truthful, TicketTrue
  <2> QED
    BY <1>3, <2>1, <2>2, <2>3 DEF TicketTrue
<1>5. ASSUME NEW a \in rows PROVE RowTrue(a)'
  <2> SUFFICES ASSUME a.status = "REJECTED_CONFLICT" PROVE RowTrue(a)'
    BY DEF RowTrue
  <2>1. TicketIn(a.rec) \in Ticket
    BY RecordTicket DEF TypeOK, DbTypeOK, Row
  <2>2. CASE Logging(TicketIn(a.rec))
    <3>1. CASE Logging(TicketIn(a.rec))'
      BY <3>1 DEF RowTrue
    <3>2. CASE TicketIn(a.rec) = t /\ row.status = "SUCCESS"
      BY <1>2, <3>2 DEF RowTrue, TicketIn
    <3> QED
      BY <1>3, <2>1, <2>2, <3>1, <3>2
  <2>3. CASE \E b \in rows : /\ b.status = "SUCCESS" /\ b.rec # a.rec
                             /\ TicketIn(b.rec) = TicketIn(a.rec)
    BY <2>3 DEF RowTrue, TicketIn
  <2> QED
    BY <2>2, <2>3 DEF Truthful, RowTrue
<1>6. RowTrue(row)'
  <2> SUFFICES ASSUME row.status = "REJECTED_CONFLICT" PROVE RowTrue(row)'
    BY DEF RowTrue
  <2>1. t \in checkedIn
    BY <1>1 DEF Truthful, ConflictKnown
  <2>2. CASE Logging(t)
    <3>1. Logging(TicketIn(row.rec))'
      BY <1>1, <1>3, <2>2 DEF Logging, Running, TicketIn
    <3> QED
      BY <3>1 DEF RowTrue
  <2>3. CASE Succeeded(t)
    BY <1>2, <2>3 DEF RowTrue, Succeeded, TicketIn
  <2> QED
    BY <1>1, <2>1, <2>2, <2>3 DEF Truthful, TicketTrue
<1> QED
  BY <1>4, <1>5, <1>6 DEF Truthful

LEMMA TruthVerify ==
    ASSUME TypeOK, Pages, Queues, Truthful, NEW s \in Slot, LogVerify(s)
    PROVE  Truthful'
<1> USE DEF TypeOK, dbVars, deviceVars
<1> DEFINE r == req[s].rec
<1>1. /\ req[s] # Idle /\ req[s].at = "log" /\ req[s].op = "verify"
      /\ AllStay /\ req'[s] = Idle /\ Others(s) /\ req[s].dev \in Device
      /\ Running(s, "log")
  BY LogVerifyEffect, BusyRequest DEF Running
<1>2. UNCHANGED <<checkedIn, saved, scans, sync>>
  BY DEF LogVerify
<1>3. PICK row : /\ rows' = rows \cup {row} /\ row.rec = r
                 /\ row.status = req[s].status /\ row.online
  <2> DEFINE new == [rec |-> r, online |-> TRUE, status |-> req[s].status]
  <2>1. rows' = rows \cup {new}
    BY DEF LogVerify
  <2>2. new.rec = r /\ new.status = req[s].status /\ new.online
    OBVIOUS
  <2> HIDE DEF new
  <2> QED
    BY <2>1, <2>2
<1>4. /\ scan[req[s].dev] # Idle /\ scan[req[s].dev].rec = r /\ req[s].heard
  BY <1>1 DEF Truthful, Listening, Pages, CallOf, Hears
<1>5. /\ scan'[req[s].dev] = Idle
      /\ \A d \in Device : d # req[s].dev => scan'[d] = scan[d]
  BY <1>1, <1>4 DEF LogVerify, PageTypeOK
<1>6. Listening'
  BY <1>1, <1>2, ListeningOn
<1>7. \A a \in rows : RowApart(a)'
  BY <1>2, <1>5, RowsApart
<1>8. RowApart(row)'
  <2>1. r \notin saved
    BY <1>1, NoRowYet
  <2>2. r.dev = req[s].dev /\ r.n <= scans[r.dev]
    BY <1>1, <1>4 DEF Pages, PageOf, PageTypeOK
  <2>3. \A d \in Device : scan'[d] # Idle => scan'[d].rec # r
    BY <1>5, <2>2 DEF Pages, PageOf
  <2> QED
    BY <1>2, <1>3, <2>1, <2>2, <2>3 DEF RowApart
<1>9. \A x \in Slot : FirstRow(x)' /\ ConflictKnown(x)'
  <2>1. \A y : RowsOf(y)' = RowsOf(y)
    BY <1>2, <1>3 DEF RowsOf
  <2> QED
    BY <1>1, <1>2, <2>1 DEF Truthful, FirstRow, ConflictKnown, Batching, Running,
                            TicketIn, AllStay, Stays
<1> QED
  BY <1>1, <1>2, <1>6, <1>3, <1>7, <1>8, <1>9, TruthWritten

LEMMA TruthRecord ==
    ASSUME TypeOK, Pages, Queues, Truthful, NEW s \in Slot, LogRecord(s)
    PROVE  Truthful'
<1> USE DEF TypeOK, dbVars, deviceVars
<1> DEFINE r == req[s].rec
<1>1. req[s] # Idle /\ req[s].at = "log" /\ req[s].op = "sync" /\ Running(s, "log")
  BY LogRecordEffect DEF Running
<1>2. RowsOf(r) = {}
  BY <1>1 DEF Truthful, FirstRow, Batching
<1>3. GoesOn(s) /\ req'[s].at = "look" /\ UNCHANGED <<scan, sync>>
  BY <1>2, LogRecordEffect
<1>4. PICK row : /\ rows' = rows \cup {row} /\ row.rec = r
                 /\ row.status = req[s].status /\ ~ row.online
  <2> DEFINE new == [rec |-> r, online |-> FALSE, status |-> req[s].status]
  <2>1. rows' = rows \cup {new}
    BY <1>2, LogRecordEffect
  <2>2. new.rec = r /\ new.status = req[s].status /\ ~ new.online
    OBVIOUS
  <2> HIDE DEF new
  <2> QED
    BY <2>1, <2>2
<1>5. UNCHANGED <<checkedIn, saved, scans>>
  BY DEF LogRecord
<1>6. Listening'
  BY <1>1, <1>3, ListeningOn DEF GoesOn
<1>7. \A a \in rows : RowApart(a)'
  BY <1>3, <1>5, RowsApart
<1>8. RowApart(row)'
  BY <1>1, <1>5, <1>4, NoRowYet DEF RowApart
<1>9. \A x \in Slot : FirstRow(x)' /\ ConflictKnown(x)'
  <2>1. ASSUME NEW x \in Slot, x # s, Batching(x), req[x].at # "look"
        PROVE  RowsOf(req[x].rec)' = {}
    <3>1. req[x].dev # req[s].dev
      BY <1>1, <2>1 DEF Truthful, Listening, Batching
    <3>2. req[x].rec.dev = req[x].dev /\ r.dev = req[s].dev
      BY <1>1, <2>1, NoRowYet DEF Batching
    <3>3. RowsOf(req[x].rec) = {} /\ req'[x] = req[x]
      BY <1>3, <2>1 DEF Truthful, FirstRow, GoesOn, Others
    <3> QED
      BY <1>3, <1>4, <3>1, <3>2, <3>3 DEF RowsOf
  <2>2. \A x \in Slot : x # s => FirstRow(x)'
    BY <1>3, <2>1 DEF FirstRow, Batching, GoesOn, Others
  <2>3. FirstRow(s)' /\ ConflictKnown(s)'
    BY <1>3 DEF FirstRow, ConflictKnown, Running
  <2>4. \A x \in Slot : x # s => ConflictKnown(x)'
    BY <1>3, <1>5 DEF Truthful, ConflictKnown, Running, TicketIn, GoesOn, Others
  <2> QED
    BY <2>2, <2>3, <2>4
<1> QED
  BY <1>1, <1>3, <1>5, <1>6, <1>4, <1>7, <1>8, <1>9, TruthWritten DEF GoesOn

Quietly == drops = 0 /\ crashes = 0

LEMMA TruthStep ==
    ASSUME TypeOK, Pages, Queues, Quietly => Truthful, Next, Quietly'
    PROVE  Truthful'
<1>1. Quietly /\ Truthful
  <2>1. drops' = drops \/ drops' = drops + 1
    BY DEF Next, ScanOffline, ScanOnline, StartSync, ScanStep, SyncStep, StorageFails,
           Reload, Serve, Disconnect, ServerCrash, DatabaseFails, CheckGuard, SaveCheckinLog,
           MarkTicketScanned, MarkSynced, ClearScannedTicket, LookUp, CheckTicket, CheckIn,
           LogVerify, LogRecord, AnswerSync
  <2>2. crashes' = crashes \/ crashes' = crashes + 1
    BY DEF Next, ScanOffline, ScanOnline, StartSync, ScanStep, SyncStep, StorageFails,
           Reload, Serve, Disconnect, ServerCrash, DatabaseFails, CheckGuard, SaveCheckinLog,
           MarkTicketScanned, MarkSynced, ClearScannedTicket, LookUp, CheckTicket, CheckIn,
           LogVerify, LogRecord, AnswerSync
  <2> QED
    BY <2>1, <2>2 DEF Quietly, TypeOK
<1>2. /\ \A s \in Slot : ~ Disconnect(s) /\ ~ ServerCrash(s) /\ ~ DatabaseFails(s)
      /\ \A d \in Device : ~ Reload(d) /\ ~ StorageFails(d)
  BY <1>1 DEF Quietly, Disconnect, ServerCrash, DatabaseFails, Reload, StorageFails
<1>3. ASSUME NEW s \in Slot, Serve(s) PROVE Truthful'
  BY <1>1, <1>3, TruthLook, TruthCheck, TruthUpdate, TruthVerify, TruthRecord DEF Serve
<1> QED
  BY <1>1, <1>2, <1>3, TruthBegin, TruthDevice, TruthStart DEF Next

(***************************************************************************)
(* CheckinLog as the organiser reads it: with no call given up and nothing *)
(* stopped, a checked-in ticket has its SUCCESS row and a conflict is with *)
(* another scan that was let in.                                           *)
(***************************************************************************)
THEOREM LogTrue == Spec => []LogTellsTruth
<1> DEFINE Inv == Quietly => Truthful
<1>1. Init => Inv
  BY DEF Init, Truthful, Listening, Batching, FirstRow, ConflictKnown, Running, TicketTrue
<1>2. TypeOK /\ Pages /\ Queues /\ Inv /\ [Next]_vars => Inv'
  <2> SUFFICES ASSUME TypeOK, Pages, Queues, Inv, [Next]_vars, Quietly' PROVE Truthful'
    OBVIOUS
  <2>1. CASE UNCHANGED vars
    <3>1. Quietly /\ Truthful /\ UNCHANGED <<dbVars, deviceVars, req, scan, sync, scans>>
      BY <2>1 DEF vars, Quietly
    <3>2. Listening' /\ AllStay /\ LoggingKept
      BY <3>1, SameLogging DEF Truthful, Listening, Batching
    <3>3. \A row \in rows : RowApart(row)'
      BY <3>1, RowsApart DEF deviceVars
    <3> QED
      BY <3>1, <3>2, <3>3, TruthQuiet DEF dbVars
  <2>2. CASE Next
    BY <2>2, TruthStep
  <2> QED
    BY <2>1, <2>2
<1>3. TypeOK /\ Inv => LogTellsTruth
  BY DEF LogTellsTruth, Quietly, Truthful, TicketTrue, RowTrue, Succeeded, TypeOK, DbTypeOK
<1> QED
  BY <1>1, <1>2, <1>3, TypeCorrect, PagesInvariant, QueuesInvariant, PTL DEF Spec

=============================================================================
