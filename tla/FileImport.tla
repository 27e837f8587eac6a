----------------------------- MODULE FileImport -----------------------------
(***************************************************************************)
(* Files an organiser uploads for a concert: guest lists (CSV) and press   *)
(* kits (PDF) for the artist biography.  UploadsService stores the object, *)
(* inserts the UploadedFile row and queues a job; CsvImportProcessor and   *)
(* AiBioProcessor work them off, one job at a time each, with retries.     *)
(*                                                                         *)
(* A CSV row is its e-mail address, or NoMail; a PDF is the empty list of  *)
(* rows.  lost and redone are history: files whose last word could not be  *)
(* written, and files imported again after their guests had been inserted. *)
(***************************************************************************)
EXTENDS Naturals, FiniteSetsExt, SequencesExt

CONSTANTS
    File,
    Queue,          \* the queue of each file: "csv" or "bio"
    CsvRows,         \* CsvRows[f]: the e-mail addresses of its rows
    NoMail,         \* a row without e-mail address
    Tries,          \* attempts of a job
    MaxFaults       \* bound: errors and stops that are not the file's fault

Address == {NoMail} \cup UNION {ToSet(CsvRows[f]) : f \in File}

ASSUME ImportAssumption ==
    /\ Queue \in [File -> {"csv", "bio"}]
    /\ IsFiniteSet(File)
    /\ \A f \in File :
         CsvRows[f] \in Seq(Address) /\ (Queue[f] = "bio" => CsvRows[f] = <<>>)
    /\ Tries \in Nat \ {0} /\ MaxFaults \in Nat

VARIABLES
    file,           \* file[f]: UploadedFile.status, "NONE" without a row
    upload,         \* upload[f]: progress of the request
    queued,         \* queued[f]: the job: state, attempts made, stalled once
    worker,         \* worker[q]: the job in hand
    guests,         \* guests[e]: GuestListEntry rows with address e
    bio,            \* the files whose biography the concert has had
    faults, lost, redone

importVars == <<file, upload, queued, worker, guests, bio, faults, lost, redone>>

Final == {"COMPLETED", "COMPLETED_WITH_ERRORS", "FAILED"}
Free == [step |-> "free", seen |-> {}]

ImportTypeOK ==
    /\ file \in [File -> {"NONE", "PENDING", "PROCESSING"} \cup Final]
    /\ upload \in [File -> {"new", "stored", "row", "ended"}]
    /\ queued \in [File -> [state : {"none", "waiting", "active", "failed"},
                            made : 0..Tries, stalled : BOOLEAN]]
    /\ worker \in [{"csv", "bio"} ->
                     [step : {"free", "begin", "load", "match", "insert", "finish",
                              "save", "evict", "catch"},
                      seen : SUBSET Address]]
    /\ guests \in [Address -> Nat]
    /\ bio \subseteq File
    /\ faults \in 0..MaxFaults
    /\ lost \subseteq File /\ redone \subseteq File

ImportInit ==
    /\ file = [f \in File |-> "NONE"]
    /\ upload = [f \in File |-> "new"]
    /\ queued = [f \in File |-> [state |-> "none", made |-> 0, stalled |-> FALSE]]
    /\ worker = [q \in {"csv", "bio"} |-> Free]
    /\ guests = [e \in Address |-> 0]
    /\ bio = {} /\ faults = 0 /\ lost = {} /\ redone = {}

-----------------------------------------------------------------------------
(* The request: object storage, row, job. *)

StoreObject(f) ==
    /\ upload[f] = "new"
    /\ upload' = [upload EXCEPT ![f] = "stored"]
    /\ UNCHANGED <<file, queued, worker, guests, bio, faults, lost, redone>>

InsertFileRow(f) ==
    /\ upload[f] = "stored"
    /\ upload' = [upload EXCEPT ![f] = "row"]
    /\ file' = [file EXCEPT ![f] = "PENDING"]
    /\ UNCHANGED <<queued, worker, guests, bio, faults, lost, redone>>

QueueFile(f) ==
    /\ upload[f] = "row"
    /\ upload' = [upload EXCEPT ![f] = "ended"]
    /\ queued' = [queued EXCEPT ![f].state = "waiting"]
    /\ UNCHANGED <<file, worker, guests, bio, faults, lost, redone>>

UploadFails(f) ==
    /\ faults < MaxFaults /\ upload[f] \in {"stored", "row"}
    /\ faults' = faults + 1
    /\ upload' = [upload EXCEPT ![f] = "ended"]
    /\ UNCHANGED <<file, queued, worker, guests, bio, lost, redone>>

-----------------------------------------------------------------------------
(* The workers *)

Active(f) == queued[f].state = "active"
Step(f, step) == worker' = [worker EXCEPT ![Queue[f]].step = step]
AtStep(f, step) == Active(f) /\ worker[Queue[f]].step = step
JobDone(f) ==
    /\ worker' = [worker EXCEPT ![Queue[f]] = Free]
    /\ queued' = [queued EXCEPT ![f].state = "none"]

TakeJob(f) ==
    /\ queued[f].state = "waiting" /\ worker[Queue[f]].step = "free"
    /\ queued' = [queued EXCEPT ![f].state = "active"]
    /\ Step(f, "begin")
    /\ UNCHANGED <<file, upload, guests, bio, faults, lost, redone>>

BeginFile(f) ==
    /\ AtStep(f, "begin")
    /\ file' = [file EXCEPT ![f] = "PROCESSING"]
    /\ Step(f, "load")
    /\ UNCHANGED <<upload, queued, guests, bio, faults, lost, redone>>

(* Download and parse, or read the PDF and ask the language model: any of  *)
(* them may find nothing it can use.                                       *)
LoadFile(f) ==
    /\ AtStep(f, "load")
    /\ \/ Step(f, "catch")
       \/ Step(f, IF Queue[f] = "csv" THEN "match" ELSE "save")
    /\ UNCHANGED <<file, upload, queued, guests, bio, faults, lost, redone>>

(* Mutant of MatchGuests: guests are looked up among those without address. *)
MatchNobody(f) ==
    /\ AtStep(f, "match")
    /\ worker' = [worker EXCEPT ![Queue[f]] =
                    [step |-> "insert", seen |-> {e \in {NoMail} : guests[e] > 0}]]
    /\ UNCHANGED <<file, upload, queued, guests, bio, faults, lost, redone>>

(* The addresses of the file that are guests of the concert already. *)
MatchGuests(f) ==
    /\ AtStep(f, "match")
    /\ worker' = [worker EXCEPT ![Queue[f]] =
                    [step |-> "insert",
                     seen |-> {e \in ToSet(CsvRows[f]) \ {NoMail} : guests[e] > 0}]]
    /\ UNCHANGED <<file, upload, queued, guests, bio, faults, lost, redone>>

RowsWith(f, e) == Cardinality({i \in DOMAIN CsvRows[f] : CsvRows[f][i] = e})

(* createMany of the others: one statement. *)
InsertGuests(f) ==
    /\ AtStep(f, "insert")
    /\ guests' = [e \in Address |->
                    IF e \in worker[Queue[f]].seen THEN guests[e] ELSE guests[e] + RowsWith(f, e)]
    /\ worker' = [worker EXCEPT ![Queue[f]] = [@ EXCEPT !.step = "finish"]]
    /\ UNCHANGED <<file, upload, queued, bio, faults, lost, redone>>

(* Rows of an address seen before, in the list or in the file, are errors. *)
WithErrors(f) ==
    \/ worker[Queue[f]].seen # {}
    \/ \E e \in ToSet(CsvRows[f]) \ {NoMail} : RowsWith(f, e) > 1

FinishImport(f) ==
    /\ AtStep(f, "finish")
    /\ file' = [file EXCEPT ![f] = IF WithErrors(f) THEN "COMPLETED_WITH_ERRORS" ELSE "COMPLETED"]
    /\ JobDone(f)
    /\ UNCHANGED <<upload, guests, bio, faults, lost, redone>>

(* AiBioProcessor: biography and status in one transaction, ... *)
SaveBio(f) ==
    /\ AtStep(f, "save")
    /\ bio' = bio \cup {f}
    /\ file' = [file EXCEPT ![f] = "COMPLETED"]
    /\ Step(f, "evict")
    /\ UNCHANGED <<upload, queued, guests, faults, lost, redone>>

(* ... then the cached documents. *)
EvictBio(f) ==
    /\ AtStep(f, "evict")
    /\ JobDone(f)
    /\ UNCHANGED <<file, upload, guests, bio, faults, lost, redone>>

(* An await of the attempt throws: the catch block, ... *)
AttemptThrows(f) ==
    /\ faults < MaxFaults
    /\ Active(f) /\ worker[Queue[f]].step \notin {"free", "catch"}
    /\ faults' = faults + 1
    /\ redone' = IF worker[Queue[f]].step = "finish" THEN redone \cup {f} ELSE redone
    /\ worker' = [worker EXCEPT ![Queue[f]] = [step |-> "catch", seen |-> {}]]
    /\ UNCHANGED <<file, upload, queued, guests, bio, lost>>

(* Mutant of LastTry: counts the attempts as BullMQ does after the job. *)
LastTryLate(f) == queued[f].made >= Tries
(* attemptsMade + 1 >= maxAttempts *)
LastTry(f) == queued[f].made + 1 >= Tries

(* ... which marks the file only at the last attempt, and may fail too. *)
Catch(f) ==
    /\ AtStep(f, "catch")
    /\ \/ /\ file' = IF LastTry(f) THEN [file EXCEPT ![f] = "FAILED"] ELSE file
          /\ UNCHANGED <<faults, lost>>
       \/ /\ LastTry(f) /\ faults < MaxFaults
          /\ faults' = faults + 1
          /\ lost' = lost \cup {f}
          /\ UNCHANGED file
    /\ LET made == queued[f].made + 1
       IN queued' = [queued EXCEPT ![f] =
                       [@ EXCEPT !.made = made,
                                 !.state = IF made < Tries THEN "waiting" ELSE "failed"]]
    /\ worker' = [worker EXCEPT ![Queue[f]] = Free]
    /\ UNCHANGED <<upload, guests, bio, redone>>

(* The worker stops.  BullMQ returns a stalled job once, then fails it     *)
(* without calling the processor.                                          *)
WorkerStops(q) ==
    /\ faults < MaxFaults /\ worker[q].step # "free"
    /\ faults' = faults + 1
    /\ worker' = [worker EXCEPT ![q] = Free]
    /\ LET mine == {f \in File : Queue[f] = q /\ Active(f)}
           again == {f \in mine : ~ queued[f].stalled}
       IN /\ queued' = [f \in File |->
               IF f \in mine THEN [queued[f] EXCEPT !.stalled = TRUE,
                                     !.state = IF f \in again THEN "waiting" ELSE "failed"]
                             ELSE queued[f]]
          /\ lost' = lost \cup (mine \ again)
          /\ redone' = IF worker[q].step = "finish" THEN redone \cup mine ELSE redone
    /\ UNCHANGED <<file, upload, guests, bio>>

WorkerStep(f) ==
    \/ TakeJob(f) \/ BeginFile(f) \/ LoadFile(f) \/ MatchGuests(f) \/ InsertGuests(f)
    \/ FinishImport(f) \/ SaveBio(f) \/ EvictBio(f) \/ Catch(f)

ImportNext ==
    \/ \E f \in File : \/ StoreObject(f) \/ InsertFileRow(f) \/ QueueFile(f) \/ UploadFails(f)
                       \/ WorkerStep(f) \/ AttemptThrows(f)
    \/ \E q \in {"csv", "bio"} : WorkerStops(q)

(* BullMQ's workers keep taking and working off jobs. *)
ImportFairness == \A f \in File : WF_importVars(WorkerStep(f)) /\ SF_importVars(TakeJob(f))
ImportSpec == ImportInit /\ [][ImportNext]_importVars /\ ImportFairness

-----------------------------------------------------------------------------
(***************************************************************************)
(* Retries and stops add no guest twice who has an address: it is listed   *)
(* as often as the file that brought it repeats it, however many files     *)
(* repeat it, and a completed file has listed all of its guests.  A guest  *)
(* without address is listed once per row, unless an attempt ended between *)
(* the insert and the file's final status.                                 *)
(***************************************************************************)
MostRows(e) == Max({RowsWith(f, e) : f \in File} \cup {0})
Completed == {f \in File : file[f] \in {"COMPLETED", "COMPLETED_WITH_ERRORS"}}
GuestsListedOnce ==
    /\ \A e \in Address \ {NoMail} : guests[e] <= MostRows(e)
    /\ redone = {} => guests[NoMail] <= SumFunction([f \in File |-> RowsWith(f, NoMail)])
    /\ \A f \in Completed : \A e \in ToSet(CsvRows[f]) : guests[e] > 0

(***************************************************************************)
(* In the end no job waits or runs and the organiser sees every file the   *)
(* workers have taken as completed or failed, unless the job's last word   *)
(* was lost with its worker or with the write that should have recorded it.*)
(***************************************************************************)
QueuedFilesEnd ==
    <>[](\A f \in File :
           /\ queued[f].state \notin {"waiting", "active"}
           /\ file[f] = "PROCESSING" => f \in lost)
=============================================================================
