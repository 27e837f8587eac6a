------------------------------ MODULE Reminders ------------------------------
(***************************************************************************)
(* The reminder of a concert (ReminderService, NotificationProcessor): one *)
(* delayed BullMQ job under the fixed id reminder-{concertId}, whose       *)
(* existence the concert row remembers in reminderJobId.  scheduleReminder *)
(* is not awaited by the request that calls it, so two may run together,   *)
(* and beside the worker.  A PATCH reads the row, writes the fields it     *)
(* gives, and schedules if one of them differs from what it had read.      *)
(*                                                                         *)
(* Times are those of the reminder (startsAt less 24 hours).  upset is     *)
(* history: schedulings met each other or the running job, something       *)
(* failed, or a PATCH that had read an older row changed it and did not    *)
(* schedule.                                                               *)
(***************************************************************************)
EXTENDS Naturals

CONSTANTS
    Sched,          \* requests, with their scheduleReminder, that may overlap
    RemindAt,       \* times a concert may be given
    Attempts,       \* attempts of the job
    Batch,          \* number of batches of recipients
    MaxNow,         \* bound: the clock
    MaxUpdates      \* bound: updates of the concert

ASSUME ReminderAssumption ==
    /\ RemindAt \subseteq Nat
    /\ Attempts \in Nat \ {0} /\ Batch \in Nat \ {0}
    /\ MaxNow \in Nat /\ MaxUpdates \in Nat

VARIABLES
    concert,        \* status, at, jobId (reminderJobId is set)
    job,            \* the job under the concert's job id
    run,            \* the worker's attempt: 0 idle, else the next batch
    sched,          \* sched[s]: a run of scheduleReminder, or a PATCH ("write")
    patch,          \* patch[s]: the fields a PATCH gives, and the row it read
    now, updates,
    upset

reminderVars == <<concert, job, run, sched, patch, now, updates, upset>>

ConcertStatus == {"DRAFT", "PUBLISHED", "CANCELLED"}
NoJob == [state |-> "none", due |-> 0, made |-> 0]
Idle == [step |-> "idle", at |-> 0, late |-> FALSE]
Field == {"status", "at"}
RowSeen == [status : ConcertStatus, at : Nat]
NoPatch == [gives |-> {}, new |-> [status |-> "DRAFT", at |-> 0],
            old |-> [status |-> "DRAFT", at |-> 0]]

ReminderTypeOK ==
    /\ concert \in [status : ConcertStatus, at : RemindAt, jobId : BOOLEAN]
    /\ job \in [state : {"none", "delayed", "active", "failed"},
                due : Nat, made : 0..Attempts]
    /\ run \in 0..Batch
    /\ sched \in [Sched -> [step : {"idle", "write", "read", "cancel", "look",
                                    "remove", "clear", "add", "store"},
                            at : Nat, late : BOOLEAN]]
    /\ patch \in [Sched -> [gives : SUBSET Field, new : RowSeen, old : RowSeen]]
    /\ now \in 0..MaxNow /\ updates \in 0..MaxUpdates
    /\ upset \in BOOLEAN

Scheduled(s) == sched[s].step \notin {"idle", "write"}
Busy == {s \in Sched : Scheduled(s)}

(* create: a concert published at once schedules its reminder. *)
ReminderInit ==
    /\ \E a \in RemindAt, st \in {"DRAFT", "PUBLISHED"}, s \in Sched :
         /\ concert = [status |-> st, at |-> a, jobId |-> FALSE]
         /\ sched = [r \in Sched |-> IF r = s /\ st = "PUBLISHED"
                                       THEN [Idle EXCEPT !.step = "read"] ELSE Idle]
    /\ patch = [s \in Sched |-> NoPatch]
    /\ job = NoJob
    /\ run = 0
    /\ now = 0 /\ updates = 0
    /\ upset = FALSE

-----------------------------------------------------------------------------
(* ConcertService.update: the row is read, ... *)
StartUpdate(s, gives, st, a) ==
    /\ updates < MaxUpdates /\ sched[s].step = "idle"
    /\ gives # {}
    /\ "status" \notin gives => st = concert.status
    /\ "at" \notin gives => a = concert.at
    /\ sched' = [sched EXCEPT ![s] = [Idle EXCEPT !.step = "write"]]
    /\ patch' = [patch EXCEPT ![s] =
                   [gives |-> gives, new |-> [status |-> st, at |-> a],
                    old |-> [status |-> concert.status, at |-> concert.at]]]
    /\ updates' = updates + 1
    /\ UNCHANGED <<concert, job, run, now, upset>>

(* ... what the request gives is written, and a field that differs from    *)
(* the row read reschedules.                                               *)
Reschedules(s) == patch[s].new # patch[s].old

WriteConcert(s) ==
    LET p == patch[s]
        status == IF "status" \in p.gives THEN p.new.status ELSE concert.status
        at == IF "at" \in p.gives THEN p.new.at ELSE concert.at
    IN /\ sched[s].step = "write"
       /\ concert' = [concert EXCEPT !.status = status, !.at = at]
       /\ sched' = [sched EXCEPT ![s] = IF Reschedules(s) THEN [Idle EXCEPT !.step = "read"]
                                                         ELSE Idle]
       /\ patch' = [patch EXCEPT ![s] = NoPatch]
       /\ upset' = (upset \/ IF Reschedules(s)
                              THEN Busy # {} \/ job.state \in {"active", "failed"}
                              ELSE status # concert.status \/ at # concert.at)
       /\ UNCHANGED <<job, run, now, updates>>

(* The request is refused (slug) or ends before it has written. *)
UpdateFails(s) ==
    /\ sched[s].step = "write"
    /\ sched' = [sched EXCEPT ![s] = Idle]
    /\ patch' = [patch EXCEPT ![s] = NoPatch]
    /\ UNCHANGED <<concert, job, run, now, updates, upset>>

Proceed(s, step) == sched' = [sched EXCEPT ![s].step = step]
EndsAt(s) == sched' = [sched EXCEPT ![s] = Idle]

(* scheduleReminder: nothing unless published; too late only cancels.      *)
ReadConcert(s) ==
    /\ sched[s].step = "read"
    /\ IF concert.status # "PUBLISHED" THEN EndsAt(s)
         ELSE sched' = [sched EXCEPT ![s] = [step |-> "cancel", at |-> concert.at,
                                             late |-> concert.at <= now]]
    /\ UNCHANGED <<concert, job, run, patch, now, updates, upset>>

AfterCancel(s) == IF sched[s].late THEN EndsAt(s) ELSE Proceed(s, "add")

(* cancelReminder: the stored id, ... *)
ReadJobId(s) ==
    /\ sched[s].step = "cancel"
    /\ IF concert.jobId THEN Proceed(s, "look") ELSE AfterCancel(s)
    /\ UNCHANGED <<concert, job, run, patch, now, updates, upset>>

(* Mutant of LookAtJob: a delayed job is not worth removing. *)
LookAtActiveJob(s) ==
    /\ sched[s].step = "look"
    /\ Proceed(s, IF job.state = "active" THEN "remove" ELSE "clear")
    /\ UNCHANGED <<concert, job, run, patch, now, updates, upset>>

(* ... the job and its state (a failed one stays in the queue), ... *)
LookAtJob(s) ==
    /\ sched[s].step = "look"
    /\ Proceed(s, IF job.state \in {"delayed", "active"} THEN "remove" ELSE "clear")
    /\ UNCHANGED <<concert, job, run, patch, now, updates, upset>>

(* ... its removal, which the lock of a running job refuses, ... *)
RemoveJob(s) ==
    /\ sched[s].step = "remove"
    /\ job' = IF job.state = "active" THEN job ELSE NoJob
    /\ Proceed(s, "clear")
    /\ UNCHANGED <<concert, run, patch, now, updates, upset>>

(* ... and reminderJobId. *)
ClearJobId(s) ==
    /\ sched[s].step = "clear"
    /\ concert' = [concert EXCEPT !.jobId = FALSE]
    /\ AfterCancel(s)
    /\ UNCHANGED <<job, run, patch, now, updates, upset>>

(* queue.add: BullMQ keeps a job that has the id already. *)
AddJob(s) ==
    /\ sched[s].step = "add"
    /\ job' = IF job.state = "none"
                THEN [state |-> "delayed", due |-> sched[s].at, made |-> 0] ELSE job
    /\ Proceed(s, "store")
    /\ UNCHANGED <<concert, run, patch, now, updates, upset>>

StoreJobId(s) ==
    /\ sched[s].step = "store"
    /\ concert' = [concert EXCEPT !.jobId = TRUE]
    /\ EndsAt(s)
    /\ UNCHANGED <<job, run, patch, now, updates, upset>>

(* An await throws or the process stops. *)
ScheduleFails(s) ==
    /\ Scheduled(s)
    /\ EndsAt(s)
    /\ upset' = TRUE
    /\ UNCHANGED <<concert, job, run, patch, now, updates>>

-----------------------------------------------------------------------------
(* The clock and the worker *)

ReminderTick ==
    /\ now < MaxNow
    /\ now' = now + 1
    /\ UNCHANGED <<concert, job, run, sched, patch, updates, upset>>

StartJob ==
    /\ job.state = "delayed" /\ job.due <= now
    /\ job' = [job EXCEPT !.state = "active"]
    /\ upset' = (upset \/ Busy # {})
    /\ UNCHANGED <<concert, run, sched, patch, now, updates>>

(* A finished job is removed (removeOnComplete). *)
CheckConcert ==
    /\ job.state = "active" /\ run = 0
    /\ IF concert.status = "CANCELLED" THEN job' = NoJob /\ run' = run
                                       ELSE run' = 1 /\ job' = job
    /\ UNCHANGED <<concert, sched, patch, now, updates, upset>>

SendBatch ==
    /\ run > 0
    /\ run' = IF run = Batch THEN 0 ELSE run + 1
    /\ job' = IF run = Batch THEN NoJob ELSE job
    /\ UNCHANGED <<concert, sched, patch, now, updates, upset>>

(* An attempt ends in an error: again after a pause, or never. *)
AttemptFails ==
    /\ job.state = "active"
    /\ job' = [job EXCEPT !.state = IF job.made + 1 < Attempts THEN "delayed" ELSE "failed",
                          !.made = job.made + 1]
    /\ run' = 0
    /\ upset' = TRUE
    /\ UNCHANGED <<concert, sched, patch, now, updates>>

ReminderNext ==
    \/ \E s \in Sched :
         \/ \E gives \in SUBSET Field, st \in ConcertStatus, a \in RemindAt :
              StartUpdate(s, gives, st, a)
         \/ WriteConcert(s) \/ UpdateFails(s)
         \/ ReadConcert(s) \/ ReadJobId(s) \/ LookAtJob(s) \/ RemoveJob(s)
         \/ ClearJobId(s) \/ AddJob(s) \/ StoreJobId(s) \/ ScheduleFails(s)
    \/ ReminderTick \/ StartJob \/ CheckConcert \/ SendBatch \/ AttemptFails

ReminderSpec == ReminderInit /\ [][ReminderNext]_reminderVars

-----------------------------------------------------------------------------
(***************************************************************************)
(* A published concert has a job due at its own time, whatever moves,      *)
(* cancellations and republications came before, once no scheduling runs   *)
(* and as long as none met another one, the running job or a failure (the  *)
(* fixed job id makes add do nothing while an old job is left) and no      *)
(* PATCH changed a row it had read too early to see that it did.           *)
(***************************************************************************)
ReminderOnTime ==
    Busy = {} /\ ~ upset /\ concert.status = "PUBLISHED" /\ concert.at > now =>
      job.state = "delayed" /\ job.due = concert.at
=============================================================================
