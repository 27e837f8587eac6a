----------------------------- MODULE Idempotency -----------------------------
(***************************************************************************)
(* Requests with an Idempotency-Key: POST /orders behind the               *)
(* IdempotencyInterceptor and POST /payments, which asks the               *)
(* IdempotencyService.  Both keep their record under idem:{user}:{key}; a  *)
(* Key here is a user with one of the user's keys.  A Body stands for a    *)
(* request body and its hash, and decides which of the two handles it.     *)
(*                                                                         *)
(* raced, expired and torn are history: keys a request has marked which it *)
(* had found free and another had marked since, keys whose record ran out, *)
(* and keys deleted because their request failed, though it had created    *)
(* its order and left it behind.                                           *)
(***************************************************************************)
EXTENDS FiniteSets

CONSTANTS
    Req,            \* requests, retries of a client included
    Key,
    Body,
    HandlerOf,      \* "order" or "payment"
    Nobody, NoBody  \* no request, no body

ASSUME IdempotencyAssumption ==
    /\ HandlerOf \in [Body -> {"order", "payment"}]
    /\ Nobody \notin Req /\ NoBody \notin Body
    /\ Key # {}

VARIABLES
    record,         \* record[k]: status, hash of the body, whose answer it is
    req,            \* req[r]: step, key, body, the request that answers it,
                    \* and whether it found the key free
    effective,      \* requests that created their order or payment
    raced, expired, torn

idemVars == <<record, req, effective, raced, expired, torn>>

NoRecord == [status |-> "NONE", body |-> NoBody, answer |-> Nobody]
NewReq == [step |-> "new", key |-> CHOOSE k \in Key : TRUE, body |-> NoBody,
           answer |-> Nobody, free |-> FALSE]

ReqStep == {"new", "lookup", "mark", "handle", "save", "fail",
            "conflict", "replayed", "ended"}

IdempotencyTypeOK ==
    /\ record \in [Key -> [status : {"NONE", "PROCESSING", "COMPLETED", "FAILED"},
                           body : Body \cup {NoBody}, answer : Req \cup {Nobody}]]
    /\ req \in [Req -> [step : ReqStep, key : Key, body : Body \cup {NoBody},
                        answer : Req \cup {Nobody}, free : BOOLEAN]]
    /\ effective \subseteq Req
    /\ raced \subseteq Key /\ expired \subseteq Key /\ torn \subseteq Key

IdempotencyInit ==
    /\ record = [k \in Key |-> NoRecord]
    /\ req = [r \in Req |-> NewReq]
    /\ effective = {} /\ raced = {} /\ expired = {} /\ torn = {}

-----------------------------------------------------------------------------
IsOrder(r) == HandlerOf[req[r].body] = "order"
RecordOf(r) == record[req[r].key]
Move(r, step) == req' = [req EXCEPT ![r].step = step]
Write(r, status, answer) ==
    record' = [record EXCEPT ![req[r].key] =
                 [status |-> status, body |-> req[r].body, answer |-> answer]]

Arrive(r, k, b) ==
    /\ req[r].step = "new"
    /\ req' = [req EXCEPT ![r] = [NewReq EXCEPT !.step = "lookup", !.key = k, !.body = b]]
    /\ UNCHANGED <<record, effective, raced, expired, torn>>

(* Mutant of InUse: a key in progress does not stop a request. *)
InUseNever(r) == RecordOf(r).status = "FAILED"
(* The interceptor refuses a key in progress; a payment also one that      *)
(* failed.                                                                 *)
InUse(r) == RecordOf(r).status \in (IF IsOrder(r) THEN {"PROCESSING"} ELSE {"PROCESSING", "FAILED"})

(* GET, and what the record says. *)
Lookup(r) ==
    /\ req[r].step = "lookup"
    /\ LET known == RecordOf(r).status # "NONE"
       IN CASE ~ known -> req' = [req EXCEPT ![r].step = "mark", ![r].free = TRUE]
            [] known /\ (InUse(r) \/ RecordOf(r).body # req[r].body) -> Move(r, "conflict")
            [] known /\ ~ InUse(r) /\ RecordOf(r).body = req[r].body ->
                 IF RecordOf(r).status = "COMPLETED"
                   THEN req' = [req EXCEPT ![r].step = "replayed", ![r].answer = RecordOf(r).answer]
                   ELSE Move(r, "mark")
    /\ UNCHANGED <<record, effective, raced, expired, torn>>

(* PROCESSING: SET of the interceptor, SET NX of the service, whose result *)
(* nobody looks at.                                                        *)
Mark(r) ==
    /\ req[r].step = "mark"
    /\ IF IsOrder(r) \/ RecordOf(r).status = "NONE"
         THEN Write(r, "PROCESSING", Nobody)
         ELSE UNCHANGED record
    /\ raced' = IF req[r].free /\ RecordOf(r).status # "NONE" THEN raced \cup {req[r].key} ELSE raced
    /\ Move(r, "handle")
    /\ UNCHANGED <<effective, expired, torn>>

(* The order or payment is created, or not, or it is created and a later   *)
(* step of the handler throws: its compensation that fails or does not     *)
(* get to the order, or (of an order) the queue that takes its expire job. *)
Handle(r) ==
    /\ req[r].step = "handle"
    /\ \/ /\ effective' = effective \cup {r}
          /\ req' = [req EXCEPT ![r].step = "save", ![r].answer = r]
       \/ /\ Move(r, "fail")
          /\ effective' \in {effective, effective \cup {r}}
    /\ UNCHANGED <<record, raced, expired, torn>>

(* COMPLETED.  The interceptor neither waits for it nor minds an error; an *)
(* error sends a payment into its catch block.                             *)
Save(r) ==
    /\ req[r].step = "save"
    /\ \/ Write(r, "COMPLETED", r) /\ Move(r, "ended")
       \/ IsOrder(r) /\ Move(r, "ended") /\ UNCHANGED record
       \/ /\ ~ IsOrder(r) /\ UNCHANGED record
          /\ req' = [req EXCEPT ![r].step = "fail", ![r].answer = Nobody]
    /\ UNCHANGED <<effective, raced, expired, torn>>

(* DEL by the interceptor, FAILED by the service; either may fail. *)
Fail(r) ==
    /\ req[r].step = "fail"
    /\ \/ /\ IsOrder(r)
          /\ record' = [record EXCEPT ![req[r].key] = NoRecord]
          /\ torn' = IF r \in effective THEN torn \cup {req[r].key} ELSE torn
       \/ /\ ~ IsOrder(r)
          /\ Write(r, "FAILED", Nobody)
          /\ UNCHANGED torn
       \/ UNCHANGED <<record, torn>>
    /\ Move(r, "ended")
    /\ UNCHANGED <<effective, raced, expired>>

(* The process stops. *)
RequestCrash(r) ==
    /\ req[r].step \in {"lookup", "mark", "handle", "save", "fail"}
    /\ Move(r, "ended")
    /\ UNCHANGED <<record, effective, raced, expired, torn>>

(* Fifteen minutes after its last SET. *)
Expire(k) ==
    /\ record[k] # NoRecord
    /\ record' = [record EXCEPT ![k] = NoRecord]
    /\ expired' = expired \cup {k}
    /\ UNCHANGED <<req, effective, raced, torn>>

IdempotencyNext ==
    \/ \E r \in Req :
         \/ \E k \in Key, b \in Body : Arrive(r, k, b)
         \/ Lookup(r) \/ Mark(r) \/ Handle(r) \/ Save(r) \/ Fail(r) \/ RequestCrash(r)
    \/ \E k \in Key : Expire(k)

IdempotencySpec == IdempotencyInit /\ [][IdempotencyNext]_idemVars

-----------------------------------------------------------------------------
(***************************************************************************)
(* Two requests with one key create two orders or payments only if both    *)
(* had looked before either marked the key, its record had run out, or the *)
(* first one failed after its order was created: not because one crashed,  *)
(* failed before, was refused, or could not store its answer.              *)
(***************************************************************************)
RunsOnceUnlessRaced ==
    \A r, s \in effective :
      r # s /\ req[r].key = req[s].key => req[r].key \in raced \cup expired \cup torn

(***************************************************************************)
(* An answer given from the record is that of a request that took effect,  *)
(* with the same key and the same body, even after a race.                 *)
(***************************************************************************)
ReplaysOwnAnswer ==
    \A r \in Req : req[r].step = "replayed" =>
      /\ req[r].answer \in effective
      /\ req[req[r].answer].key = req[r].key
      /\ req[req[r].answer].body = req[r].body
=============================================================================
