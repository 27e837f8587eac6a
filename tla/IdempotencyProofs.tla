-------------------------- MODULE IdempotencyProofs --------------------------
(***************************************************************************)
(* What a record per key guarantees, for every set of requests, keys and   *)
(* bodies, with requests that overlap, fail and stop anywhere.             *)
(***************************************************************************)
EXTENDS Idempotency, TLAPS

(* A request whose key it has marked and not given up. *)
Underway(r) == req[r].step \in {"handle", "save", "fail"}
Counts(r) == Underway(r) \/ r \in effective

(* How far a request is that took effect, or is about to store its answer. *)
EffectiveRan ==
    /\ \A r \in effective : req[r].step \in {"save", "fail", "ended"}
    /\ \A r \in Req : req[r].step = "save" => r \in effective

(* An answer that is not replayed is the request's own. *)
AnswersOwn ==
    \A r \in Req : req[r].answer # Nobody /\ req[r].step # "replayed" =>
      req[r].step \in {"save", "ended"} /\ req[r].answer = r /\ r \in effective

(* A failed order leaves no record, so nobody marks a key found in use. *)
MarkedFree ==
    /\ \A r \in Req : req[r].step = "mark" => req[r].free
    /\ \A k \in Key : record[k].status = "FAILED" => HandlerOf[record[k].body] # "order"

(* A request that counts holds its key, alone. *)
HoldsKey ==
    \A r \in Req : Counts(r) /\ req[r].key \notin raced \cup expired \cup torn =>
      /\ record[req[r].key].status # "NONE"
      /\ \A s \in Req : Counts(s) /\ req[s].key = req[r].key => s = r

(* A completed record tells the answer of a request of its key and body. *)
RecordsOwn ==
    \A k \in Key : record[k].status = "COMPLETED" =>
      /\ record[k].answer \in effective
      /\ req[record[k].answer].key = k
      /\ req[record[k].answer].body = record[k].body

IInv == /\ IdempotencyTypeOK /\ EffectiveRan /\ AnswersOwn /\ MarkedFree
        /\ HoldsKey /\ RecordsOwn /\ ReplaysOwnAnswer

-----------------------------------------------------------------------------
(* All of it holds before the first request. *)
LEMMA InitIInv ==
    ASSUME IdempotencyAssumption, IdempotencyInit
    PROVE  IInv
<1>1. NewReq.key \in Key /\ NewReq.step = "new" /\ NewReq.body = NoBody
      /\ NewReq.answer = Nobody /\ NewReq.free = FALSE
  BY DEF IdempotencyAssumption, NewReq
<1>2. IdempotencyTypeOK
  BY DEF IdempotencyInit, IdempotencyTypeOK, IdempotencyAssumption, NewReq, NoRecord, ReqStep
<1> QED
  BY <1>1, <1>2
  DEF IdempotencyInit, IInv, EffectiveRan, MarkedFree, HoldsKey, Counts, Underway,
      RecordsOwn, ReplaysOwnAnswer, NoRecord, AnswersOwn

(* A request arrives with a key and a body. *)
LEMMA ArriveIInv ==
    ASSUME IdempotencyAssumption, IInv, NEW r \in Req, NEW k \in Key, NEW b \in Body,
           Arrive(r, k, b)
    PROVE  IInv'
<1>1. /\ req' \in [Req -> [step : ReqStep, key : Key, body : Body \cup {NoBody},
                           answer : Req \cup {Nobody}, free : BOOLEAN]]
      /\ req'[r].step = "lookup"
      /\ \A s \in Req \ {r} : req'[s] = req[s]
  BY DEF Arrive, IInv, IdempotencyTypeOK, NewReq, ReqStep
<1>2. r \notin effective /\ ~ Underway(r)
  BY DEF Arrive, IInv, EffectiveRan, Underway
<1>3. UNCHANGED <<record, effective, raced, expired, torn>>
  BY DEF Arrive
<1>4. IdempotencyTypeOK'
  BY <1>1, <1>3 DEF IInv, IdempotencyTypeOK
<1>5. EffectiveRan' /\ MarkedFree'
  BY <1>1, <1>2, <1>3 DEF IInv, EffectiveRan, MarkedFree, IsOrder, IdempotencyTypeOK
<1>6. HoldsKey'
  BY <1>1, <1>2, <1>3 DEF IInv, HoldsKey, Counts, Underway, IdempotencyTypeOK
<1>7. RecordsOwn' /\ ReplaysOwnAnswer'
  BY <1>1, <1>2, <1>3 DEF IInv, RecordsOwn, ReplaysOwnAnswer, IdempotencyTypeOK
<1>8. AnswersOwn'
  <2>1. req'[r].answer = Nobody
    BY DEF Arrive, IInv, IdempotencyTypeOK, NewReq
  <2> QED
    BY <1>1, <1>3, <2>1 DEF IInv, AnswersOwn
<1> QED
  BY <1>4, <1>5, <1>6, <1>7, <1>8 DEF IInv

(* What a step leaves of the requests: keys and bodies, and the others. *)
KeepsRequests(r) ==
    /\ req' \in [Req -> [step : ReqStep, key : Key, body : Body \cup {NoBody},
                         answer : Req \cup {Nobody}, free : BOOLEAN]]
    /\ req'[r].key = req[r].key /\ req'[r].body = req[r].body
    /\ \A s \in Req \ {r} : req'[s] = req[s]

(* A request reads its record. *)
LEMMA LookupIInv ==
    ASSUME IInv, NEW r \in Req, Lookup(r)
    PROVE  IInv'
<1> DEFINE known == RecordOf(r)
<1>1. known \in [status : {"NONE", "PROCESSING", "COMPLETED", "FAILED"},
                 body : Body \cup {NoBody}, answer : Req \cup {Nobody}]
      /\ req[r].key \in Key
  BY DEF IInv, IdempotencyTypeOK, RecordOf
<1>2. UNCHANGED <<record, effective, raced, expired, torn>>
  BY DEF Lookup
<1>3. \/ known.status = "NONE" /\ req' = [req EXCEPT ![r].step = "mark", ![r].free = TRUE]
      \/ req' = [req EXCEPT ![r].step = "conflict"]
      \/ /\ known.status = "COMPLETED" /\ known.body = req[r].body
         /\ req' = [req EXCEPT ![r].step = "replayed", ![r].answer = known.answer]
  <2>1. ~ (known.status = "FAILED" /\ IsOrder(r) /\ known.body = req[r].body)
    BY <1>1 DEF IInv, MarkedFree, IsOrder, RecordOf
  <2> QED
    BY <1>1, <2>1 DEF Lookup, InUse, Move
<1>4. KeepsRequests(r) /\ req'[r].step \in {"mark", "conflict", "replayed"}
      /\ (req'[r].step = "mark" => req'[r].free)
  BY <1>1, <1>3 DEF KeepsRequests, IInv, IdempotencyTypeOK, ReqStep
<1>5. r \notin effective /\ ~ Underway(r)
  BY DEF Lookup, IInv, EffectiveRan, Underway
<1>6. IdempotencyTypeOK'
  BY <1>2, <1>4 DEF IInv, IdempotencyTypeOK, KeepsRequests
<1>7. EffectiveRan' /\ MarkedFree'
  BY <1>2, <1>4, <1>5
  DEF IInv, EffectiveRan, MarkedFree, IsOrder, IdempotencyTypeOK, KeepsRequests
<1>8. HoldsKey'
  BY <1>2, <1>4, <1>5 DEF IInv, HoldsKey, Counts, Underway, IdempotencyTypeOK, KeepsRequests
<1>9. RecordsOwn'
  BY <1>2, <1>4, <1>5 DEF IInv, RecordsOwn, IdempotencyTypeOK, KeepsRequests
<1>10. ReplaysOwnAnswer'
  <2>1. req'[r].step = "replayed" =>
          req'[r].answer = known.answer /\ known.status = "COMPLETED" /\ known.body = req[r].body
    BY <1>3 DEF IInv, IdempotencyTypeOK
  <2>2. known.status = "COMPLETED" =>
          known.answer \in effective /\ req[known.answer].key = req[r].key
          /\ req[known.answer].body = known.body
    BY <1>1 DEF IInv, RecordsOwn, RecordOf
  <2> QED
    BY <1>2, <1>4, <1>5, <2>1, <2>2
    DEF IInv, ReplaysOwnAnswer, IdempotencyTypeOK, KeepsRequests
<1>11. AnswersOwn'
  <2>1. req[r].answer = Nobody
    BY DEF Lookup, IInv, AnswersOwn
  <2>2. req'[r].step = "replayed" \/ req'[r].answer = req[r].answer
    BY <1>3 DEF IInv, IdempotencyTypeOK
  <2> QED
    BY <1>2, <1>4, <2>1, <2>2 DEF IInv, AnswersOwn, KeepsRequests
<1> QED
  BY <1>6, <1>7, <1>8, <1>9, <1>10, <1>11 DEF IInv

(* A request marks its key: nobody else counts for it, or it was raced. *)
LEMMA MarkIInv ==
    ASSUME IInv, NEW r \in Req, Mark(r)
    PROVE  IInv'
<1> DEFINE k == req[r].key
<1>1. /\ k \in Key
      /\ r \notin effective /\ ~ Underway(r)
      /\ req[r].free
      /\ UNCHANGED <<effective, expired, torn>>
  BY DEF IInv, IdempotencyTypeOK, EffectiveRan, MarkedFree, Mark, Underway
<1>2. KeepsRequests(r) /\ req'[r].step = "handle"
  BY DEF Mark, Move, KeepsRequests, IInv, IdempotencyTypeOK, ReqStep
<1>3. raced' = IF record[k].status # "NONE" THEN raced \cup {k} ELSE raced
  BY <1>1 DEF Mark, RecordOf
<1>4. /\ record' \in [Key -> [status : {"NONE", "PROCESSING", "COMPLETED", "FAILED"},
                              body : Body \cup {NoBody}, answer : Req \cup {Nobody}]]
      /\ \A j \in Key \ {k} : record'[j] = record[j]
      /\ \/ record'[k] = record[k] /\ record[k].status # "NONE"
         \/ record'[k].status = "PROCESSING"
  BY <1>1 DEF Mark, Write, RecordOf, IInv, IdempotencyTypeOK
<1>5. IdempotencyTypeOK'
  BY <1>1, <1>2, <1>3, <1>4 DEF IInv, IdempotencyTypeOK, KeepsRequests
<1>6. EffectiveRan' /\ MarkedFree'
  <2>1. EffectiveRan'
    BY <1>1, <1>2 DEF IInv, EffectiveRan, IsOrder, IdempotencyTypeOK, KeepsRequests
  <2>2. \A s \in Req : req'[s].step = "mark" => req'[s].free
    BY <1>2 DEF IInv, MarkedFree, KeepsRequests
  <2>3. \A j \in Key : record'[j].status = "FAILED" => record'[j] = record[j]
    BY <1>4
  <2>4. \A j \in Key : record'[j].status = "FAILED" => HandlerOf[record'[j].body] # "order"
    BY <2>3 DEF IInv, MarkedFree
  <2> QED
    BY <2>1, <2>2, <2>4 DEF MarkedFree
<1>7. HoldsKey'
  <2> SUFFICES ASSUME NEW s \in Req, Counts(s)', req'[s].key \notin (raced \cup expired \cup torn)'
               PROVE  /\ record'[req'[s].key].status # "NONE"
                      /\ \A q \in Req : Counts(q)' /\ req'[q].key = req'[s].key => q = s
    BY DEF HoldsKey
  <2>1. \A q \in Req : req'[q].key = req[q].key /\ req[q].key \in Key
    BY <1>2 DEF KeepsRequests, IInv, IdempotencyTypeOK
  <2>2. \A q \in Req \ {r} : Counts(q)' => Counts(q)
    BY <1>1, <1>2 DEF Counts, Underway, KeepsRequests
  <2>3. req[s].key \notin raced \cup expired \cup torn
    BY <1>1, <1>3, <2>1
  <2>4. CASE req[s].key # k
    <3>1. s # r /\ Counts(s)
      BY <2>2, <2>4
    <3> QED
      BY <1>4, <2>1, <2>2, <2>3, <2>4, <3>1 DEF IInv, HoldsKey
  <2>5. CASE req[s].key = k
    <3>1. record[k].status = "NONE"
      BY <1>3, <2>1, <2>5
    <3>2. \A q \in Req : Counts(q) => req[q].key # k
      BY <2>3, <2>5, <3>1 DEF IInv, HoldsKey
    <3>3. \A q \in Req \ {r} : Counts(q)' => req[q].key # k
      BY <2>2, <3>2
    <3> QED
      BY <1>4, <2>1, <2>5, <3>1, <3>3
  <2> QED
    BY <2>4, <2>5
<1>8. RecordsOwn' /\ ReplaysOwnAnswer'
  <2>1. /\ \A s \in Req : req'[s].key = req[s].key /\ req'[s].body = req[s].body
        /\ \A s \in Req : req'[s].step = "replayed" => req'[s] = req[s]
    BY <1>2 DEF KeepsRequests
  <2>2. effective' = effective /\ effective \subseteq Req
    BY <1>1 DEF IInv, IdempotencyTypeOK
  <2>3. \A j \in Key : record'[j].status = "COMPLETED" =>
          \/ record'[j] = record[j]
          \/ /\ j = k /\ record'[j].answer = r
                 /\ record'[j].body = req[r].body /\ r \in effective
    BY <1>1, <1>4 DEF IInv, IdempotencyTypeOK
  <2>4. RecordsOwn /\ ReplaysOwnAnswer
    BY DEF IInv
  <2>5. RecordsOwn'
    BY <2>1, <2>2, <2>3, <2>4 DEF RecordsOwn
  <2>6. ReplaysOwnAnswer'
    BY <2>1, <2>2, <2>4 DEF ReplaysOwnAnswer
  <2> QED
    BY <2>5, <2>6
<1>9. AnswersOwn'
  <2>1. req[r].answer = Nobody /\ req'[r].answer = req[r].answer
    BY DEF Mark, Move, IInv, AnswersOwn, IdempotencyTypeOK
  <2> QED
    BY <1>1, <1>2, <2>1 DEF IInv, AnswersOwn, KeepsRequests
<1> QED
  BY <1>5, <1>6, <1>7, <1>8, <1>9 DEF IInv

(* A request whose key it has marked takes effect or fails. *)
LEMMA HandleIInv ==
    ASSUME IInv, NEW r \in Req, Handle(r)
    PROVE  IInv'
<1>1. /\ r \notin effective /\ Underway(r)
      /\ UNCHANGED <<record, raced, expired, torn>>
      /\ \/ effective' = effective \cup {r} /\ req'[r].step = "save" /\ req'[r].answer = r
         \/ /\ effective' \in {effective, effective \cup {r}}
            /\ req'[r].step = "fail" /\ req'[r].answer = req[r].answer
  BY DEF Handle, Move, IInv, EffectiveRan, Underway, IdempotencyTypeOK
<1>2. KeepsRequests(r)
  BY DEF Handle, Move, KeepsRequests, IInv, IdempotencyTypeOK, ReqStep
<1>3. IdempotencyTypeOK'
  BY <1>1, <1>2 DEF IInv, IdempotencyTypeOK, KeepsRequests
<1>4. EffectiveRan' /\ MarkedFree'
  BY <1>1, <1>2 DEF IInv, EffectiveRan, MarkedFree, IsOrder, IdempotencyTypeOK, KeepsRequests
<1>5. HoldsKey'
  <2>1. \A s \in Req : Counts(s)' => Counts(s)
    BY <1>1, <1>2 DEF Counts, Underway, KeepsRequests
  <2>2. \A s \in Req : req'[s].key = req[s].key
    BY <1>2 DEF KeepsRequests
  <2> QED
    BY <1>1, <2>1, <2>2 DEF IInv, HoldsKey
<1>6. RecordsOwn' /\ ReplaysOwnAnswer'
  BY <1>1, <1>2 DEF IInv, RecordsOwn, ReplaysOwnAnswer, IdempotencyTypeOK, KeepsRequests
<1>7. AnswersOwn'
  <2>1. req[r].answer = Nobody
    BY DEF Handle, IInv, AnswersOwn
  <2> QED
    BY <1>1, <1>2, <2>1 DEF IInv, AnswersOwn, KeepsRequests
<1> QED
  BY <1>3, <1>4, <1>5, <1>6, <1>7 DEF IInv

(* A request stores its answer, or cannot. *)
LEMMA SaveIInv ==
    ASSUME IInv, NEW r \in Req, Save(r)
    PROVE  IInv'
<1> DEFINE k == req[r].key
<1>1. /\ r \in effective /\ Counts(r) /\ k \in Key
      /\ UNCHANGED <<effective, raced, expired, torn>>
  BY DEF Save, IInv, EffectiveRan, Counts, Underway, IdempotencyTypeOK
<1>2. KeepsRequests(r) /\ req'[r].step \in {"ended", "fail"}
      /\ (req'[r].step = "fail" => ~ IsOrder(r))
  BY DEF Save, Move, KeepsRequests, IInv, IdempotencyTypeOK, ReqStep
<1>3. \/ record' = record
      \/ record' = [record EXCEPT ![k] = [status |-> "COMPLETED", body |-> req[r].body, answer |-> r]]
  BY DEF Save, Write
<1>4. IdempotencyTypeOK'
  BY <1>1, <1>2, <1>3 DEF IInv, IdempotencyTypeOK, KeepsRequests
<1>5. EffectiveRan' /\ MarkedFree'
  <2>1. /\ req'[r].body = req[r].body
        /\ \A s \in Req \ {r} : req'[s] = req[s]
    BY <1>2 DEF KeepsRequests
  <2>2. EffectiveRan /\ MarkedFree
    BY DEF IInv
  <2>4. effective' = effective /\ \A s \in effective' : req'[s].step \in {"save", "fail", "ended"}
    BY <1>1, <1>2, <2>1, <2>2 DEF EffectiveRan, IInv, IdempotencyTypeOK
  <2>5. \A s \in Req : req'[s].step = "save" => s \in effective'
    BY <1>2, <2>1, <2>2, <2>4 DEF EffectiveRan
  <2>7. \A s \in Req : req'[s].step = "mark" => req'[s].free
    BY <1>2, <2>1, <2>2 DEF MarkedFree
  <2>8. \A j \in Key : record'[j].status = "FAILED" => HandlerOf[record'[j].body] # "order"
    <3>1. \A j \in Key : \/ record'[j] = record[j]
                         \/ record'[j].status \in {"COMPLETED", "NONE"}
                         \/ record'[j].body = req[r].body /\ ~ IsOrder(r)
      BY <1>3 DEF IInv, IdempotencyTypeOK
    <3> QED
      BY <2>2, <3>1 DEF MarkedFree, IsOrder
  <2> QED
    BY <2>4, <2>5, <2>7, <2>8 DEF EffectiveRan, MarkedFree
<1>6. HoldsKey'
  <2>1. \A s \in Req : Counts(s)' => Counts(s)
    BY <1>1, <1>2 DEF Counts, Underway, KeepsRequests
  <2>2. \A s \in Req : req'[s].key = req[s].key /\ req[s].key \in Key
    BY <1>2 DEF KeepsRequests, IInv, IdempotencyTypeOK
  <2>3. \A j \in Key : record[j].status # "NONE" => record'[j].status # "NONE"
    BY <1>1, <1>3 DEF IInv, IdempotencyTypeOK
  <2> QED
    BY <1>1, <2>1, <2>2, <2>3 DEF IInv, HoldsKey
<1>7. RecordsOwn' /\ ReplaysOwnAnswer'
  <2>1. /\ \A s \in Req : req'[s].key = req[s].key /\ req'[s].body = req[s].body
        /\ \A s \in Req : req'[s].step = "replayed" => req'[s] = req[s]
    BY <1>2 DEF KeepsRequests
  <2>2. effective' = effective /\ effective \subseteq Req
    BY <1>1 DEF IInv, IdempotencyTypeOK
  <2>3. \A j \in Key : record'[j].status = "COMPLETED" =>
          \/ record'[j] = record[j]
          \/ /\ j = k /\ record'[j].answer = r
                 /\ record'[j].body = req[r].body /\ r \in effective
    BY <1>1, <1>3 DEF IInv, IdempotencyTypeOK
  <2>4. RecordsOwn /\ ReplaysOwnAnswer
    BY DEF IInv
  <2>5. RecordsOwn'
    BY <2>1, <2>2, <2>3, <2>4 DEF RecordsOwn
  <2>6. ReplaysOwnAnswer'
    BY <2>1, <2>2, <2>4 DEF ReplaysOwnAnswer
  <2> QED
    BY <2>5, <2>6
<1>8. AnswersOwn'
  <2>1. \/ req'[r].answer = Nobody
        \/ req'[r].answer = req[r].answer /\ req'[r].step = "ended"
    BY DEF Save, Move, IInv, IdempotencyTypeOK
  <2>2. req[r].answer # Nobody => req[r].answer = r
    BY DEF Save, IInv, AnswersOwn
  <2> QED
    BY <1>1, <1>2, <2>1, <2>2 DEF IInv, AnswersOwn, KeepsRequests
<1> QED
  BY <1>4, <1>5, <1>6, <1>7, <1>8 DEF IInv

(* A failed request frees its key, if it is an order's, and ends. *)
LEMMA FailIInv ==
    ASSUME IdempotencyAssumption, IInv, NEW r \in Req, Fail(r)
    PROVE  IInv'
<1> DEFINE k == req[r].key
<1>1. /\ Counts(r) /\ k \in Key
      /\ UNCHANGED <<effective, raced, expired>>
  BY DEF Fail, IInv, EffectiveRan, Counts, Underway, IdempotencyTypeOK
<1>2. KeepsRequests(r) /\ req'[r].step = "ended"
  BY DEF Fail, Move, KeepsRequests, IInv, IdempotencyTypeOK, ReqStep
<1>3. \/ record' = record
      \/ ~ IsOrder(r)
         /\ record' = [record EXCEPT ![k] = [status |-> "FAILED", body |-> req[r].body, answer |-> Nobody]]
      \/ IsOrder(r) /\ (r \in effective => k \in torn')
         /\ record' = [record EXCEPT ![k] = [status |-> "NONE", body |-> NoBody, answer |-> Nobody]]
  BY DEF Fail, Write, NoRecord
<1>9. torn \subseteq torn' /\ torn' \subseteq Key
  BY <1>1 DEF Fail, IInv, IdempotencyTypeOK
<1>4. IdempotencyTypeOK'
  BY <1>1, <1>2, <1>3, <1>9, SMTT(30) DEF IInv, IdempotencyTypeOK, KeepsRequests
<1>5. EffectiveRan' /\ MarkedFree'
  <2>1. /\ req'[r].body = req[r].body
        /\ \A s \in Req \ {r} : req'[s] = req[s]
    BY <1>2 DEF KeepsRequests
  <2>2. EffectiveRan /\ MarkedFree
    BY DEF IInv
  <2>4. effective' = effective /\ \A s \in effective' : req'[s].step \in {"save", "fail", "ended"}
    BY <1>1, <1>2, <2>1, <2>2 DEF EffectiveRan, IInv, IdempotencyTypeOK
  <2>5. \A s \in Req : req'[s].step = "save" => s \in effective'
    BY <1>2, <2>1, <2>2, <2>4 DEF EffectiveRan
  <2>7. \A s \in Req : req'[s].step = "mark" => req'[s].free
    BY <1>2, <2>1, <2>2 DEF MarkedFree
  <2>8. \A j \in Key : record'[j].status = "FAILED" => HandlerOf[record'[j].body] # "order"
    <3>1. \A j \in Key : \/ record'[j] = record[j]
                         \/ record'[j].status \in {"COMPLETED", "NONE"}
                         \/ record'[j].body = req[r].body /\ ~ IsOrder(r)
      BY <1>3 DEF IInv, IdempotencyTypeOK
    <3> QED
      BY <2>2, <3>1 DEF MarkedFree, IsOrder
  <2> QED
    BY <2>4, <2>5, <2>7, <2>8 DEF EffectiveRan, MarkedFree
<1>6. HoldsKey'
  <2>1. \A s \in Req : Counts(s)' => Counts(s)
    BY <1>1, <1>2 DEF Counts, Underway, KeepsRequests
  <2>2. \A s \in Req : req'[s].key = req[s].key /\ req[s].key \in Key
    BY <1>2 DEF KeepsRequests, IInv, IdempotencyTypeOK
  <2>3. r \notin effective => ~ Counts(r)'
    BY <1>1, <1>2 DEF Counts, Underway
  <2>4. ASSUME NEW s \in Req, Counts(s)', req[s].key \notin (raced \cup expired \cup torn)'
        PROVE  record'[req[s].key].status # "NONE"
    <3>1. record[req[s].key].status # "NONE"
          /\ (req[s].key = k => s = r)
      BY <1>1, <1>9, <2>1, <2>4 DEF IInv, HoldsKey
    <3> QED
      BY <1>1, <1>3, <2>2, <2>3, <2>4, <3>1 DEF IInv, IdempotencyTypeOK
  <2>5. ASSUME NEW s \in Req, Counts(s)', req[s].key \notin (raced \cup expired \cup torn)',
               NEW q \in Req, Counts(q)', req[q].key = req[s].key
        PROVE  q = s
    BY <1>1, <1>9, <2>1, <2>5 DEF IInv, HoldsKey
  <2> QED
    BY <2>2, <2>4, <2>5 DEF HoldsKey
<1>7. RecordsOwn' /\ ReplaysOwnAnswer'
  <2>1. /\ \A s \in Req : req'[s].key = req[s].key /\ req'[s].body = req[s].body
        /\ \A s \in Req : req'[s].step = "replayed" => req'[s] = req[s]
    BY <1>2 DEF KeepsRequests
  <2>2. effective' = effective /\ effective \subseteq Req
    BY <1>1 DEF IInv, IdempotencyTypeOK
  <2>3. \A j \in Key : record'[j].status = "COMPLETED" =>
          \/ record'[j] = record[j]
          \/ /\ j = k /\ record'[j].answer = r
                 /\ record'[j].body = req[r].body /\ r \in effective
    BY <1>1, <1>3 DEF IInv, IdempotencyTypeOK
  <2>4. RecordsOwn /\ ReplaysOwnAnswer
    BY DEF IInv
  <2>5. RecordsOwn'
    BY <2>1, <2>2, <2>3, <2>4 DEF RecordsOwn
  <2>6. ReplaysOwnAnswer'
    BY <2>1, <2>2, <2>4 DEF ReplaysOwnAnswer
  <2> QED
    BY <2>5, <2>6
<1>8. AnswersOwn'
  <2>1. req[r].answer = Nobody /\ req'[r].answer = req[r].answer
    BY DEF Fail, Move, IInv, AnswersOwn, IdempotencyTypeOK
  <2> QED
    BY <1>1, <1>2, <2>1 DEF IInv, AnswersOwn, KeepsRequests
<1> QED
  BY <1>4, <1>5, <1>6, <1>7, <1>8 DEF IInv

(* The process of a request stops. *)
LEMMA CrashIInv ==
    ASSUME IInv, NEW r \in Req, RequestCrash(r)
    PROVE  IInv'
<1>1. UNCHANGED <<record, effective, raced, expired, torn>>
  BY DEF RequestCrash
<1>2. KeepsRequests(r) /\ req'[r].step = "ended"
  BY DEF RequestCrash, Move, KeepsRequests, IInv, IdempotencyTypeOK, ReqStep
<1>3. IdempotencyTypeOK'
  BY <1>1, <1>2 DEF IInv, IdempotencyTypeOK, KeepsRequests
<1>4. EffectiveRan' /\ MarkedFree'
  BY <1>1, <1>2 DEF IInv, EffectiveRan, MarkedFree, IsOrder, IdempotencyTypeOK, KeepsRequests
<1>5. HoldsKey'
  <2>1. \A s \in Req : Counts(s)' => Counts(s)
    BY <1>1, <1>2 DEF Counts, Underway, KeepsRequests
  <2>2. \A s \in Req : req'[s].key = req[s].key
    BY <1>2 DEF KeepsRequests
  <2> QED
    BY <1>1, <2>1, <2>2 DEF IInv, HoldsKey
<1>6. RecordsOwn' /\ ReplaysOwnAnswer'
  BY <1>1, <1>2 DEF IInv, RecordsOwn, ReplaysOwnAnswer, IdempotencyTypeOK, KeepsRequests
<1>7. AnswersOwn'
  <2>1. req'[r].answer = req[r].answer
    BY DEF RequestCrash, Move, IInv, IdempotencyTypeOK
  <2>2. req[r].answer # Nobody => req[r].answer = r /\ r \in effective
    BY DEF RequestCrash, IInv, AnswersOwn
  <2> QED
    BY <1>1, <1>2, <2>1, <2>2 DEF IInv, AnswersOwn, KeepsRequests
<1> QED
  BY <1>3, <1>4, <1>5, <1>6, <1>7 DEF IInv

(* A record runs out. *)
LEMMA ExpireIInv ==
    ASSUME IdempotencyAssumption, IInv, NEW k \in Key, Expire(k)
    PROVE  IInv'
<1>1. /\ record' = [record EXCEPT ![k] = [status |-> "NONE", body |-> NoBody, answer |-> Nobody]]
      /\ expired' = expired \cup {k}
      /\ UNCHANGED <<req, effective, raced, torn>>
  BY DEF Expire, NoRecord
<1>2. IdempotencyTypeOK'
  BY <1>1 DEF IInv, IdempotencyTypeOK
<1>3. EffectiveRan' /\ MarkedFree'
  BY <1>1 DEF IInv, EffectiveRan, MarkedFree, IsOrder, IdempotencyTypeOK
<1>4. HoldsKey'
  BY <1>1 DEF IInv, HoldsKey, Counts, Underway, IdempotencyTypeOK
<1>5. RecordsOwn' /\ ReplaysOwnAnswer'
  BY <1>1 DEF IInv, RecordsOwn, ReplaysOwnAnswer, IdempotencyTypeOK
<1>6. AnswersOwn'
  BY <1>1 DEF IInv, AnswersOwn
<1> QED
  BY <1>2, <1>3, <1>4, <1>5, <1>6 DEF IInv

(* Every step keeps the invariant. *)
LEMMA NextIInv ==
    ASSUME IdempotencyAssumption, IInv, [IdempotencyNext]_idemVars
    PROVE  IInv'
<1>1. ASSUME NEW r \in Req, NEW k \in Key, NEW b \in Body, Arrive(r, k, b)
      PROVE  IInv'
  BY <1>1, ArriveIInv
<1>2. ASSUME NEW r \in Req, Lookup(r)  PROVE IInv'
  BY <1>2, LookupIInv
<1>3. ASSUME NEW r \in Req, Mark(r)  PROVE IInv'
  BY <1>3, MarkIInv
<1>4. ASSUME NEW r \in Req, Handle(r)  PROVE IInv'
  BY <1>4, HandleIInv
<1>5. ASSUME NEW r \in Req, Save(r)  PROVE IInv'
  BY <1>5, SaveIInv
<1>6. ASSUME NEW r \in Req, Fail(r)  PROVE IInv'
  BY <1>6, FailIInv
<1>7. ASSUME NEW r \in Req, RequestCrash(r)  PROVE IInv'
  BY <1>7, CrashIInv
<1>8. ASSUME NEW k \in Key, Expire(k)  PROVE IInv'
  BY <1>8, ExpireIInv
<1>9. CASE UNCHANGED idemVars
  BY <1>9
  DEF idemVars, IInv, IdempotencyTypeOK, EffectiveRan, MarkedFree, HoldsKey, Counts,
      Underway, RecordsOwn, ReplaysOwnAnswer, IsOrder, AnswersOwn
<1> QED
  BY <1>1, <1>2, <1>3, <1>4, <1>5, <1>6, <1>7, <1>8, <1>9 DEF IdempotencyNext

(* The strengthened invariant of the two ways to handle an Idempotency-Key. *)
LEMMA IInvHolds == IdempotencySpec => []IInv
<1>1. IdempotencyInit => IInv
  BY InitIInv, IdempotencyAssumption
<1>2. IInv /\ [IdempotencyNext]_idemVars => IInv'
  BY NextIInv, IdempotencyAssumption
<1> QED
  BY <1>1, <1>2, PTL DEF IdempotencySpec

(***************************************************************************)
(* A key runs its request once: two orders or payments under one key come  *)
(* only of two requests that had both read the key before either marked    *)
(* it, of a record that ran out, or of one that failed after its order was *)
(* created and whose key the interceptor deleted.                          *)
(***************************************************************************)
THEOREM RunsOnce == IdempotencySpec => []RunsOnceUnlessRaced
<1>1. IInv => RunsOnceUnlessRaced
  BY DEF IInv, IdempotencyTypeOK, HoldsKey, Counts, RunsOnceUnlessRaced
<1> QED
  BY <1>1, IInvHolds, PTL

(***************************************************************************)
(* Whatever races and failures there are, the answer a client is given     *)
(* from the record is that of a request with its own key and body that     *)
(* took effect.                                                            *)
(***************************************************************************)
THEOREM ReplaysOwn == IdempotencySpec => []ReplaysOwnAnswer
<1>1. IInv => ReplaysOwnAnswer
  BY DEF IInv
<1> QED
  BY <1>1, IInvHolds, PTL
=============================================================================
