----------------------------- MODULE TokenBucket -----------------------------
(***************************************************************************)
(* The rate limit of one route (token-bucket.lua behind RateLimitGuard): a *)
(* request takes a token from the bucket of its user and one from the      *)
(* bucket of its IP address.  Requests without a user share one bucket.    *)
(* Tokens are counted in units of the refill rate, so that Rate and Need   *)
(* are whole numbers: Rate units per second, Need units per request.       *)
(*                                                                         *)
(* A request reads the clock of its server before its script runs, so      *)
(* scripts may run with times up to MaxLag older than the latest.          *)
(* spent, born, denied and late are history.                               *)
(***************************************************************************)
EXTENDS Integers

CONSTANTS
    Client,         \* users with a token, and Anonymous
    Ip,             \* IP addresses
    Cap, Rate, Need,
    MaxLag, MaxTime, MaxSpent   \* bounds

ASSUME BucketAssumption ==
    /\ Cap \in Nat /\ Rate \in Nat \ {0} /\ Need \in 0..Cap
    /\ MaxLag \in Nat /\ MaxTime \in Nat /\ MaxSpent \in Nat
    /\ Client \cap Ip = {}

VARIABLES
    clock,          \* seconds
    bucket,         \* bucket[k]: tokens and lastRefill; there is FALSE before its first use
    spent,          \* spent[k]: units granted from the bucket
    born,           \* born[k]: when the bucket was made
    denied,         \* buckets that have refused a request
    late            \* buckets a request has come to with an older time

bucketVars == <<clock, bucket, spent, born, denied, late>>

BucketKey == Client \cup Ip

BucketTypeOK ==
    /\ clock \in 0..MaxTime
    /\ bucket \in [BucketKey -> [there : BOOLEAN, tokens : 0..Cap, last : 0..MaxTime]]
    /\ spent \in [BucketKey -> Nat]
    /\ born \in [BucketKey -> 0..MaxTime]
    /\ denied \subseteq BucketKey /\ late \subseteq BucketKey

BucketInit ==
    /\ clock = 0
    /\ bucket = [k \in BucketKey |-> [there |-> FALSE, tokens |-> 0, last |-> 0]]
    /\ spent = [k \in BucketKey |-> 0]
    /\ born = [k \in BucketKey |-> 0]
    /\ denied = {} /\ late = {}

-----------------------------------------------------------------------------
(* Mutant of AtMostCap: a bucket takes all of its income. *)
Uncapped(n) == n
AtMostCap(n) == IF n > Cap THEN Cap ELSE n
Elapsed(b, now) == IF now < b.last THEN 0 ELSE now - b.last

(* refill: tokens for the seconds since lastRefill, at most a bucketful. *)
Refilled(b, now) == AtMostCap(b.tokens + Elapsed(b, now) * Rate)

Grants(b, now) == ~ b.there \/ Refilled(b, now) >= Need

(* Mutant of After: a grant leaves lastRefill alone, as a refusal does. *)
AfterKeepingTime(b, now) ==
    CASE ~ b.there -> [there |-> TRUE, tokens |-> Cap - Need, last |-> now]
      [] b.there /\ Grants(b, now) -> [b EXCEPT !.tokens = Refilled(b, now) - Need]
      [] b.there /\ ~ Grants(b, now) -> [b EXCEPT !.tokens = Refilled(b, now)]

(* A refusal stores the refilled tokens with the old lastRefill. *)
After(b, now) ==
    CASE ~ b.there -> [there |-> TRUE, tokens |-> Cap - Need, last |-> now]
      [] b.there /\ Grants(b, now) ->
           [there |-> TRUE, tokens |-> Refilled(b, now) - Need, last |-> now]
      [] b.there /\ ~ Grants(b, now) -> [b EXCEPT !.tokens = Refilled(b, now)]

(* The script: the user's bucket first, the address's only if that grants. *)
Consume(c, i, now) ==
    LET asked == IF Grants(bucket[c], now) THEN {c, i} ELSE {c}
        granted == {k \in asked : Grants(bucket[k], now)}
    IN /\ \A k \in asked : spent[k] + Need <= MaxSpent
       /\ bucket' = [k \in BucketKey |-> IF k \in asked THEN After(bucket[k], now) ELSE bucket[k]]
       /\ spent' = [k \in BucketKey |-> IF k \in granted THEN spent[k] + Need ELSE spent[k]]
       /\ born' = [k \in BucketKey |-> IF k \in asked /\ ~ bucket[k].there THEN now ELSE born[k]]
       /\ denied' = denied \cup (asked \ granted)
       /\ late' = late \cup {k \in asked : bucket[k].there /\ now < bucket[k].last}
       /\ UNCHANGED clock

BucketTick ==
    /\ clock < MaxTime
    /\ clock' = clock + 1
    /\ UNCHANGED <<bucket, spent, born, denied, late>>

BucketNext ==
    \/ BucketTick
    \/ \E c \in Client, i \in Ip, now \in 0..clock :
         now >= clock - MaxLag /\ Consume(c, i, now)

BucketSpec == BucketInit /\ [][BucketNext]_bucketVars

-----------------------------------------------------------------------------
(***************************************************************************)
(* A bucket has granted no more than a bucketful and its income since it   *)
(* was made, less what is left in it.  Only after a refusal, which credits *)
(* the same seconds again, or a request with an older time may it be more. *)
(***************************************************************************)
WithinRate ==
    \A k \in BucketKey \ (denied \cup late) :
      bucket[k].there =>
        spent[k] + bucket[k].tokens <= Cap + Rate * (bucket[k].last - born[k])
=============================================================================
