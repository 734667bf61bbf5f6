------------------------------- MODULE Limiter -------------------------------
(***************************************************************************)
(* backend/internal/proxy/ratelimit.go: the token bucket the proxy keeps   *)
(* per host.  Allow runs under the limiter's mutex from its reading of the *)
(* clock to its answer, so a call is one action; calls of different        *)
(* requests interleave with each other and with the passing of time.       *)
(*                                                                         *)
(* The clock ticks once in the time the refill needs to earn one unit of   *)
(* tokens, so `elapsed * refill' is the number of ticks elapsed, and a     *)
(* token is TokenTime units: 10 tokens per second and a clock of           *)
(* nanoseconds make TokenTime = 10^8.  float64 rounding is left out.       *)
(* A host is the string the bucket map is keyed by.                        *)
(***************************************************************************)
EXTENDS Integers, Sequences

CONSTANTS
    Hosts,       \* the keys the limiter is asked about
    TokenTime,   \* ticks the refill needs to earn one token
    Burst,       \* tokens a full bucket holds
    NoBucket,    \* a host the map has no entry for
    MaxTime      \* bound of the model: the clock stops here

VARIABLES
    now,       \* time.Now(), monotonic
    buckets,   \* l.buckets: host -> its bucket, or NoBucket
    grants,    \* history: the times at which each host was allowed
    answer     \* history: the latest answer, <<host, allowed>>

vars == <<now, buckets, grants, answer>>

Capacity == Burst * TokenTime

Bucket == [tokens : 0..Capacity, last : 0..MaxTime]

ASSUME LimiterAssumption ==
    /\ TokenTime \in Nat \ {0}
    /\ Burst \in Nat \ {0}
    /\ MaxTime \in Nat
    /\ NoBucket \notin Bucket
------------------------------------------------------------------------------
(* Slips the runs must notice, each a variant of the definition below. *)

RefilledUncapped(b) == b.tokens + (now - b.last)

DrainsWhenRefused(tokens) ==
    IF tokens >= TokenTime THEN tokens - TokenTime ELSE 0
------------------------------------------------------------------------------
(* `b, ok := l.buckets[host]': a missing bucket is created full. *)
Found(h) == IF buckets[h] = NoBucket THEN [tokens |-> Capacity, last |-> now]
                                     ELSE buckets[h]

(* What a bucket holds once the time since its last use is credited. *)
Refilled(b) == IF b.tokens + (now - b.last) > Capacity
               THEN Capacity
               ELSE b.tokens + (now - b.last)

Level(h) == Refilled(Found(h))

(* Not `b.tokens < 1'. *)
Affords(tokens) == tokens >= TokenTime

(* A refused call stores the credited bucket, and spends nothing. *)
Spent(tokens) == IF Affords(tokens) THEN tokens - TokenTime ELSE tokens

Init == /\ now = 0
        /\ buckets = [h \in Hosts |-> NoBucket]
        /\ grants = [h \in Hosts |-> <<>>]
        /\ answer = <<>>

Tick == /\ now < MaxTime
        /\ now' = now + 1
        /\ UNCHANGED <<buckets, grants, answer>>

Allow(h) ==
    /\ buckets' = [buckets EXCEPT ![h] = [tokens |-> Spent(Level(h)), last |-> now]]
    /\ grants' = IF Affords(Level(h))
                 THEN [grants EXCEPT ![h] = Append(@, now)]
                 ELSE grants
    /\ answer' = <<h, Affords(Level(h))>>
    /\ UNCHANGED now

Next == Tick \/ \E h \in Hosts : Allow(h)

Spec == Init /\ [][Next]_vars
------------------------------------------------------------------------------
(* Buckets stay between empty and full, and the histories are well formed. *)
TypeOK == /\ now \in 0..MaxTime
          /\ buckets \in [Hosts -> Bucket \cup {NoBucket}]
          /\ grants \in [Hosts -> Seq(0..MaxTime)]
          /\ answer \in {<<>>} \cup (Hosts \X BOOLEAN)

(* The calls allowed to one host between any two of them, both included,   *)
(* never exceed the burst plus what the refill earned between the two: the *)
(* lazy refill of Allow adds up to a bound on every window of time.        *)
WindowBound ==
    \A h \in Hosts : \A j \in DOMAIN grants[h] : \A i \in 1..j :
        (j - i + 1) * TokenTime <= Capacity + (grants[h][j] - grants[h][i])

(* The bucket answers like the limiter that remembers every call it        *)
(* allowed: a call is refused only when allowing it would break some       *)
(* window's bound, whatever was refused before it.                         *)
RL == INSTANCE RateLimit
ImplementsRateLimit == RL!Spec
==============================================================================
