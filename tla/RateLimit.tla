------------------------------ MODULE RateLimit ------------------------------
(***************************************************************************)
(* What the proxy's rate limiter promises, without buckets: a limiter that *)
(* remembers when it said yes.  A call is allowed exactly when the calls   *)
(* allowed since any earlier one, this one included, stay within the burst *)
(* plus what the refill earned meanwhile.                                  *)
(*                                                                         *)
(* One tick of the clock is the time the refill needs to earn one unit; a  *)
(* token is TokenTime units (10 tokens per second and a clock of           *)
(* nanoseconds make TokenTime = 10^8), so a tick of waiting is worth one   *)
(* unit and no rate appears in the formulas.                               *)
(***************************************************************************)
EXTENDS Integers, Sequences

CONSTANTS
    Hosts,       \* the host names the limiter is asked about
    TokenTime,   \* ticks the refill needs to earn one token
    Burst,       \* tokens a full bucket holds
    MaxTime      \* bound of the model: the clock stops here

VARIABLES
    now,      \* the clock
    grants,   \* grants[h]: the times at which h was allowed, oldest first
    answer    \* the latest answer: <<host, allowed>>, or <<>> before the first

vars == <<now, grants, answer>>

Capacity == Burst * TokenTime

(* The cost of the i-th to the n-th allowed call of a log. *)
Cost(i, n) == (n - i + 1) * TokenTime

(* One more call at time t keeps every window of the log g within bounds. *)
Fits(g, t) == \A i \in DOMAIN g : Cost(i, Len(g) + 1) <= Capacity + (t - g[i])

Init == /\ now = 0
        /\ grants = [h \in Hosts |-> <<>>]
        /\ answer = <<>>

Tick == /\ now < MaxTime
        /\ now' = now + 1
        /\ UNCHANGED <<grants, answer>>

Grant(h) == /\ Fits(grants[h], now)
            /\ grants' = [grants EXCEPT ![h] = Append(@, now)]
            /\ answer' = <<h, TRUE>>
            /\ UNCHANGED now

Refuse(h) == /\ ~Fits(grants[h], now)
             /\ answer' = <<h, FALSE>>
             /\ UNCHANGED <<now, grants>>

Next == Tick \/ \E h \in Hosts : Grant(h) \/ Refuse(h)

Spec == Init /\ [][Next]_vars
==============================================================================
