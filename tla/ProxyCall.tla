------------------------------ MODULE ProxyCall ------------------------------
(***************************************************************************)
(* What a proxied call promises to whoever makes it and to the network it  *)
(* runs in, without look-ups, connections or redirects: it sends at most   *)
(* MaxVia requests, each to a public address, and then has one result for  *)
(* good.  A call that is refused has contacted nobody, and one that is     *)
(* answered has contacted somebody.                                        *)
(***************************************************************************)
EXTENDS Naturals

CONSTANTS
    Calls,
    Public,   \* the addresses a call may contact
    MaxVia

VARIABLES
    made,        \* the number of requests each call sent
    contacted,   \* where they went
    result       \* "refused", "failed" or "answered", and "none" before

vars == <<made, contacted, result>>

Init == /\ made = [c \in Calls |-> 0]
        /\ contacted = [c \in Calls |-> {}]
        /\ result = [c \in Calls |-> "none"]

Contact(c, a) ==
    /\ result[c] = "none"
    /\ made[c] < MaxVia
    /\ made' = [made EXCEPT ![c] = @ + 1]
    /\ contacted' = [contacted EXCEPT ![c] = @ \cup {a}]
    /\ UNCHANGED result

Finish(c, r) ==
    /\ result[c] = "none"
    /\ result' = [result EXCEPT ![c] = r]
    /\ UNCHANGED <<made, contacted>>

Refuse(c) == made[c] = 0 /\ Finish(c, "refused")

Fail(c) == Finish(c, "failed")

Answer(c) == made[c] # 0 /\ Finish(c, "answered")

Next == \E c \in Calls : \/ \E a \in Public : Contact(c, a)
                         \/ Refuse(c)
                         \/ Fail(c)
                         \/ Answer(c)

Spec == Init /\ [][Next]_vars
==============================================================================
