------------------------------- MODULE Executor -------------------------------
(***************************************************************************)
(* backend/internal/proxy/executor.go, dialer.go and client.go: what       *)
(* happens to a proxied call from the allowlist check to its result.       *)
(* Calls run in goroutines of their own and share the transport's idle     *)
(* connections; the answers of DNS change under them, so each of the three *)
(* look-ups of a connection (Execute, safeDialContext, the dialer) may see *)
(* different addresses.  Servers answer with a body or with a redirect, or *)
(* not at all.                                                             *)
(*                                                                         *)
(* The limiter is a choice here (Limiter models it), and so is what the    *)
(* gate hands over (SpecGate); Proxy puts the three together.              *)
(***************************************************************************)
EXTENDS HostRules, Integers, Sequences

CONSTANTS
    Calls,           \* the goroutines in Executor.Execute
    Inputs,          \* what the gate hands over: [host, list] records
    Redirects,       \* the hosts servers redirect to
    Addrs,           \* IP addresses
    Private,         \* those isPrivateIP holds of
    Literal,         \* the address each literal host name spells
    MaxVia,          \* requests a call may make (10 in the code)
    MaxBytes,        \* MaxResponseBytes
    None,            \* what a call has before it begins
    MaxLength        \* bound of the model: the longest body servers send

ASSUME ExecutorAssumption ==
    /\ Inputs \subseteq [host : Spelling, list : SUBSET Spelling]
    /\ Redirects \subseteq Spelling
    /\ Private \subseteq Addrs
    /\ Literal \in [{n \in Names : Kind[n] = "literal"} -> Addrs]
    /\ MaxVia \in Nat \ {0}
    /\ MaxBytes \in Nat
    /\ MaxLength \in Nat

(* A URL with white space in its host does not parse. *)
ASSUME HostsParse ==
    /\ \A in \in Inputs : ~in.host.padded
    /\ \A h \in Redirects : ~h.padded

VARIABLES
    dns,        \* the addresses each name resolves to at the moment
    pool,       \* the addresses with an idle connection, per name
    pc,         \* where each call is
    input,      \* what it was handed, or None
    target,     \* the host of its current request
    trail,      \* the requests it made: <<[host, addr], ...>>
    length,     \* the length of the response's body
    outcome     \* how it ended, or "none"

netVars == <<dns, pool>>
callVars == <<pc, input, target, trail, length, outcome>>
vars == <<netVars, callVars>>

Labels == {"idle", "enter", "resolve", "build", "connect", "dial", "await", "read", "done"}

(* Errors of Execute, and its results. *)
Outcomes == {"notAllowed", "rateLimited", "blocked", "badRequest",
             "unreachable", "undisplayable", "unreadable", "tooLarge", "shown"}

Goto(c, label) == pc' = [pc EXCEPT ![c] = label]

------------------------------------------------------------------------------
(* Slips the runs must notice, each a variant of a definition below. *)
AddressUnchecked(a) == TRUE
ReadNoExtra(n) == IF n > MaxBytes THEN MaxBytes ELSE n
NoClientTimeout(c) == FALSE
OneRedirectMore(made) == made > MaxVia
AnswersAndGoesOn(c) ==
    /\ outcome' = [outcome EXCEPT ![c] = "unreachable"]
    /\ UNCHANGED <<netVars, pc, input, target, trail, length>>
------------------------------------------------------------------------------
End(c, result) == Goto(c, "done") /\ outcome' = [outcome EXCEPT ![c] = result]

ValidateIPs(ips) == \A a \in ips : a \notin Private

ResolveAndValidate(h) ==
    /\ ~IsLocalhost(h)
    /\ ~IsNumericOrEncodedHost(h)
    /\ IF IsLiteral(h) THEN ValidateIPs({Literal[h.name]})
                       ELSE dns[h.name] # {} /\ ValidateIPs(dns[h.name])

(* The Control hook of the dialer, on each address it is about to connect to. *)
ValidateConnAddr(a) == a \notin Private

(* The addresses the dialer tries for h when it resolves it. *)
Candidates(h) == IF IsLiteral(h) THEN {Literal[h.name]} ELSE dns[h.name]

TooManyRequests(made) == made >= MaxVia

(* SafeCheckRedirect, for a call that has made so many requests. *)
CheckRedirect(h, schemeOk, made) ==
    ~TooManyRequests(made) /\ schemeOk /\ ResolveAndValidate(h)

(* The bytes ReadBodyWithCap reads of a body of n bytes. *)
BytesRead(n) == IF n > MaxBytes + 1 THEN MaxBytes + 1 ELSE n

Truncated(n) == BytesRead(n) > MaxBytes
------------------------------------------------------------------------------
(* The names an address must be looked up for. *)
Looked == Names \ DOMAIN Literal

Init == /\ dns \in [Looked -> SUBSET Addrs]
        /\ pool = [n \in Names |-> {}]
        /\ pc = [c \in Calls |-> "idle"]
        /\ input = [c \in Calls |-> None]
        /\ target = [c \in Calls |-> None]
        /\ trail = [c \in Calls |-> <<>>]
        /\ length = [c \in Calls |-> 0]
        /\ outcome = [c \in Calls |-> "none"]

(* Execute is called. *)
Begin(c, in) ==
    /\ pc[c] = "idle"
    /\ input' = [input EXCEPT ![c] = in]
    /\ target' = [target EXCEPT ![c] = in.host]
    /\ Goto(c, "enter")
    /\ UNCHANGED <<netVars, trail, length, outcome>>

(* Its first checks: the allowlist, then the limiter. *)
Enter(c) ==
    /\ pc[c] = "enter"
    /\ IF HostInList(input[c].host, input[c].list)
       THEN \/ Goto(c, "resolve") /\ UNCHANGED outcome
            \/ End(c, "rateLimited")
       ELSE End(c, "notAllowed")
    /\ UNCHANGED <<netVars, input, target, trail, length>>

Resolve(c) ==
    /\ pc[c] = "resolve"
    /\ IF ResolveAndValidate(target[c])
       THEN Goto(c, "build") /\ UNCHANGED outcome
       ELSE End(c, "blocked")
    /\ UNCHANGED <<netVars, input, target, trail, length>>

(* The body is encoded and the outgoing request made, or neither works. *)
Build(c) ==
    /\ pc[c] = "build"
    /\ \/ Goto(c, "connect") /\ UNCHANGED outcome
       \/ End(c, "badRequest")
    /\ UNCHANGED <<netVars, input, target, trail, length>>

Visit(c, a) == trail' = [trail EXCEPT ![c] = Append(@, [host |-> target[c], addr |-> a])]

(* Client.Do finds an idle connection to the host, until its own is made.  *)
(* One that the server has closed is tried in vain and not found.          *)
Reuse(c) ==
    /\ pc[c] \in {"connect", "dial"}
    /\ \E a \in pool[target[c].name] :
          /\ pool' = [pool EXCEPT ![target[c].name] = @ \ {a}]
          /\ Visit(c, a)
    /\ Goto(c, "await")
    /\ UNCHANGED <<dns, input, target, length, outcome>>

(* Or it dials: safeDialContext checks what the host resolves to ... *)
DialCheck(c) ==
    /\ pc[c] = "connect"
    /\ IF ResolveAndValidate(target[c])
       THEN Goto(c, "dial") /\ UNCHANGED outcome
       ELSE End(c, "unreachable")
    /\ UNCHANGED <<netVars, input, target, trail, length>>

(* ... and the dialer resolves it again, trying each address that Control *)
(* lets it.                                                               *)
Dial(c) ==
    /\ pc[c] = "dial"
    /\ \E a \in Candidates(target[c]) : ValidateConnAddr(a) /\ Visit(c, a)
    /\ Goto(c, "await")
    /\ UNCHANGED <<netVars, input, target, length, outcome>>

(* The connection of c's last request becomes idle. *)
Release(c) ==
    LET last == trail[c][Len(trail[c])]
    IN  pool' = [pool EXCEPT ![last.host.name] = @ \cup {last.addr}]

(* The server answers with a redirect. *)
Redirect(c) ==
    /\ pc[c] = "await"
    /\ \E h \in Redirects, schemeOk \in BOOLEAN :
          IF CheckRedirect(h, schemeOk, Len(trail[c]))
          THEN /\ target' = [target EXCEPT ![c] = h]
               /\ Goto(c, "connect")
               /\ UNCHANGED outcome
          ELSE End(c, "unreachable") /\ UNCHANGED target
    /\ Release(c)
    /\ UNCHANGED <<dns, input, trail, length>>

(* The server answers; a content type that is not text is not read. *)
Respond(c) ==
    /\ pc[c] = "await"
    /\ \/ End(c, "undisplayable") /\ UNCHANGED length
       \/ /\ \E n \in 0..MaxLength : length' = [length EXCEPT ![c] = n]
          /\ Goto(c, "read")
          /\ UNCHANGED outcome
    /\ UNCHANGED <<netVars, input, target, trail>>

(* ReadBodyWithCap reaches the end of the body, or its cap. *)
Read(c) ==
    /\ pc[c] = "read"
    /\ IF Truncated(length[c])
       THEN End(c, "tooLarge") /\ UNCHANGED pool
       ELSE End(c, "shown") /\ Release(c)
    /\ UNCHANGED <<dns, input, target, trail, length>>

ClientTimeout(c) == pc[c] \in {"connect", "dial", "await", "read"}

(* Do returns an error, or the body ends early. *)
GiveUp(c) ==
    /\ End(c, IF pc[c] = "read" THEN "unreadable" ELSE "unreachable")
    /\ UNCHANGED <<netVars, input, target, trail, length>>

(* http.Client's Timeout expires: it covers redirects and the body's read. *)
Timeout(c) == ClientTimeout(c) /\ GiveUp(c)

(* The connection fails, or the caller goes away. *)
Disconnect(c) ==
    /\ pc[c] \in {"connect", "dial", "await", "read"}
    /\ GiveUp(c)

DnsChange ==
    /\ \E n \in Looked, ips \in SUBSET Addrs : dns' = [dns EXCEPT ![n] = ips]
    /\ UNCHANGED <<pool, callVars>>

(* What the goroutine of c does by itself. *)
Own(c) == Enter(c) \/ Resolve(c) \/ Build(c) \/ Timeout(c)

(* What takes the network, or a server, as well. *)
Network(c) == Reuse(c) \/ DialCheck(c) \/ Dial(c) \/ Redirect(c) \/ Respond(c) \/ Read(c)
              \/ Disconnect(c)

Next == \/ DnsChange
        \/ \E c \in Calls : (\E in \in Inputs : Begin(c, in)) \/ Own(c) \/ Network(c)

Spec == Init /\ [][Next]_vars

(* Goroutines run, look-ups end and http.Client's timer fires; servers owe *)
(* nothing.                                                                *)
Fairness == \A c \in Calls : WF_vars(Own(c))

FairSpec == Spec /\ Fairness
------------------------------------------------------------------------------
TypeOK == /\ dns \in [Looked -> SUBSET Addrs]
          /\ pool \in [Names -> SUBSET Addrs]
          /\ pc \in [Calls -> Labels]
          /\ input \in [Calls -> Inputs \cup {None}]
          /\ target \in [Calls -> Spelling \cup {None}]
          /\ \A c \in Calls : pc[c] # "idle" => input[c] \in Inputs /\ target[c] \in Spelling
          /\ trail \in [Calls -> Seq([host : Spelling, addr : Addrs])]
          /\ length \in [Calls -> 0..MaxLength]
          /\ outcome \in [Calls -> Outcomes \cup {"none"}]
          /\ \A c \in Calls : pc[c] = "done" <=> outcome[c] # "none"

(* No request ever reaches a private address, whatever DNS answers between *)
(* the checks and whichever idle connection carries it (dialer.go's        *)
(* Control hook on each address, not on each name).                        *)
OnlyPublicContacted ==
    \A c \in Calls : \A i \in 1..Len(trail[c]) : trail[c][i].addr \notin Private

(* A call costs at most MaxVia requests, however servers redirect it. *)
RequestsBounded == \A c \in Calls : Len(trail[c]) <= MaxVia

(* A body is shown exactly up to the cap, which itself is shown, and none  *)
(* is shown that was cut (ReadBodyWithCap's max+1).                        *)
BodyWithinCap ==
    \A c \in Calls : /\ outcome[c] = "shown" => length[c] <= MaxBytes
                     /\ outcome[c] = "tooLarge" => length[c] > MaxBytes

(* A call goes only to hosts of the approved list: approval-dialog.component.ts *)
(* says so of the approval.  Execute compares the first host only.              *)
OnlyListedReached ==
    \A c \in Calls : \A i \in 1..Len(trail[c]) :
       HostInList(trail[c][i].host, input[c].list)

(* The errors of a call that was never sent, and the results of one that *)
(* some server answered.                                                 *)
Refusals == {"notAllowed", "rateLimited", "blocked", "badRequest"}
Answers == {"undisplayable", "tooLarge", "shown"}

Result(o) == CASE o = "none" -> "none"
               [] o \in Refusals -> "refused"
               [] o \in Answers -> "answered"
               [] OTHER -> "failed"

PC == INSTANCE ProxyCall WITH
        Public <- Addrs \ Private,
        made <- [c \in Calls |-> Len(trail[c])],
        contacted <- [c \in Calls |-> {trail[c][i].addr : i \in 1..Len(trail[c])}],
        result <- [c \in Calls |-> Result(outcome[c])]

(* Execute does what ProxyCall promises: a refused call contacts nobody, an *)
(* answered one is answered by someone, only public addresses are contacted *)
(* and none once the call has its one result.                               *)
ImplementsProxyCall == PC!Spec

(* The steps from a place in the code to the end, or to the next request. *)
Ahead(label) == CASE label = "idle" -> 7
                  [] label = "enter" -> 6
                  [] label = "resolve" -> 5
                  [] label \in {"build", "await"} -> 4
                  [] label = "connect" -> 3
                  [] label = "dial" -> 2
                  [] label = "read" -> 1
                  [] label = "done" -> 0

(* What a call may still do: a redirect takes it back, but only MaxVia     *)
(* requests are there to be made, and each is worth the steps to the next. *)
StepsLeft(c) == 4 * (MaxVia - Len(trail[c])) + Ahead(pc[c])

(* No redirect, failed dial or reused connection lets a call run in a      *)
(* circle: whatever DNS and servers do, it ends after 4 * MaxVia + 7 steps *)
(* at most (client.go's CheckRedirect, with the order of Client.Do).       *)
CallsRunDown ==
    [][\A c \in Calls : pc'[c] # pc[c] \/ trail'[c] # trail[c] =>
          StepsLeft(c)' \in 0..(StepsLeft(c) - 1)]_vars

(* Every call ends that begins, even if servers and DNS never answer. *)
EveryCallEnds == \A c \in Calls : (pc[c] = "enter") ~> (pc[c] = "done")
==============================================================================
