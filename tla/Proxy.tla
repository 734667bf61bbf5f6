-------------------------------- MODULE Proxy --------------------------------
(***************************************************************************)
(* One run of the server, as handler.go's proxyRequestCore and             *)
(* executor.go's Execute put it together: the gate decides which proxied   *)
(* requests go on and hands over the list it read, Execute asks the        *)
(* limiter and only then the network.  Handlers, calls and the clock       *)
(* interleave; SpecGate, Limiter and Executor model the parts, and this    *)
(* module has no other step than theirs.  A restart, which loses all three *)
(* at once, is SpecGate's.                                                 *)
(***************************************************************************)
EXTENDS SpecGate, Sequences

CONSTANTS
    (* of Executor *)
    Redirects, Addrs, Private, Literal, MaxVia, MaxBytes, MaxLength,
    (* of Limiter *)
    TokenTime, Burst, NoBucket, MaxTime

VARIABLES
    (* of Executor; the goroutine of a request is that of its call *)
    dns, pool, stage, input, target, trail, length, outcome,
    (* of Limiter *)
    now, buckets, grants, allowed

callVars == <<dns, pool, stage, input, target, trail, length, outcome>>
rateVars == <<now, buckets, grants, allowed>>
proxyVars == <<vars, callVars, rateVars>>

(* What Execute is handed of a request. *)
Inputs == [host : Targets, list : Lists]

Exec == INSTANCE Executor WITH Calls <- Requests, pc <- stage

(* Buckets are keyed by the host as the URL spells it. *)
Rate == INSTANCE Limiter WITH Hosts <- Targets, answer <- allowed

(* What the parts assume of their constants. *)
ASSUME ProxyAssumption ==
    /\ Redirects \subseteq {h \in Spelling : ~h.padded}
    /\ Private \subseteq Addrs
    /\ Literal \in [{n \in Names : Kind[n] = "literal"} -> Addrs]
    /\ MaxVia \in Nat \ {0} /\ MaxBytes \in Nat /\ MaxLength \in Nat
    /\ TokenTime \in Nat \ {0} /\ Burst \in Nat \ {0} /\ MaxTime \in Nat
    /\ NoBucket \notin Rate!Bucket
------------------------------------------------------------------------------
(* Slips the runs must notice, each a variant of a definition below. *)
ForgetsLimiter(r) == Exec!Enter(r) /\ UNCHANGED rateVars
ReadsListAgain(r, l) == [host |-> call[r].host, list |-> specs[call[r].id].servers]
------------------------------------------------------------------------------
ProxyInit == Init /\ Exec!Init /\ Rate!Init

Serve(r) ==
    /\ Arrive(r) \/ Handle(r)
    /\ UNCHANGED <<callVars, rateVars>>

(* proxy.Input, as far as Execute decides by it. *)
Input(r, l) == [host |-> call[r].host, list |-> l]

(* proxyRequestCore calls Execute, with the list it reads for it. *)
HandOver(r) ==
    /\ pc[r] = "readList"
    /\ \E l \in Reads(call[r].id) : Judge(r, l) /\ Exec!Begin(r, Input(r, l))
    /\ UNCHANGED rateVars

Listed(r) == HostInList(input[r].host, input[r].list)

(* Execute asks the limiter about a host that is listed, and goes on if it *)
(* has a token for it.                                                     *)
Ask(r) ==
    /\ Exec!Enter(r)
    /\ IF Listed(r)
       THEN Rate!Allow(input[r].host) /\ (allowed'[2] <=> stage'[r] = "resolve")
       ELSE UNCHANGED rateVars

Enter(r) == Ask(r) /\ UNCHANGED vars

(* The rest of Execute. *)
Go(r) ==
    /\ Exec!Resolve(r) \/ Exec!Build(r) \/ Exec!Timeout(r) \/ Exec!Network(r)
    /\ UNCHANGED <<vars, rateVars>>

Outside ==
    \/ Exec!DnsChange /\ UNCHANGED <<vars, rateVars>>
    \/ Rate!Tick /\ UNCHANGED <<vars, callVars>>

ProxyNext == Outside \/ \E r \in Requests : Serve(r) \/ HandOver(r) \/ Enter(r) \/ Go(r)

ProxySpec == ProxyInit /\ [][ProxyNext]_proxyVars
------------------------------------------------------------------------------
(* A server is contacted only in a call of a request that the gate let     *)
(* through, first at the host that the request named, of a spec that was   *)
(* approved, and one that its document or an approval of it lists: what    *)
(* was true when the list was read stays true until the call is made,      *)
(* whatever is approved in between.                                        *)
ContactsVouched ==
    \A r \in Requests : trail[r] # <<>> =>
        LET i == call[r].id
        IN  /\ call[r].op = "proxy" /\ answer[r].status = "forwarded"
            /\ trail[r][1].host = call[r].host
            /\ Granted(i) # {}
            /\ HostInList(trail[r][1].host, specs[i].servers \cup UNION Granted(i))

(* The calls for host h that went on from the limiter. *)
Passed(h) == {r \in Requests : /\ stage[r] \notin {"idle", "enter"}
                               /\ outcome[r] \notin {"notAllowed", "rateLimited"}
                               /\ input[r].host = h}

(* Each of them has taken a token of its own, and no token is taken for a  *)
(* call that the allowlist refuses; one that fails later has spent it.     *)
CallsTakeTokens == \A h \in Targets : Cardinality(Passed(h)) = Len(grants[h])

(* The calls that reached a server under one host: at most a burst and     *)
(* what was earned since the process began, however handlers interleave.   *)
Reached(h) == {r \in Requests : trail[r] # <<>> /\ input[r].host = h}

ReachedWithinRate ==
    \A h \in Targets : Cardinality(Reached(h)) * TokenTime <= Rate!Capacity + now

(* The whole is the three of them, so that what holds of each holds here. *)
UsesParts == Spec /\ Exec!Spec /\ Rate!Spec
==============================================================================
