---------------------------- MODULE ExecutorProofs ----------------------------
(* Theorems about Executor, for any calls, hosts, addresses and limits. *)
EXTENDS Executor, SequenceTheorems, TLAPS

Request == [host : Spelling, addr : Addrs]

(* A call that waits for a response, or reads one, has made a request; *)
(* until it connects it has made none.                                 *)
Asked == \A c \in Calls :
            /\ pc[c] \in {"idle", "enter", "resolve", "build"} => trail[c] = <<>>
            /\ pc[c] \in {"await", "read"} => trail[c] # <<>>

(* White space never reaches the transport. *)
Parsed == \A c \in Calls : pc[c] # "idle" => ~target[c].padded

Base == TypeOK /\ Asked /\ Parsed

LEMMA AppendFacts ==
  ASSUME NEW S, NEW s \in Seq(S), NEW e \in S
  PROVE  /\ Append(s, e) \in Seq(S) /\ Append(s, e) # <<>>
         /\ Len(s) \in Nat /\ Len(Append(s, e)) = Len(s) + 1
         /\ Append(s, e)[Len(s) + 1] = e
         /\ \A i \in 1..Len(s) : Append(s, e)[i] = s[i]
  BY AppendProperties, LenProperties

(* What a call's last request is, once there is one. *)
LEMMA LastRequest ==
  ASSUME TypeOK, NEW c \in Calls, trail[c] # <<>>
  PROVE  Len(trail[c]) \in 1..Len(trail[c]) /\ trail[c][Len(trail[c])] \in Request
  <1>1. trail[c] \in Seq(Request) BY DEF TypeOK, Request
  <1>2. Len(trail[c]) \in Nat /\ Len(trail[c]) # 0 BY <1>1, EmptySeq, LenProperties
  <1>3. Len(trail[c]) \in 1..Len(trail[c]) BY <1>2
  <1> QED BY <1>1, <1>3, ElementOfSeq

LEMMA BaseInit == ASSUME Init PROVE Base
  <1> USE DEF Init
  <1>1. input \in [Calls -> Inputs \cup {None}] /\ target \in [Calls -> Spelling \cup {None}]
    OBVIOUS
  <1>2. \A c \in Calls : pc[c] = "idle" OBVIOUS
  <1>3. trail \in [Calls -> Seq(Request)] BY EmptySeq DEF Request
  <1>4. pool \in [Names -> SUBSET Addrs] OBVIOUS
  <1>5. length \in [Calls -> 0..MaxLength] BY ExecutorAssumption
  <1> QED BY <1>1, <1>2, <1>3, <1>4, <1>5
          DEF Base, TypeOK, Asked, Parsed, Labels, Outcomes, Request

(* A connection that becomes idle was one to an address. *)
LEMMA ReleaseTyped ==
  ASSUME Base, NEW c \in Calls, pc[c] \in {"await", "read"}, Release(c)
  PROVE  pool' \in [Names -> SUBSET Addrs]
  <1>1. trail[c] # <<>> BY DEF Base, Asked
  <1>2. trail[c][Len(trail[c])] \in Request BY <1>1, LastRequest DEF Base
  <1> QED BY <1>2 DEF Release, Base, TypeOK, Request

LEMMA VisitTyped ==
  ASSUME Base, NEW c \in Calls, NEW a \in Addrs, Visit(c, a), pc[c] # "idle"
  PROVE  trail' \in [Calls -> Seq(Request)] /\ trail'[c] # <<>>
         /\ \A d \in Calls \ {c} : trail'[d] = trail[d]
  <1>1. trail[c] \in Seq(Request) /\ [host |-> target[c], addr |-> a] \in Request
    BY DEF Base, TypeOK, Request
  <1>2. Append(trail[c], [host |-> target[c], addr |-> a]) \in Seq(Request)
        /\ Append(trail[c], [host |-> target[c], addr |-> a]) # <<>>
    BY <1>1, AppendFacts
  <1>3. trail \in [Calls -> Seq(Request)] BY DEF Base, TypeOK, Request
  <1> QED BY <1>2, <1>3 DEF Visit

LEMMA CandidatesAreAddrs ==
  ASSUME Base, NEW h \in Spelling, NEW a \in Candidates(h), ~h.padded
  PROVE  a \in Addrs
  <1>1. h.name \in Names BY DEF Spelling
  <1>2. CASE Kind[h.name] = "literal"
    BY <1>1, <1>2, ExecutorAssumption DEF Candidates, IsLiteral
  <1>3. CASE Kind[h.name] # "literal"
    BY <1>1, <1>3, ExecutorAssumption DEF Candidates, IsLiteral, Base, TypeOK, Looked
  <1> QED BY <1>2, <1>3

(* The steps that leave the network, the target and the requests alone. *)
LEMMA LocalStepBase ==
  ASSUME Base, NEW c \in Calls, UNCHANGED <<netVars, input, target, trail>>,
         length' \in [Calls -> 0..MaxLength],
         pc[c] # "idle",
         \/ /\ \E l \in Labels \ {"idle", "done"} :
                  /\ Goto(c, l)
                  /\ l \in {"enter", "resolve", "build"} => trail[c] = <<>>
                  /\ l \in {"await", "read"} => trail[c] # <<>>
            /\ pc[c] # "done"
            /\ UNCHANGED outcome
         \/ \E r \in Outcomes : End(c, r)
  PROVE  Base'
  <1>1. pc' \in [Calls -> Labels] /\ outcome' \in [Calls -> Outcomes \cup {"none"}]
    <2>1. pc \in [Calls -> Labels] /\ outcome \in [Calls -> Outcomes \cup {"none"}]
      BY DEF Base, TypeOK
    <2>2. (\E l \in Labels : pc' = [pc EXCEPT ![c] = l]) BY DEF Goto, End, Labels
    <2>3. UNCHANGED outcome \/ \E r \in Outcomes : outcome' = [outcome EXCEPT ![c] = r]
      BY DEF End
    <2> QED BY <2>1, <2>2, <2>3
  <1>2. (\A d \in Calls : pc[d] = "done" <=> outcome[d] # "none")'
    BY DEF Goto, End, Base, TypeOK, Labels, Outcomes
  <1>3. Asked' BY DEF Goto, End, Base, TypeOK, Asked
  <1>4. \A d \in Calls : pc'[d] # "idle" => pc[d] # "idle" BY DEF Goto, End, Base, TypeOK
  <1>5. Parsed' BY <1>4 DEF Base, Parsed
  <1>6. (\A d \in Calls : pc[d] # "idle" => input[d] \in Inputs /\ target[d] \in Spelling)'
    BY <1>4 DEF Base, TypeOK
  <1>7. TypeOK' BY <1>1, <1>2, <1>6 DEF Base, TypeOK, netVars
  <1> QED BY <1>3, <1>5, <1>7 DEF Base

(* The steps that make a request. *)
LEMMA VisitStepBase ==
  ASSUME Base, NEW c \in Calls, NEW a \in Addrs, Visit(c, a), Goto(c, "await"),
         pc[c] \notin {"idle", "done"},
         pool' \in [Names -> SUBSET Addrs],
         UNCHANGED <<dns, input, target, length, outcome>>
  PROVE  Base'
  <1>1. trail' \in [Calls -> Seq(Request)] /\ trail'[c] # <<>>
        /\ \A d \in Calls \ {c} : trail'[d] = trail[d]
    BY VisitTyped
  <1>2. pc' \in [Calls -> Labels] /\ (\A d \in Calls : pc[d] = "done" <=> outcome[d] # "none")'
    BY DEF Goto, Base, TypeOK, Labels
  <1>3. Asked' BY <1>1 DEF Goto, Base, TypeOK, Asked
  <1>4. \A d \in Calls : pc'[d] # "idle" => pc[d] # "idle" BY DEF Goto, Base, TypeOK
  <1>5. Parsed' BY <1>4 DEF Base, Parsed
  <1>6. TypeOK' BY <1>1, <1>2, <1>4 DEF Base, TypeOK, Request
  <1> QED BY <1>3, <1>5, <1>6 DEF Base

LEMMA BaseNext == ASSUME Base, [Next]_vars PROVE Base'
  <1> USE DEF Outcomes, Labels
  <1>0. length \in [Calls -> 0..MaxLength] BY DEF Base, TypeOK
  <1>1. ASSUME NEW c \in Calls, Enter(c) PROVE Base'
    <2>1. pc[c] = "enter" /\ trail[c] = <<>> BY <1>1 DEF Enter, Base, Asked
    <2> QED BY <1>0, <1>1, <2>1, LocalStepBase DEF Enter
  <1>2. ASSUME NEW c \in Calls, Resolve(c) PROVE Base'
    <2>1. pc[c] = "resolve" /\ trail[c] = <<>> BY <1>2 DEF Resolve, Base, Asked
    <2> QED BY <1>0, <1>2, <2>1, LocalStepBase DEF Resolve
  <1>3. ASSUME NEW c \in Calls, Build(c) PROVE Base'
    BY <1>0, <1>3, LocalStepBase DEF Build
  <1>4. ASSUME NEW c \in Calls, Reuse(c) PROVE Base'
    <2>1. PICK a \in pool[target[c].name] :
            /\ pool' = [pool EXCEPT ![target[c].name] = @ \ {a}]
            /\ Visit(c, a)
      BY <1>4 DEF Reuse
    <2>2. a \in Addrs /\ pool' \in [Names -> SUBSET Addrs]
      BY <1>4, <2>1 DEF Reuse, Base, TypeOK, Spelling
    <2> QED BY <1>4, <2>1, <2>2, VisitStepBase DEF Reuse
  <1>5. ASSUME NEW c \in Calls, DialCheck(c) PROVE Base'
    BY <1>0, <1>5, LocalStepBase DEF DialCheck
  <1>6. ASSUME NEW c \in Calls, Dial(c) PROVE Base'
    <2>1. PICK a \in Candidates(target[c]) : Visit(c, a) BY <1>6 DEF Dial
    <2>2. target[c] \in Spelling /\ ~target[c].padded BY <1>6 DEF Dial, Base, TypeOK, Parsed
    <2>3. a \in Addrs BY <2>1, <2>2, CandidatesAreAddrs
    <2>4. pool' \in [Names -> SUBSET Addrs] BY <1>6 DEF Dial, netVars, Base, TypeOK
    <2> QED BY <1>6, <2>1, <2>3, <2>4, VisitStepBase DEF Dial, netVars
  <1>7. ASSUME NEW c \in Calls, Redirect(c) PROVE Base'
    <2>1. pool' \in [Names -> SUBSET Addrs] BY <1>7, ReleaseTyped DEF Redirect
    <2>2. pc[c] = "await" /\ UNCHANGED <<dns, input, trail, length>> BY <1>7 DEF Redirect
    <2>3. trail \in [Calls -> Seq(Request)] BY DEF Base, TypeOK, Request
    <2>4. \/ \E h \in Redirects : /\ target' = [target EXCEPT ![c] = h]
                                 /\ Goto(c, "connect")
                                 /\ UNCHANGED outcome
          \/ End(c, "unreachable") /\ UNCHANGED target
      BY <1>7 DEF Redirect
    <2>5. \A d \in Calls : pc'[d] # "idle" => pc[d] # "idle"
      BY <2>2, <2>4 DEF Goto, End, Base, TypeOK
    <2>9. /\ target' \in [Calls -> Spelling \cup {None}] /\ Parsed'
          /\ \A d \in Calls : pc'[d] # "idle" => target'[d] \in Spelling
      BY <2>4, <2>5, ExecutorAssumption, HostsParse DEF Base, TypeOK, Parsed
    <2>6. /\ pc' \in [Calls -> Labels] /\ outcome' \in [Calls -> Outcomes \cup {"none"}]
          /\ (\A d \in Calls : pc[d] = "done" <=> outcome[d] # "none")'
      BY <2>2, <2>4 DEF Goto, End, Base, TypeOK
    <2>7. Asked' BY <2>2, <2>4 DEF Goto, End, Base, TypeOK, Asked
    <2>8. TypeOK' BY <2>1, <2>2, <2>5, <2>6, <2>9 DEF Base, TypeOK
    <2> QED BY <2>7, <2>8, <2>9 DEF Base
  <1>8. ASSUME NEW c \in Calls, Respond(c) PROVE Base'
    <2>1. pc[c] = "await" /\ trail[c] # <<>> BY <1>8 DEF Respond, Base, Asked
    <2>2. length' \in [Calls -> 0..MaxLength] BY <1>0, <1>8 DEF Respond
    <2> QED BY <1>8, <2>1, <2>2, LocalStepBase DEF Respond
  <1>9. ASSUME NEW c \in Calls, Read(c) PROVE Base'
    <2>1. pool' \in [Names -> SUBSET Addrs]
      <3>1. CASE Release(c) BY <1>9, <3>1, ReleaseTyped DEF Read
      <3>2. CASE UNCHANGED pool BY <3>2 DEF Base, TypeOK
      <3> QED BY <1>9, <3>1, <3>2 DEF Read
    <2>2. PICK r \in Outcomes : End(c, r) BY <1>9 DEF Read
    <2>3. UNCHANGED <<dns, input, target, trail, length>> BY <1>9 DEF Read
    <2>4. /\ pc' \in [Calls -> Labels] /\ outcome' \in [Calls -> Outcomes \cup {"none"}]
          /\ (\A d \in Calls : pc[d] = "done" <=> outcome[d] # "none")'
      BY <2>2 DEF Goto, End, Base, TypeOK
    <2>5. Asked' BY <2>2, <2>3 DEF Goto, End, Base, TypeOK, Asked
    <2>6. \A d \in Calls : pc'[d] # "idle" => pc[d] # "idle"
      BY <1>9, <2>2 DEF Read, End, Goto, Base, TypeOK
    <2>7. Parsed' BY <2>3, <2>6 DEF Base, Parsed
    <2>8. TypeOK' BY <2>1, <2>3, <2>4, <2>6 DEF Base, TypeOK
    <2> QED BY <2>5, <2>7, <2>8 DEF Base
  <1>10. ASSUME NEW c \in Calls, GiveUp(c), pc[c] # "idle" PROVE Base'
    BY <1>0, <1>10, LocalStepBase DEF GiveUp
  <1>11. ASSUME DnsChange PROVE Base'
    BY <1>11 DEF DnsChange, callVars, Base, TypeOK, Asked, Parsed
  <1>12. ASSUME UNCHANGED vars PROVE Base'
    BY <1>12 DEF vars, netVars, callVars, Base, TypeOK, Asked, Parsed
  <1>13. ASSUME NEW c \in Calls, NEW in \in Inputs, Begin(c, in) PROVE Base'
    <2>1. /\ pc[c] = "idle" /\ pc' = [pc EXCEPT ![c] = "enter"]
          /\ input' = [input EXCEPT ![c] = in] /\ target' = [target EXCEPT ![c] = in.host]
          /\ UNCHANGED <<dns, pool, trail, length, outcome>>
      BY <1>13 DEF Begin, Goto, netVars
    <2>2. in.host \in Spelling /\ ~in.host.padded BY ExecutorAssumption, HostsParse
    <2>3. /\ input' \in [Calls -> Inputs \cup {None}] /\ target' \in [Calls -> Spelling \cup {None}]
          /\ (\A d \in Calls : pc[d] # "idle" => input[d] \in Inputs /\ target[d] \in Spelling)'
      BY <2>1, <2>2 DEF Base, TypeOK
    <2>4. /\ pc' \in [Calls -> Labels]
          /\ (\A d \in Calls : pc[d] = "done" <=> outcome[d] # "none")'
      BY <2>1 DEF Base, TypeOK
    <2>5. TypeOK' BY <2>1, <2>3, <2>4 DEF Base, TypeOK
    <2>6. Parsed' BY <2>1, <2>2 DEF Base, TypeOK, Parsed
    <2>7. Asked' BY <2>1 DEF Base, TypeOK, Asked
    <2> QED BY <2>5, <2>6, <2>7 DEF Base
  <1>14. ASSUME NEW c \in Calls, Timeout(c) \/ Disconnect(c) PROVE Base'
    BY <1>10, <1>14 DEF Timeout, ClientTimeout, Disconnect
  <1> QED BY <1>1, <1>2, <1>3, <1>4, <1>5, <1>6, <1>7, <1>8, <1>9, <1>11, <1>12, <1>13, <1>14
          DEF Next, Own, Network

LEMMA BaseAlways == Spec => []Base
  <1>1. Init => Base BY BaseInit
  <1>2. Base /\ [Next]_vars => Base' BY BaseNext
  <1> QED BY <1>1, <1>2, PTL DEF Spec

(* The state of every call is well typed, and it has a result exactly when *)
(* it is done.                                                              *)
THEOREM TypeCorrect == Spec => []TypeOK
  <1>1. Base => TypeOK BY DEF Base
  <1> QED BY <1>1, BaseAlways, PTL
------------------------------------------------------------------------------
(* Idle connections must be public too: a later call may find them. *)
PoolPublic == \A n \in Names : pool[n] \cap Private = {}

Contacts == OnlyPublicContacted /\ PoolPublic

LEMMA ReleaseContacts ==
  ASSUME Base, Contacts, NEW c \in Calls, pc[c] \in {"await", "read"}, Release(c)
  PROVE  PoolPublic'
  <1>1. trail[c] # <<>> BY DEF Base, Asked
  <1>2. Len(trail[c]) \in 1..Len(trail[c]) /\ trail[c][Len(trail[c])] \in Request
    BY <1>1, LastRequest DEF Base
  <1>3. trail[c][Len(trail[c])].addr \notin Private
    BY <1>2 DEF Contacts, OnlyPublicContacted
  <1> QED BY <1>2, <1>3 DEF Release, Contacts, PoolPublic, Base, TypeOK

LEMMA VisitContacts ==
  ASSUME Base, Contacts, NEW c \in Calls, NEW a \in Addrs, a \notin Private, Visit(c, a),
         pc[c] # "idle"
  PROVE  OnlyPublicContacted'
  <1> DEFINE e == [host |-> target[c], addr |-> a]
  <1>1. trail[c] \in Seq(Request) /\ e \in Request BY DEF Base, TypeOK, Request
  <1>2. trail'[c] = Append(trail[c], e) /\ \A d \in Calls \ {c} : trail'[d] = trail[d]
    BY DEF Visit, Base, TypeOK
  <1>3. \A i \in 1..Len(trail'[c]) : trail'[c][i].addr \notin Private
    <2>1. \A i \in 1..Len(trail[c]) : trail'[c][i] = trail[c][i]
      BY <1>1, <1>2, AppendFacts
    <2>2. Len(trail[c]) \in Nat /\ Len(trail'[c]) = Len(trail[c]) + 1
          /\ trail'[c][Len(trail[c]) + 1] = e
      BY <1>1, <1>2, AppendFacts
    <2> QED BY <2>1, <2>2 DEF Contacts, OnlyPublicContacted
  <1> QED BY <1>2, <1>3 DEF Contacts, OnlyPublicContacted

LEMMA ContactsInit == ASSUME Init PROVE Contacts
  <1>1. \A c \in Calls : trail[c] = <<>> BY DEF Init
  <1>2. OnlyPublicContacted BY <1>1 DEF OnlyPublicContacted
  <1>3. PoolPublic BY DEF Init, PoolPublic
  <1> QED BY <1>2, <1>3 DEF Contacts

LEMMA ContactsNext == ASSUME Base, Contacts, [Next]_vars PROVE Contacts'
  <1>1. CASE UNCHANGED <<pool, trail>>
    BY <1>1 DEF Contacts, OnlyPublicContacted, PoolPublic
  <1>2. ASSUME NEW c \in Calls, Reuse(c) PROVE Contacts'
    <2>1. PICK a \in pool[target[c].name] :
            /\ pool' = [pool EXCEPT ![target[c].name] = @ \ {a}]
            /\ Visit(c, a)
      BY <1>2 DEF Reuse
    <2>2. a \in Addrs /\ a \notin Private
      BY <1>2, <2>1 DEF Reuse, Base, TypeOK, Spelling, Contacts, PoolPublic
    <2>3. OnlyPublicContacted' BY <1>2, <2>1, <2>2, VisitContacts DEF Reuse
    <2>4. PoolPublic' BY <2>1 DEF Base, TypeOK, Contacts, PoolPublic
    <2> QED BY <2>3, <2>4 DEF Contacts
  <1>3. ASSUME NEW c \in Calls, Dial(c) PROVE Contacts'
    <2>1. PICK a \in Candidates(target[c]) : ValidateConnAddr(a) /\ Visit(c, a)
      BY <1>3 DEF Dial
    <2>2. target[c] \in Spelling /\ ~target[c].padded BY <1>3 DEF Dial, Base, TypeOK, Parsed
    <2>3. a \in Addrs /\ a \notin Private
      BY <2>1, <2>2, CandidatesAreAddrs DEF ValidateConnAddr
    <2>4. OnlyPublicContacted' BY <1>3, <2>1, <2>3, VisitContacts DEF Dial
    <2>5. PoolPublic' BY <1>3 DEF Dial, netVars, Contacts, PoolPublic
    <2> QED BY <2>4, <2>5 DEF Contacts
  <1>4. ASSUME NEW c \in Calls, pc[c] \in {"await", "read"}, Release(c), UNCHANGED trail
        PROVE  Contacts'
    <2>1. PoolPublic' BY <1>4, ReleaseContacts
    <2>2. OnlyPublicContacted' BY <1>4 DEF Contacts, OnlyPublicContacted
    <2> QED BY <2>1, <2>2 DEF Contacts
  <1>5. ASSUME NEW c \in Calls, Redirect(c) PROVE Contacts'
    BY <1>4, <1>5 DEF Redirect
  <1>6. ASSUME NEW c \in Calls, Read(c) PROVE Contacts'
    BY <1>1, <1>4, <1>6 DEF Read
  <1>7. ASSUME NEW c \in Calls,
               Own(c) \/ DialCheck(c) \/ Respond(c) \/ Disconnect(c)
        PROVE  Contacts'
    BY <1>1, <1>7 DEF Own, Enter, Resolve, Build, Timeout, GiveUp, DialCheck, Respond,
                      Disconnect, netVars
  <1>8. CASE DnsChange BY <1>1, <1>8 DEF DnsChange, callVars
  <1>9. CASE UNCHANGED vars BY <1>1, <1>9 DEF vars, netVars, callVars
  <1>10. ASSUME NEW c \in Calls, NEW in \in Inputs, Begin(c, in) PROVE Contacts'
    BY <1>1, <1>10 DEF Begin, netVars
  <1> QED BY <1>2, <1>3, <1>5, <1>6, <1>7, <1>8, <1>9, <1>10 DEF Next, Network

(* Whatever DNS answers between the checks, and whichever idle connection  *)
(* carries it, no request reaches a private address.                       *)
THEOREM PrivateNeverContacted == Spec => []OnlyPublicContacted
  <1>1. Init => Contacts BY ContactsInit
  <1>2. Base /\ Contacts /\ [Next]_vars => Contacts' BY ContactsNext
  <1>3. Contacts => OnlyPublicContacted BY DEF Contacts
  <1> QED BY <1>1, <1>2, <1>3, BaseAlways, PTL DEF Spec
------------------------------------------------------------------------------
(* A call on its way to a server has room for one more request. *)
Room == \A c \in Calls :
           /\ Len(trail[c]) <= MaxVia
           /\ pc[c] \in {"connect", "dial"} => Len(trail[c]) < MaxVia

LEMMA RoomInit == ASSUME Init PROVE Room
  BY ExecutorAssumption DEF Init, Room

LEMMA RoomVisit ==
  ASSUME Base, Room, NEW c \in Calls, NEW a \in Addrs, Visit(c, a), Goto(c, "await"),
         pc[c] \in {"connect", "dial"}
  PROVE  Room'
  <1> DEFINE e == [host |-> target[c], addr |-> a]
  <1>1. trail[c] \in Seq(Request) /\ e \in Request BY DEF Base, TypeOK, Request
  <1>2. trail'[c] = Append(trail[c], e) /\ \A d \in Calls \ {c} : trail'[d] = trail[d]
    BY DEF Visit, Base, TypeOK
  <1>3. Len(trail[c]) \in Nat /\ Len(trail'[c]) = Len(trail[c]) + 1
    BY <1>1, <1>2, AppendFacts
  <1>4. Len(trail'[c]) <= MaxVia BY <1>3, ExecutorAssumption DEF Room
  <1>5. pc' = [pc EXCEPT ![c] = "await"] BY DEF Goto
  <1> QED BY <1>2, <1>4, <1>5 DEF Room, Base, TypeOK

LEMMA RoomNext == ASSUME Base, Room, [Next]_vars PROVE Room'
  <1>1. ASSUME NEW c \in Calls, Reuse(c) PROVE Room'
    <2>1. PICK a \in pool[target[c].name] : Visit(c, a) BY <1>1 DEF Reuse
    <2>2. a \in Addrs BY <1>1 DEF Reuse, Base, TypeOK, Spelling
    <2> QED BY <1>1, <2>1, <2>2, RoomVisit DEF Reuse
  <1>2. ASSUME NEW c \in Calls, Dial(c) PROVE Room'
    <2>1. PICK a \in Candidates(target[c]) : Visit(c, a) BY <1>2 DEF Dial
    <2>2. target[c] \in Spelling /\ ~target[c].padded BY <1>2 DEF Dial, Base, TypeOK, Parsed
    <2>3. a \in Addrs BY <2>1, <2>2, CandidatesAreAddrs
    <2> QED BY <1>2, <2>1, <2>3, RoomVisit DEF Dial
  <1>3. ASSUME NEW c \in Calls, NEW l \in Labels, Goto(c, l), UNCHANGED trail,
               l \in {"connect", "dial"} => Len(trail[c]) < MaxVia
        PROVE  Room'
    BY <1>3 DEF Goto, Room, Base, TypeOK
  <1>4. ASSUME NEW c \in Calls, Enter(c) \/ Resolve(c) PROVE Room'
    BY <1>3, <1>4 DEF Enter, Resolve, End, Labels
  <1>5. ASSUME NEW c \in Calls, Build(c) PROVE Room'
    <2>1. Len(trail[c]) < MaxVia
      BY <1>5, ExecutorAssumption DEF Build, Base, Asked
    <2> QED BY <1>3, <1>5, <2>1 DEF Build, End, Labels
  <1>6. ASSUME NEW c \in Calls, DialCheck(c) PROVE Room'
    <2>1. Len(trail[c]) < MaxVia BY <1>6 DEF DialCheck, Room
    <2> QED BY <1>3, <1>6, <2>1 DEF DialCheck, End, Labels
  <1>7. ASSUME NEW c \in Calls, Redirect(c) PROVE Room'
    <2>1. trail[c] \in Seq(Request) BY DEF Base, TypeOK, Request
    <2>2. Len(trail[c]) \in Nat BY <2>1, LenProperties
    <2>3. CASE Len(trail[c]) < MaxVia
      BY <1>3, <1>7, <2>3 DEF Redirect, End, Labels
    <2>4. CASE ~(Len(trail[c]) < MaxVia)
      <3>1. Len(trail[c]) >= MaxVia BY <2>2, <2>4, ExecutorAssumption
      <3>2. End(c, "unreachable") /\ UNCHANGED trail
        BY <1>7, <3>1 DEF Redirect, CheckRedirect, TooManyRequests
      <3> QED BY <1>3, <3>2 DEF End, Labels
    <2> QED BY <2>3, <2>4
  <1>8. ASSUME NEW c \in Calls, Respond(c) \/ Read(c) \/ GiveUp(c) PROVE Room'
    BY <1>3, <1>8 DEF Respond, Read, GiveUp, End, Labels
  <1>9. CASE DnsChange BY <1>9 DEF DnsChange, callVars, Room
  <1>10. CASE UNCHANGED vars BY <1>10 DEF vars, callVars, Room
  <1>11. ASSUME NEW c \in Calls, NEW in \in Inputs, Begin(c, in) PROVE Room'
    BY <1>3, <1>11 DEF Begin, Labels
  <1> QED BY <1>1, <1>2, <1>4, <1>5, <1>6, <1>7, <1>8, <1>9, <1>10, <1>11
          DEF Next, Own, Network, Timeout, Disconnect

(* However servers redirect a call, it makes at most MaxVia requests. *)
THEOREM RedirectsEnd == Spec => []RequestsBounded
  <1>1. Init => Room BY RoomInit
  <1>2. Base /\ Room /\ [Next]_vars => Room' BY RoomNext
  <1>3. Room => RequestsBounded BY DEF Room, RequestsBounded
  <1> QED BY <1>1, <1>2, <1>3, BaseAlways, PTL DEF Spec
------------------------------------------------------------------------------
LEMMA AheadValues ==
  /\ Ahead("idle") = 7 /\ Ahead("enter") = 6 /\ Ahead("resolve") = 5
  /\ Ahead("build") = 4 /\ Ahead("await") = 4 /\ Ahead("connect") = 3
  /\ Ahead("dial") = 2 /\ Ahead("read") = 1 /\ Ahead("done") = 0
  BY DEF Ahead

(* What a call has left is a number of steps, and each step of it takes one. *)
LEMMA StepsLeftRange ==
  Base /\ Room => \A c \in Calls : StepsLeft(c) \in Nat /\ Len(trail[c]) \in Nat
  <1> SUFFICES ASSUME Base, Room, NEW c \in Calls
               PROVE  StepsLeft(c) \in Nat /\ Len(trail[c]) \in Nat
    OBVIOUS
  <1>1. trail[c] \in Seq(Request) /\ pc[c] \in Labels BY DEF Base, TypeOK, Request
  <1>2. Len(trail[c]) \in Nat /\ MaxVia - Len(trail[c]) \in Nat
    BY <1>1, LenProperties, ExecutorAssumption DEF Room
  <1> QED BY <1>1, <1>2, AheadValues DEF StepsLeft, Labels

LEMMA StepsLeftAfter ==
  (Base /\ Room => \A c \in Calls : StepsLeft(c) \in Nat /\ Len(trail[c]) \in Nat)'
  BY StepsLeftRange, PTL

(* How a step moves its call: on, out, back to a next request or to a server. *)
Onward(c) ==
  /\ trail'[c] = trail[c]
  /\ \/ pc'[c] = "done" /\ pc[c] # "done"
     \/ <<pc[c], pc'[c]>> \in {<<"idle", "enter">>, <<"enter", "resolve">>,
                               <<"resolve", "build">>, <<"build", "connect">>,
                               <<"connect", "dial">>, <<"await", "read">>,
                               <<"await", "connect">>}

Contacting(c) ==
  /\ pc[c] \in {"connect", "dial"} /\ pc'[c] = "await"
  /\ Len(trail'[c]) = Len(trail[c]) + 1

LEMMA MovesRunDown ==
  ASSUME Base, Room, Base', Room', NEW c \in Calls, Onward(c) \/ Contacting(c)
  PROVE  StepsLeft(c)' \in 0..(StepsLeft(c) - 1)
  <1>1. /\ StepsLeft(c) \in Nat /\ StepsLeft(c)' \in Nat
        /\ Len(trail[c]) \in Nat /\ Len(trail'[c]) \in Nat
    BY StepsLeftRange, StepsLeftAfter
  <1>2. MaxVia \in Nat BY ExecutorAssumption
  <1>3. pc[c] \in Labels BY DEF Base, TypeOK
  <1>4. CASE Onward(c)
    <2>1. Ahead(pc'[c]) \in Nat /\ Ahead(pc[c]) \in Nat /\ Ahead(pc'[c]) < Ahead(pc[c])
      BY <1>3, <1>4, AheadValues DEF Onward, Labels
    <2>2. Len(trail'[c]) = Len(trail[c]) BY <1>4 DEF Onward
    <2> QED BY <1>1, <1>2, <2>1, <2>2 DEF StepsLeft
  <1>5. CASE Contacting(c)
    <2>1. Ahead(pc'[c]) = 4 /\ Ahead(pc[c]) \in {2, 3}
      BY <1>5, AheadValues DEF Contacting
    <2>2. StepsLeft(c) = 4 * (MaxVia - Len(trail[c])) + Ahead(pc[c]) BY DEF StepsLeft
    <2>3. StepsLeft(c)' = 4 * (MaxVia - (Len(trail[c]) + 1)) + 4
      BY <1>5, <2>1 DEF Contacting, StepsLeft
    <2>4. StepsLeft(c)' = 4 * (MaxVia - Len(trail[c])) BY <1>1, <1>2, <2>3
    <2> QED BY <1>1, <1>2, <2>1, <2>2, <2>4
  <1> QED BY <1>4, <1>5

LEMMA StepMoves ==
  ASSUME Base, [Next]_vars, NEW c \in Calls, pc'[c] # pc[c] \/ trail'[c] # trail[c]
  PROVE  Onward(c) \/ Contacting(c)
  <1> USE DEF Goto, End
  <1>1. ASSUME NEW d \in Calls, NEW in \in Inputs, Begin(d, in) PROVE Onward(c)
    BY <1>1 DEF Begin, Onward, Base, TypeOK
  <1>2. ASSUME NEW d \in Calls, Enter(d) PROVE Onward(c)
    BY <1>2 DEF Enter, Onward, Base, TypeOK
  <1>3. ASSUME NEW d \in Calls, Resolve(d) \/ Build(d) PROVE Onward(c)
    BY <1>3 DEF Resolve, Build, Onward, Base, TypeOK
  <1>4. ASSUME NEW d \in Calls, Reuse(d) \/ Dial(d) PROVE Contacting(c)
    <2>1. /\ pc[d] \in {"connect", "dial"} /\ pc' = [pc EXCEPT ![d] = "await"]
          /\ \E a : Visit(d, a)
      BY <1>4 DEF Reuse, Dial
    <2>2. PICK a : trail' = [trail EXCEPT ![d] = Append(@, [host |-> target[d], addr |-> a])]
      BY <2>1 DEF Visit
    <2>3. c = d BY <2>1, <2>2 DEF Base, TypeOK
    <2>4. trail[c] \in Seq(Request) BY DEF Base, TypeOK, Request
    <2>5. trail'[c] = Append(trail[c], [host |-> target[c], addr |-> a])
      BY <2>2, <2>3 DEF Base, TypeOK
    <2>6. Len(trail'[c]) = Len(trail[c]) + 1 BY <2>4, <2>5
    <2> QED BY <2>1, <2>3, <2>6 DEF Contacting, Base, TypeOK
  <1>5. ASSUME NEW d \in Calls, DialCheck(d) \/ Respond(d) \/ Read(d) PROVE Onward(c)
    BY <1>5 DEF DialCheck, Respond, Read, Onward, Base, TypeOK
  <1>6. ASSUME NEW d \in Calls, Redirect(d) PROVE Onward(c)
    BY <1>6 DEF Redirect, Onward, Base, TypeOK
  <1>7. ASSUME NEW d \in Calls, Timeout(d) \/ Disconnect(d) PROVE Onward(c)
    BY <1>7 DEF Timeout, ClientTimeout, Disconnect, GiveUp, Onward, Base, TypeOK
  <1>8. ~DnsChange /\ ~UNCHANGED vars BY DEF DnsChange, vars, callVars
  <1> QED BY <1>1, <1>2, <1>3, <1>4, <1>5, <1>6, <1>7, <1>8 DEF Next, Own, Network

(* Each step of a call takes from what it has left, so that no call goes in *)
(* circles: the half of EveryCallEnds that needs no fairness.               *)
THEOREM EveryCallRunsDown == Spec => CallsRunDown
  <1> DEFINE Down == \A c \in Calls : pc'[c] # pc[c] \/ trail'[c] # trail[c] =>
                        StepsLeft(c)' \in 0..(StepsLeft(c) - 1)
  <1>1. Init => Room BY RoomInit
  <1>2. Base /\ Room /\ [Next]_vars => Room' BY RoomNext
  <1>3. Base /\ Room /\ Base' /\ Room' /\ [Next]_vars => [Down]_vars
    BY StepMoves, MovesRunDown
  <1> HIDE DEF Down
  <1>4. Spec => [][Down]_vars BY <1>1, <1>2, <1>3, BaseAlways, PTL DEF Spec
  <1> QED BY <1>4 DEF CallsRunDown, Down
------------------------------------------------------------------------------
LEMMA BodyNext == ASSUME Base, BodyWithinCap, [Next]_vars PROVE BodyWithinCap'
  <1>1. ASSUME NEW c \in Calls, NEW r \in Outcomes \ {"shown", "tooLarge"},
               End(c, r), UNCHANGED length
        PROVE  BodyWithinCap'
    BY <1>1 DEF End, BodyWithinCap, Base, TypeOK
  <1>2. CASE UNCHANGED <<length, outcome>> BY <1>2 DEF BodyWithinCap
  <1>3. ASSUME NEW c \in Calls, Respond(c) PROVE BodyWithinCap'
    <2>1. CASE End(c, "undisplayable") /\ UNCHANGED length
      BY <1>1, <2>1 DEF Outcomes
    <2>2. ASSUME NEW n \in 0..MaxLength, length' = [length EXCEPT ![c] = n], UNCHANGED outcome
          PROVE  BodyWithinCap'
      <3>1. outcome[c] = "none" BY <1>3 DEF Respond, Base, TypeOK
      <3>2. \A d \in Calls \ {c} : length'[d] = length[d] BY <2>2 DEF Base, TypeOK
      <3> QED BY <2>2, <3>1, <3>2 DEF BodyWithinCap
    <2> QED BY <1>3, <2>1, <2>2 DEF Respond
  <1>4. ASSUME NEW c \in Calls, Read(c) PROVE BodyWithinCap'
    <2>1. length[c] \in Int /\ MaxBytes \in Int BY ExecutorAssumption DEF Base, TypeOK
    <2>2. Truncated(length[c]) <=> length[c] > MaxBytes BY <2>1 DEF Truncated, BytesRead
    <2>3. /\ outcome' = [outcome EXCEPT ![c] = IF Truncated(length[c]) THEN "tooLarge" ELSE "shown"]
          /\ UNCHANGED length
      BY <1>4 DEF Read, End
    <2> QED BY <2>1, <2>2, <2>3 DEF BodyWithinCap, Base, TypeOK
  <1>5. ASSUME NEW c \in Calls,
               Own(c) \/ Reuse(c) \/ DialCheck(c) \/ Dial(c) \/ Redirect(c) \/ Disconnect(c)
        PROVE  BodyWithinCap'
    BY <1>1, <1>2, <1>5 DEF Own, Enter, Resolve, Build, Timeout, GiveUp, Reuse, DialCheck, Dial,
                            Redirect, Disconnect, Outcomes
  <1>6. CASE DnsChange BY <1>2, <1>6 DEF DnsChange, callVars
  <1>7. CASE UNCHANGED vars BY <1>2, <1>7 DEF vars, callVars
  <1>8. ASSUME NEW c \in Calls, NEW in \in Inputs, Begin(c, in) PROVE BodyWithinCap'
    BY <1>2, <1>8 DEF Begin
  <1> QED BY <1>3, <1>4, <1>5, <1>6, <1>7, <1>8 DEF Next, Network

(* A body is shown whole or not at all, and a body of exactly the cap is shown. *)
THEOREM BodiesShownWhole == Spec => []BodyWithinCap
  <1>1. Init => BodyWithinCap BY DEF Init, BodyWithinCap
  <1>2. Base /\ BodyWithinCap /\ [Next]_vars => BodyWithinCap' BY BodyNext
  <1> QED BY <1>1, <1>2, BaseAlways, PTL DEF Spec
------------------------------------------------------------------------------
(* The refinement.  A step of a call is one request, its end, or nothing    *)
(* that ProxyCall shows.                                                    *)
Where(s) == {s[i].addr : i \in 1..Len(s)}

LEMMA WhereAppend ==
  ASSUME NEW s \in Seq(Request), NEW e \in Request
  PROVE  Where(Append(s, e)) = Where(s) \cup {e.addr}
  <1>1. /\ Len(s) \in Nat /\ Len(Append(s, e)) = Len(s) + 1
        /\ Append(s, e)[Len(s) + 1] = e
        /\ \A i \in 1..Len(s) : Append(s, e)[i] = s[i]
    BY AppendFacts
  <1>2. 1..Len(Append(s, e)) = 1..Len(s) \cup {Len(s) + 1} BY <1>1
  <1> QED BY <1>1, <1>2 DEF Where

LEMMA NoResult == Result("none") = "none" BY DEF Result, Refusals, Answers

LEMMA ContactStep ==
  ASSUME Base, Room, NEW c \in Calls, NEW a \in Addrs \ Private, Visit(c, a),
         pc[c] \in {"connect", "dial"}, UNCHANGED outcome
  PROVE  PC!Contact(c, a)
  <1> DEFINE e == [host |-> target[c], addr |-> a]
  <1>1. trail \in [Calls -> Seq(Request)] /\ e \in Request BY DEF Base, TypeOK, Request
  <1>2. trail' = [trail EXCEPT ![c] = Append(trail[c], e)] BY DEF Visit
  <1>3. Len(trail'[c]) = Len(trail[c]) + 1 BY <1>1, <1>2, AppendFacts
  <1>4. Where(trail'[c]) = Where(trail[c]) \cup {a} BY <1>1, <1>2, WhereAppend
  <1>5. \A d \in Calls \ {c} : trail'[d] = trail[d] BY <1>1, <1>2
  <1>6. [d \in Calls |-> Len(trail'[d])]
          = [[d \in Calls |-> Len(trail[d])] EXCEPT ![c] = @ + 1]
    BY <1>3, <1>5
  <1>7. [d \in Calls |-> Where(trail'[d])]
          = [[d \in Calls |-> Where(trail[d])] EXCEPT ![c] = @ \cup {a}]
    BY <1>4, <1>5
  <1>8. Result(outcome[c]) = "none"
    <2>1. outcome[c] = "none" BY DEF Base, TypeOK
    <2> QED BY <2>1, NoResult
  <1>9. Len(trail[c]) < MaxVia BY DEF Room
  <1> QED BY <1>6, <1>7, <1>8, <1>9 DEF PC!Contact, Where

LEMMA FinishStep ==
  ASSUME Base, NEW c \in Calls, NEW r \in Outcomes, End(c, r), pc[c] # "done",
         UNCHANGED trail,
         r \in Refusals => trail[c] = <<>>,
         r \in Answers => trail[c] # <<>>
  PROVE  PC!Refuse(c) \/ PC!Fail(c) \/ PC!Answer(c)
  <1>1. Result(outcome[c]) = "none"
    <2>1. outcome[c] = "none" BY DEF Base, TypeOK
    <2> QED BY <2>1, NoResult
  <1>2. outcome' = [outcome EXCEPT ![c] = r] /\ outcome \in [Calls -> Outcomes \cup {"none"}]
    BY DEF End, Base, TypeOK
  <1>3. [d \in Calls |-> Result(outcome'[d])]
          = [[d \in Calls |-> Result(outcome[d])] EXCEPT ![c] = Result(r)]
    BY <1>2
  <1>4. PC!Finish(c, Result(r)) BY <1>1, <1>3 DEF PC!Finish
  <1>5. trail[c] \in Seq(Request) BY DEF Base, TypeOK, Request
  <1>6. CASE r \in Refusals
    <2>1. Result(r) = "refused" BY <1>6 DEF Result, Refusals
    <2>2. Len(trail[c]) = 0 BY <1>6
    <2> QED BY <1>4, <2>1, <2>2 DEF PC!Refuse
  <1>7. CASE r \in Answers
    <2>1. Result(r) = "answered" BY <1>7 DEF Result, Refusals, Answers
    <2>2. Len(trail[c]) # 0 BY <1>5, <1>7, EmptySeq, LenProperties
    <2> QED BY <1>4, <2>1, <2>2 DEF PC!Answer
  <1>8. CASE r \notin Refusals \cup Answers
    <2>1. Result(r) = "failed" BY <1>8 DEF Result, Outcomes
    <2> QED BY <1>4, <2>1 DEF PC!Fail
  <1> QED BY <1>6, <1>7, <1>8

LEMMA SilentStep == ASSUME UNCHANGED <<trail, outcome>> PROVE UNCHANGED PC!vars
  BY DEF PC!vars

LEMMA StepRefines ==
  ASSUME Base, Contacts, Room, [Next]_vars
  PROVE  [PC!Next]_PC!vars
  <1> USE DEF Outcomes
  <1>1. ASSUME NEW c \in Calls, NEW a \in Addrs \ Private, PC!Contact(c, a) PROVE PC!Next
    BY <1>1 DEF PC!Next
  <1>2. ASSUME NEW c \in Calls, PC!Refuse(c) \/ PC!Fail(c) \/ PC!Answer(c) PROVE PC!Next
    BY <1>2 DEF PC!Next
  <1>3. ASSUME NEW c \in Calls, NEW r \in Refusals, End(c, r), UNCHANGED trail,
               pc[c] \in {"enter", "resolve", "build"}
        PROVE  PC!Next
    <2>1. trail[c] = <<>> BY <1>3 DEF Base, Asked
    <2>2. r \in Outcomes /\ r \notin Answers BY DEF Refusals, Answers
    <2> QED BY <1>2, <1>3, <2>1, <2>2, FinishStep
  <1>4. ASSUME NEW c \in Calls, NEW r \in Answers, End(c, r), UNCHANGED trail,
               pc[c] \in {"await", "read"}
        PROVE  PC!Next
    <2>1. trail[c] # <<>> BY <1>4 DEF Base, Asked
    <2>2. r \in Outcomes /\ r \notin Refusals BY DEF Refusals, Answers
    <2> QED BY <1>2, <1>4, <2>1, <2>2, FinishStep
  <1>5. ASSUME NEW c \in Calls, NEW r \in {"unreachable", "unreadable"}, End(c, r),
               UNCHANGED trail, pc[c] # "done"
        PROVE  PC!Next
    <2>1. r \in Outcomes /\ r \notin Refusals \cup Answers BY DEF Refusals, Answers
    <2> QED BY <1>2, <1>5, <2>1, FinishStep
  <1>6. ASSUME NEW c \in Calls, Enter(c) \/ Resolve(c) \/ Build(c) PROVE [PC!Next]_PC!vars
    BY <1>3, <1>6, SilentStep DEF Enter, Resolve, Build, Refusals
  <1>7. ASSUME NEW c \in Calls, Reuse(c) PROVE PC!Next
    <2>1. PICK a \in pool[target[c].name] : Visit(c, a) BY <1>7 DEF Reuse
    <2>2. a \in Addrs \ Private
      BY <1>7, <2>1 DEF Reuse, Base, TypeOK, Spelling, Contacts, PoolPublic
    <2> QED BY <1>1, <1>7, <2>1, <2>2, ContactStep DEF Reuse
  <1>8. ASSUME NEW c \in Calls, Dial(c) PROVE PC!Next
    <2>1. PICK a \in Candidates(target[c]) : ValidateConnAddr(a) /\ Visit(c, a)
      BY <1>8 DEF Dial
    <2>2. target[c] \in Spelling /\ ~target[c].padded BY <1>8 DEF Dial, Base, TypeOK, Parsed
    <2>3. a \in Addrs \ Private BY <2>1, <2>2, CandidatesAreAddrs DEF ValidateConnAddr
    <2> QED BY <1>1, <1>8, <2>1, <2>3, ContactStep DEF Dial
  <1>9. ASSUME NEW c \in Calls, DialCheck(c) \/ Redirect(c) \/ GiveUp(c), pc[c] # "done"
        PROVE  [PC!Next]_PC!vars
    BY <1>5, <1>9, SilentStep DEF DialCheck, Redirect, GiveUp
  <1>10. ASSUME NEW c \in Calls, Respond(c) \/ Read(c) PROVE [PC!Next]_PC!vars
    BY <1>4, <1>10, SilentStep DEF Respond, Read, Answers
  <1>11. CASE DnsChange BY <1>11, SilentStep DEF DnsChange, callVars
  <1>12. CASE UNCHANGED vars BY <1>12, SilentStep DEF vars, callVars
  <1>13. ASSUME NEW c \in Calls, DialCheck(c) \/ Redirect(c) \/ Timeout(c) \/ Disconnect(c)
         PROVE  [PC!Next]_PC!vars
    <2>1. pc[c] # "done" BY <1>13 DEF DialCheck, Redirect, Timeout, ClientTimeout, Disconnect
    <2> QED BY <1>9, <1>13, <2>1 DEF Timeout, Disconnect
  <1>14. ASSUME NEW c \in Calls, NEW in \in Inputs, Begin(c, in) PROVE UNCHANGED PC!vars
    BY <1>14, SilentStep DEF Begin
  <1> QED BY <1>6, <1>7, <1>8, <1>10, <1>11, <1>12, <1>13, <1>14 DEF Next, Own, Network

LEMMA InitRefines == ASSUME Init PROVE PC!Init
  <1>1. \A c \in Calls : trail[c] = <<>> /\ outcome[c] = "none" BY DEF Init
  <1>2. \A c \in Calls : Len(trail[c]) = 0 BY <1>1
  <1>3. \A c \in Calls : {trail[c][i].addr : i \in 1..Len(trail[c])} = {} BY <1>2
  <1>4. \A c \in Calls : Result(outcome[c]) = "none" BY <1>1, NoResult
  <1>5. [c \in Calls |-> Len(trail[c])] = [c \in Calls |-> 0] BY <1>2
  <1>6. [c \in Calls |-> {trail[c][i].addr : i \in 1..Len(trail[c])}] = [c \in Calls |-> {}]
    BY <1>3
  <1>7. [c \in Calls |-> Result(outcome[c])] = [c \in Calls |-> "none"] BY <1>4
  <1> QED BY <1>5, <1>6, <1>7 DEF PC!Init

(* Execute does what ProxyCall promises, for any calls, hosts, addresses and *)
(* limits and whatever DNS and servers do.                                  *)
THEOREM ExecutorImplementsProxyCall == Spec => ImplementsProxyCall
  <1>1. Init => Contacts /\ Room /\ PC!Init BY ContactsInit, RoomInit, InitRefines
  <1>2. Base /\ Contacts /\ Room /\ [Next]_vars => Contacts' /\ Room'
    BY ContactsNext, RoomNext
  <1>3. Base /\ Contacts /\ Room /\ [Next]_vars => [PC!Next]_PC!vars BY StepRefines
  <1> QED BY <1>1, <1>2, <1>3, BaseAlways, PTL DEF Spec, ImplementsProxyCall, PC!Spec
==============================================================================
