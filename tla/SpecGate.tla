------------------------------- MODULE SpecGate -------------------------------
(***************************************************************************)
(* The server's stored specs and the handlers that touch them:             *)
(* backend/internal/store/store.go and backend/internal/handler/           *)
(* handler.go.  Each HTTP request is served by a goroutine of its own.     *)
(* SpecStore's mutex covers Save, Get and Approve, but Get hands out the   *)
(* pointer, and the handlers read the fields of the stored spec after the  *)
(* lock is released: the steps below are the accesses to shared memory, in *)
(* program order, so that any two requests interleave between them.        *)
(*                                                                         *)
(* proxyRequestCore is followed up to the allowlist check that opens       *)
(* proxy.Execute; a request that passes it is "forwarded" here.            *)
(***************************************************************************)
EXTENDS HostRules, Integers, FiniteSets

CONSTANTS
    Requests,      \* the goroutines: each serves one request
    Ids,           \* the uuids an instance can issue
    Documents,     \* the server lists of the documents clients upload
    Edits,         \* the host lists clients send with an approval
    Targets,       \* the hosts of the URLs clients ask to be called
    MaxRestarts,   \* bound of the model: how often the server restarts
    None           \* no request, spec, list, call or id

Lists == SUBSET Spelling

StoredSpec == [approved : BOOLEAN, hosts : Lists, servers : Lists]

Calls == [op : {"upload"}, id : Ids \cup {None}, servers : Documents]
         \cup [op : {"get"}, id : Ids]
         \cup [op : {"approve"}, id : Ids, list : Edits \cup {{}}]
         \cup [op : {"proxy"}, id : Ids, host : Targets]

Answers == [status : {"none", "created", "ok", "bad", "missing", "forbidden",
                      "notListed", "forwarded"},
            approved : BOOLEAN, hosts : Lists]

ASSUME GateAssumption ==
    /\ Documents \subseteq Lists
    /\ Edits \subseteq Lists \ {{}}
    /\ Targets \subseteq {h \in Spelling : ~h.padded}
    /\ MaxRestarts \in Nat
    /\ None \notin Requests \cup Ids \cup StoredSpec \cup Calls
    /\ \A l \in Lists : l # None

VARIABLES
    specs,       \* SpecStore.specs: id -> stored spec, or None
    writer,      \* the request that holds SpecStore.mu for writing, or None
    forgotten,   \* the ids issued before the last restart
    restarts,    \* number of restarts so far
    pc,          \* where each request's handler is
    call,        \* what each request asks, or None before it arrives
    list,        \* ApproveSpec's local `hosts'
    answer,      \* the response, as far as it is built
    latest,      \* history: the list of a spec's last approval, or None
    asof,        \* history: latest, when the request looked its spec up
    disturbed    \* history: the spec was written to since that look-up

storeVars == <<specs, writer, forgotten, restarts>>
handlerVars == <<pc, call, list, answer>>
historyVars == <<latest, asof, disturbed>>
vars == <<storeVars, handlerVars, historyVars>>

NoAnswer == [status |-> "none", approved |-> FALSE, hosts |-> {}]

Live == {i \in Ids : specs[i] # None}

Issued == Live \cup forgotten

(* Clients know an id from the response to its upload; a uuid is not guessed. *)
Told == {call[q].id : q \in {p \in Requests : answer[p].status = "created"}}

Done(r, status) ==
    /\ pc' = [pc EXCEPT ![r] = "done"]
    /\ answer' = [answer EXCEPT ![r].status = status]

Goto(r, label) == pc' = [pc EXCEPT ![r] = label]
------------------------------------------------------------------------------
(* Slips the runs must notice, each a variant of a definition below. *)
KeepsLock == writer' = writer
IgnoresWriter == TRUE
FirstEntryChecked(l) == l = {} \/ \E h \in l : IsValidPublicHost(h)
EmptyListTaken(default, sent) == sent
ApprovalNotAsked(i) == TRUE
KeptStore == specs
------------------------------------------------------------------------------
(* SpecStore.mu, an RWMutex: Save and Approve take it for writing, Get for *)
(* reading.  Only Approve does more than one thing while it holds it.      *)
MuFree == writer = None

Unlock == writer' = None

NewStore == [i \in Ids |-> None]

(* `if !stored.Approved'. *)
IsApproved(i) == specs[i].approved

(* Every host of an edited list is checked before the list is used. *)
Acceptable(l) == \A h \in l : IsValidPublicHost(h)

(* A body that is missing, malformed or lists no host leaves the default. *)
ChosenList(default, sent) == IF sent = {} THEN default ELSE sent

(* A slice header is several words.  A read that overlaps its replacement  *)
(* may pair one list's array with the other's length, and then sees the    *)
(* first entries of the longer list.  (A length beyond the array's end     *)
(* reads foreign memory: the handler fails, and nothing is modelled of it.)*)
Torn(old, new) == {s \in SUBSET old : Cardinality(s) = Cardinality(new)}
                  \cup {s \in SUBSET new : Cardinality(s) = Cardinality(old)}

(* What a handler that holds no lock may find in stored.AllowedHosts. *)
Reads(i) ==
    IF writer # None /\ call[writer].id = i
    THEN {specs[i].hosts, list[writer]} \cup Torn(specs[i].hosts, list[writer])
    ELSE {specs[i].hosts}

(* Requests between the look-up of spec i and their last read of it. *)
Reading(i) == {r \in Requests : /\ pc[r] \notin {"idle", "save", "lookup", "done", "lost"}
                                /\ call[r].id = i}

Disturb(i, r) == disturbed' = [q \in Requests |-> disturbed[q] \/ q \in Reading(i) \ {r}]
------------------------------------------------------------------------------
Init == /\ specs = [i \in Ids |-> None]
        /\ writer = None
        /\ forgotten = {}
        /\ restarts = 0
        /\ pc = [r \in Requests |-> "idle"]
        /\ call = [r \in Requests |-> None]
        /\ list = [r \in Requests |-> {}]
        /\ answer = [r \in Requests |-> NoAnswer]
        /\ latest = [i \in Ids |-> None]
        /\ asof = [r \in Requests |-> None]
        /\ disturbed = [r \in Requests |-> FALSE]

(* A request arrives.  An instance has an id for each of its uploads. *)
Arrive(r) ==
    /\ pc[r] = "idle"
    /\ \/ /\ Cardinality({q \in Requests : call[q] # None /\ call[q].op = "upload"})
                 < Cardinality(Ids)
          /\ \E d \in Documents :
                call' = [call EXCEPT ![r] = [op |-> "upload", id |-> None, servers |-> d]]
          /\ Goto(r, "save")
       \/ \E i \in Told :
             /\ \/ call' = [call EXCEPT ![r] = [op |-> "get", id |-> i]]
                \/ \E l \in Edits \cup {{}} :
                      call' = [call EXCEPT ![r] = [op |-> "approve", id |-> i, list |-> l]]
                \/ \E h \in Targets :
                      call' = [call EXCEPT ![r] = [op |-> "proxy", id |-> i, host |-> h]]
             /\ Goto(r, "lookup")
    /\ UNCHANGED <<storeVars, list, answer, historyVars>>

(* UploadSpec and LoadDemo, with a document that does not parse; the       *)
(* checks of proxyRequestCore before the look-up and between its two reads.*)
Reject(r) ==
    /\ \/ pc[r] = "save"
       \/ pc[r] = "lookup" /\ call[r].op = "proxy"
       \/ pc[r] = "readList"
    /\ Done(r, "bad")
    /\ UNCHANGED <<storeVars, call, list, historyVars>>

(* storeResult: a fresh uuid, unapproved, with the hosts of its servers. *)
Save(r) ==
    /\ pc[r] = "save"
    /\ MuFree
    /\ \E i \in Ids \ Issued :
          /\ specs' = [specs EXCEPT ![i] =
                          [approved |-> FALSE,
                           hosts    |-> ExtractServerHosts(call[r].servers),
                           servers  |-> ExtractServerHosts(call[r].servers)]]
          /\ call' = [call EXCEPT ![r].id = i]
    /\ Goto(r, "readApproved")
    /\ UNCHANGED <<writer, forgotten, restarts, list, answer, historyVars>>

(* store.Get, under the read lock. *)
Lookup(r) ==
    LET i == call[r].id
    IN  /\ pc[r] = "lookup"
        /\ MuFree
        /\ IF specs[i] = None
           THEN /\ Done(r, IF call[r].op = "proxy" THEN "forbidden" ELSE "missing")
                /\ UNCHANGED asof
           ELSE /\ Goto(r, CASE call[r].op = "get" -> "readApproved"
                             [] call[r].op = "approve" -> "readDefault"
                             [] call[r].op = "proxy" -> "checkApproved")
                /\ asof' = [asof EXCEPT ![r] = latest[i]]
                /\ UNCHANGED answer
        /\ UNCHANGED <<storeVars, call, list, latest, disturbed>>
(* ApproveSpec: `hosts := stored.AllowedHosts', before the body arrives. *)
ReadDefault(r) ==
    /\ pc[r] = "readDefault"
    /\ \E l \in Reads(call[r].id) : list' = [list EXCEPT ![r] = l]
    /\ Goto(r, "decodeList")
    /\ UNCHANGED <<storeVars, call, answer, historyVars>>

(* ApproveSpec's body; an unacceptable list is answered with 400. *)
DecodeList(r) ==
    /\ pc[r] = "decodeList"
    /\ IF Acceptable(call[r].list)
       THEN /\ list' = [list EXCEPT ![r] = ChosenList(@, call[r].list)]
            /\ Goto(r, "beginApprove")
            /\ UNCHANGED answer
       ELSE Done(r, "bad") /\ UNCHANGED list
    /\ UNCHANGED <<storeVars, call, historyVars>>

(* store.Approve takes the lock and sets Approved ... *)
BeginApprove(r) ==
    LET i == call[r].id
    IN  /\ pc[r] = "beginApprove"
        /\ MuFree
        /\ writer' = r
        /\ specs' = [specs EXCEPT ![i].approved = TRUE]
        /\ Disturb(i, r)
        /\ Goto(r, "endApprove")
        /\ UNCHANGED <<forgotten, restarts, call, list, answer, latest, asof>>

(* ... then replaces AllowedHosts and releases it. *)
EndApprove(r) ==
    LET i == call[r].id
    IN  /\ pc[r] = "endApprove"
        /\ Unlock
        /\ specs' = [specs EXCEPT ![i].hosts = list[r]]
        /\ latest' = [latest EXCEPT ![i] = list[r]]
        /\ Disturb(i, r)
        /\ Goto(r, "readApproved")
        /\ UNCHANGED <<forgotten, restarts, call, list, answer, asof>>

(* toSummary, for GetSpec, ApproveSpec and the uploads. *)
ReadApproved(r) ==
    /\ pc[r] = "readApproved"
    /\ answer' = [answer EXCEPT ![r].approved = specs[call[r].id].approved]
    /\ Goto(r, "readHosts")
    /\ UNCHANGED <<storeVars, call, list, historyVars>>

ReadHosts(r) ==
    /\ pc[r] = "readHosts"
    /\ \E l \in Reads(call[r].id) :
          answer' = [answer EXCEPT
                        ![r].hosts = l,
                        ![r].status = IF call[r].op = "upload" THEN "created" ELSE "ok"]
    /\ Goto(r, "done")
    /\ UNCHANGED <<storeVars, call, list, historyVars>>

(* proxyRequestCore: `if !stored.Approved'. *)
CheckApproved(r) ==
    /\ pc[r] = "checkApproved"
    /\ IF IsApproved(call[r].id)
       THEN Goto(r, "readList") /\ UNCHANGED answer
       ELSE Done(r, "forbidden")
    /\ UNCHANGED <<storeVars, call, list, historyVars>>

(* HostInList in Execute, for the list l it is handed. *)
Judge(r, l) ==
    /\ Done(r, IF HostInList(call[r].host, l) THEN "forwarded" ELSE "notListed")
    /\ UNCHANGED <<storeVars, call, list, historyVars>>

(* `AllowedHosts: stored.AllowedHosts'. *)
Forward(r) == pc[r] = "readList" /\ \E l \in Reads(call[r].id) : Judge(r, l)

(* The specs live in memory: a restart loses them and every open request. *)
Restart ==
    /\ restarts < MaxRestarts
    /\ restarts' = restarts + 1
    /\ forgotten' = Issued
    /\ specs' = NewStore
    /\ latest' = [i \in Ids |-> None]
    /\ writer' = None
    /\ pc' = [r \in Requests |-> IF pc[r] \in {"idle", "done"} THEN pc[r] ELSE "lost"]
    /\ UNCHANGED <<call, list, answer, asof, disturbed>>

(* A step of the goroutine that serves r: all but the last of a proxied call ... *)
Handle(r) == \/ Reject(r) \/ Save(r) \/ Lookup(r)
             \/ ReadDefault(r) \/ DecodeList(r) \/ BeginApprove(r) \/ EndApprove(r)
             \/ ReadApproved(r) \/ ReadHosts(r)
             \/ CheckApproved(r)

(* ... and that one. *)
Step(r) == Handle(r) \/ Forward(r)

Next == (\E r \in Requests : Arrive(r) \/ Step(r)) \/ Restart

Spec == Init /\ [][Next]_vars
------------------------------------------------------------------------------
Labels == {"idle", "save", "lookup", "readDefault", "decodeList", "beginApprove",
           "endApprove", "readApproved", "readHosts", "checkApproved", "readList",
           "done", "lost"}

(* Types, and that the lock is held exactly inside store.Approve. *)
TypeOK ==
    /\ specs \in [Ids -> StoredSpec \cup {None}]
    /\ writer \in Requests \cup {None}
    /\ \A r \in Requests : writer = r <=> pc[r] = "endApprove"
    /\ forgotten \subseteq Ids
    /\ restarts \in 0..MaxRestarts
    /\ pc \in [Requests -> Labels]
    /\ call \in [Requests -> Calls \cup {None}]
    /\ list \in [Requests -> Lists]
    /\ answer \in [Requests -> Answers]
    /\ latest \in [Ids -> {None} \cup Lists]
    /\ asof \in [Requests -> {None} \cup Lists]
    /\ disturbed \in [Requests -> BOOLEAN]

Answered(r, op) == pc[r] = "done" /\ call[r].op = op /\ answer[r].status # "bad"

(* The lists approvals of spec i have put, or are putting, in force. *)
Granted(i) == {list[r] : r \in {q \in Requests :
                  /\ call[q] # None /\ call[q].op = "approve" /\ call[q].id = i
                  /\ \/ pc[q] \in {"endApprove", "readApproved", "readHosts"}
                     \/ answer[q].status = "ok"}}

(* Whatever approvals run at once, every host a stored spec allows is one  *)
(* of its document's servers or passed the check of an edited list.        *)
Vouched ==
    \A i \in Live : \A h \in specs[i].hosts :
        h \in specs[i].servers \/ IsValidPublicHost(h)

(* A proxied request during which nobody approves the spec is decided by   *)
(* the approval that was last complete when the request looked it up: it   *)
(* is forwarded if and only if that approval lists its host.               *)
JudgedByLatestApproval ==
    \A r \in Requests :
        Answered(r, "proxy") /\ ~disturbed[r] =>
            (answer[r].status = "forwarded" <=>
                asof[r] # None /\ HostInList(call[r].host, asof[r]))

(* Even when approvals interfere, nothing is forwarded for a spec nobody   *)
(* approved, nor to a host that is neither a server of the document nor in *)
(* a list some approval of this spec granted.                              *)
ForwardedVouched ==
    \A r \in Requests :
        LET i == call[r].id
        IN  Answered(r, "proxy") /\ answer[r].status = "forwarded" /\ i \in Live =>
                /\ Granted(i) # {}
                /\ HostInList(call[r].host, specs[i].servers \cup UNION Granted(i))

(* The list that was in force for spec i at a look-up that found l. *)
InForce(i, l) == IF l = None THEN specs[i].servers ELSE l

(* The summary in a response nobody interfered with tells the truth: an    *)
(* approval reports the list it was sent, or, sent none for a spec nobody  *)
(* approved before, the document's servers; a get reports the latest       *)
(* approval; an upload is unapproved.  What an approval without a list     *)
(* takes after an earlier one is no promise here: DefaultsToServers.       *)
UndisturbedSummary ==
    \A r \in Requests :
        LET i == call[r].id
        IN  pc[r] = "done" /\ answer[r].status \in {"ok", "created"}
                /\ i \in Live /\ ~disturbed[r] =>
            CASE call[r].op = "upload" ->
                    /\ ~answer[r].approved
                    /\ answer[r].hosts = specs[i].servers
              [] call[r].op = "get" ->
                    /\ answer[r].approved <=> asof[r] # None
                    /\ answer[r].hosts = InForce(i, asof[r])
              [] call[r].op = "approve" ->
                    /\ answer[r].approved
                    /\ call[r].list # {} => answer[r].hosts = call[r].list
                    /\ call[r].list = {} /\ asof[r] = None =>
                          answer[r].hosts = specs[i].servers

(* An id from before a restart is never served again: its approval went    *)
(* with the process, and no new upload gets the id.                        *)
StaleIdRefused ==
    [][\A r \in Requests :
          pc[r] # "done" /\ pc'[r] = "done" /\ call[r].id \in forgotten =>
              answer'[r].status \in {"missing", "forbidden", "bad"}]_vars

(* Requests never wait for each other in a circle, nor for a lock that is    *)
(* not released: while one is unanswered, one of them can go on.             *)
SomeRequestProceeds ==
    (\E r \in Requests : pc[r] \notin {"idle", "done", "lost"}) =>
        \E r \in Requests : ENABLED Step(r)
------------------------------------------------------------------------------
(* Statements of the repository that the code does not keep. *)

(* handler/errors.go:14: "You can only call the hosts you approved for     *)
(* this spec."                                                             *)
OnlyApprovedHostsCalled ==
    \A r \in Requests :
        Answered(r, "proxy") /\ answer[r].status = "forwarded" /\ call[r].id \in Live =>
            HostInList(call[r].host, UNION Granted(call[r].id))

(* openapi.yaml:249, of the list of an approval: "Defaults to spec's       *)
(* servers."  Once an edited list is stored, ApproveSpec keeps that one.   *)
DefaultsToServers ==
    \A r \in Requests :
        LET i == call[r].id
        IN  Answered(r, "approve") /\ answer[r].status = "ok"
                /\ i \in Live /\ ~disturbed[r] /\ call[r].list = {} =>
            answer[r].hosts = specs[i].servers
==============================================================================
