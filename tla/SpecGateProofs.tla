---------------------------- MODULE SpecGateProofs ----------------------------
(***************************************************************************)
(* Theorems about SpecGate for any number of requests, ids and restarts,   *)
(* any documents, edits and targets; and, at the end, about Proxy, whose   *)
(* steps on the gate's state are SpecGate's, for any limits besides.       *)
(***************************************************************************)
EXTENDS Proxy, FiniteSetTheorems, SequenceTheorems, TLAPS

UploadCalls == [op : {"upload"}, id : Ids \cup {None}, servers : Documents]

(* What a handler's place in its code says of the request it serves. *)
CallFits ==
    \A r \in Requests :
        /\ pc[r] \in {"idle", "done", "lost"} \/ call[r] \in Calls
        /\ pc[r] = "save" => call[r].op = "upload"
        /\ pc[r] = "lookup" => call[r].op # "upload"
        /\ pc[r] \in {"readDefault", "decodeList", "beginApprove", "endApprove"}
               => call[r].op = "approve"
        /\ pc[r] \in {"checkApproved", "readList"} => call[r].op = "proxy"
        /\ pc[r] \in {"readApproved", "readHosts"} => call[r].op # "proxy"
        /\ pc[r] \notin {"idle", "save", "lookup", "done", "lost"}
               => call[r].id \in Ids /\ specs[call[r].id] # None
        /\ pc[r] \in {"done", "lost"} => call[r] \in Calls
        /\ pc[r] # "done" => answer[r].status = "none"
        /\ answer[r].status = "created" => call[r].id \in Ids

LEMMA StoredSpecFields ==
    ASSUME NEW s \in StoredSpec
    PROVE  /\ s.approved \in BOOLEAN /\ s.hosts \in Lists /\ s.servers \in Lists
           /\ s # None
BY GateAssumption DEF StoredSpec

LEMMA CallFields ==
    ASSUME NEW c \in Calls
    PROVE  /\ c # None
           /\ c.op \in {"upload", "get", "approve", "proxy"}
           /\ c.op = "upload" => c \in UploadCalls
           /\ c.op # "upload" => c.id \in Ids
           /\ c.op = "approve" => c.list \in Lists
           /\ c.op = "proxy" => c.host \in Targets
BY GateAssumption DEF Calls, UploadCalls, Lists

LEMMA ReadsAreLists ==
    ASSUME TypeOK, NEW i \in Ids, specs[i] # None
    PROVE  Reads(i) \subseteq Lists
<1>1. specs[i] \in StoredSpec /\ specs[i].hosts \in Lists
  BY StoredSpecFields DEF TypeOK
<1>2. \A r \in Requests : list[r] \in Lists
  BY DEF TypeOK
<1>3. \A s, t \in Lists : Torn(s, t) \subseteq Lists
  BY DEF Torn, Lists
<1> QED BY <1>1, <1>2, <1>3 DEF Reads, TypeOK

LEMMA ExtractIsList == \A s \in Lists : ExtractServerHosts(s) \in Lists
<1>1. \A h \in Spelling : ToLower(h) \in Spelling
  BY DEF Spelling, ToLower
<1> QED BY <1>1 DEF ExtractServerHosts, Lists
------------------------------------------------------------------------------
Base == TypeOK /\ CallFits

LEMMA BaseInit == Init => Base
<1>1. NoAnswer \in Answers
  BY DEF NoAnswer, Answers, Lists
<1>2. NoAnswer.status = "none"
  BY DEF NoAnswer
<1> QED BY <1>1, <1>2, GateAssumption
        DEF Init, Base, TypeOK, CallFits, Labels, NewStore, Lists

LEMMA BaseArrive == ASSUME Base, NEW r \in Requests, Arrive(r) PROVE Base'
<1> USE DEF Base
<1>1. /\ call'[r] \in Calls
      /\ call' = [call EXCEPT ![r] = call'[r]]
      /\ \/ pc' = [pc EXCEPT ![r] = "save"] /\ call'[r].op = "upload"
         \/ pc' = [pc EXCEPT ![r] = "lookup"] /\ call'[r].op # "upload"
  <2>1. CASE \E d \in Documents :
                /\ call' = [call EXCEPT ![r] = [op |-> "upload", id |-> None, servers |-> d]]
                /\ pc' = [pc EXCEPT ![r] = "save"]
    BY <2>1 DEF TypeOK, Calls
  <2>2. ASSUME NEW i \in Told,
               pc' = [pc EXCEPT ![r] = "lookup"],
               \/ call' = [call EXCEPT ![r] = [op |-> "get", id |-> i]]
               \/ \E l \in Edits \cup {{}} :
                     call' = [call EXCEPT ![r] = [op |-> "approve", id |-> i, list |-> l]]
               \/ \E h \in Targets :
                     call' = [call EXCEPT ![r] = [op |-> "proxy", id |-> i, host |-> h]]
        PROVE  /\ call'[r] \in Calls
               /\ call' = [call EXCEPT ![r] = call'[r]]
               /\ call'[r].op # "upload"
    <3>1. i \in Ids
      BY DEF Told, CallFits
    <3> QED BY <2>2, <3>1 DEF TypeOK, Calls
  <2> QED BY <2>1, <2>2 DEF Arrive, Goto
<1>2. TypeOK'
  BY <1>1 DEF Arrive, TypeOK, storeVars, historyVars, Labels
<1>3. CallFits'
  BY <1>1 DEF Arrive, TypeOK, CallFits, storeVars, historyVars
<1> QED BY <1>2, <1>3
LEMMA DoneAnswer ==
    ASSUME Base, NEW r \in Requests,
           NEW status \in {"ok", "bad", "missing", "forbidden", "notListed", "forwarded"},
           Done(r, status)
    PROVE  /\ answer' \in [Requests -> Answers]
           /\ answer'[r].status = status
           /\ \A q \in Requests \ {r} : answer'[q] = answer[q]
           /\ pc' \in [Requests -> Labels]
           /\ pc'[r] = "done"
           /\ \A q \in Requests \ {r} : pc'[q] = pc[q]
BY DEF Base, TypeOK, Done, Answers, Labels

LEMMA BaseReject == ASSUME Base, NEW r \in Requests, Reject(r) PROVE Base'
<1> USE DEF Base
<1>1. Done(r, "bad") /\ UNCHANGED <<storeVars, call, list, historyVars>>
  BY DEF Reject
<1>2. pc[r] \in {"save", "lookup", "readList"}
  BY DEF Reject
<1>3. TypeOK'
  BY <1>1, <1>2, DoneAnswer DEF TypeOK, storeVars, historyVars
<1>4. CallFits'
  BY <1>1, <1>2, DoneAnswer DEF TypeOK, CallFits, storeVars, historyVars
<1> QED BY <1>3, <1>4

LEMMA BaseSave == ASSUME Base, NEW r \in Requests, Save(r) PROVE Base'
<1> USE DEF Base
<1>1. PICK i \in Ids \ Issued :
         /\ specs' = [specs EXCEPT ![i] =
                         [approved |-> FALSE,
                          hosts    |-> ExtractServerHosts(call[r].servers),
                          servers  |-> ExtractServerHosts(call[r].servers)]]
         /\ call' = [call EXCEPT ![r].id = i]
  BY DEF Save
<1>2. call[r] \in UploadCalls /\ pc[r] = "save"
  BY CallFields DEF Save, CallFits
<1>3. ExtractServerHosts(call[r].servers) \in Lists
  BY <1>2, ExtractIsList, GateAssumption DEF UploadCalls
<1>4. specs'[i] \in StoredSpec
  BY <1>1, <1>3 DEF StoredSpec, TypeOK
<1>5. /\ call'[r] \in UploadCalls /\ call'[r].id = i /\ call'[r].op = "upload"
      /\ call'[r] \in Calls
      /\ \A q \in Requests \ {r} : call'[q] = call[q]
  BY <1>1, <1>2 DEF TypeOK, UploadCalls, Calls
<1>6. \A j \in Ids : specs[j] # None => specs'[j] = specs[j]
  BY <1>1 DEF TypeOK, Issued, Live
<1>7. TypeOK'
  BY <1>1, <1>4, <1>5 DEF Save, Goto, TypeOK, historyVars, Labels
<1>8. CallFits'
  <2>1. /\ specs'[i] # None
        /\ pc'[r] = "readApproved" /\ answer' = answer
        /\ \A q \in Requests \ {r} : pc'[q] = pc[q]
    BY <1>1, <1>4, StoredSpecFields DEF Save, Goto, TypeOK
  <2> SUFFICES ASSUME NEW q \in Requests PROVE CallFits!(q)'
    BY DEF CallFits
  <2>2. CASE q = r
    BY <1>1, <1>2, <1>5, <2>1, <2>2 DEF CallFits
  <2>3. CASE q # r
    BY <1>5, <1>6, <2>1, <2>3 DEF CallFits
  <2> QED BY <2>2, <2>3
<1> QED BY <1>7, <1>8

LEMMA BaseLookup == ASSUME Base, NEW r \in Requests, Lookup(r) PROVE Base'
<1> USE DEF Base
<1>1. /\ pc[r] = "lookup" /\ call[r] \in Calls /\ call[r].id \in Ids
      /\ call[r].op \in {"get", "approve", "proxy"}
      /\ UNCHANGED <<storeVars, call, list, latest, disturbed>>
  BY CallFields DEF Lookup, CallFits
<1>2. CASE specs[call[r].id] = None
  <2>1. PICK status \in {"forbidden", "missing"} : Done(r, status)
    BY <1>2 DEF Lookup
  <2>2. UNCHANGED asof
    BY <1>2 DEF Lookup
  <2>3. TypeOK'
    BY <1>1, <2>1, <2>2, DoneAnswer DEF TypeOK, storeVars
  <2>4. CallFits'
    BY <1>1, <2>1, <2>2, DoneAnswer DEF TypeOK, CallFits, storeVars
  <2> QED BY <2>3, <2>4
<1>3. CASE specs[call[r].id] # None
  <2>1. /\ \/ call[r].op = "get" /\ pc' = [pc EXCEPT ![r] = "readApproved"]
           \/ call[r].op = "approve" /\ pc' = [pc EXCEPT ![r] = "readDefault"]
           \/ call[r].op = "proxy" /\ pc' = [pc EXCEPT ![r] = "checkApproved"]
        /\ asof' = [asof EXCEPT ![r] = latest[call[r].id]]
        /\ UNCHANGED answer
    BY <1>1, <1>3 DEF Lookup, Goto
  <2>2. TypeOK'
    BY <1>1, <2>1 DEF TypeOK, storeVars, Labels
  <2>3. CallFits'
    BY <1>1, <1>3, <2>1 DEF TypeOK, CallFits, storeVars
  <2> QED BY <2>2, <2>3
<1> QED BY <1>2, <1>3

LEMMA BaseReadDefault == ASSUME Base, NEW r \in Requests, ReadDefault(r) PROVE Base'
<1> USE DEF Base
<1>1. PICK l \in Reads(call[r].id) : list' = [list EXCEPT ![r] = l]
  BY DEF ReadDefault
<1>2. call[r].id \in Ids /\ specs[call[r].id] # None /\ pc[r] = "readDefault"
  BY DEF ReadDefault, CallFits
<1>3. l \in Lists
  BY <1>1, <1>2, ReadsAreLists
<1>4. TypeOK'
  BY <1>1, <1>2, <1>3 DEF ReadDefault, Goto, TypeOK, storeVars, historyVars, Labels
<1>5. CallFits'
  BY <1>2 DEF ReadDefault, Goto, TypeOK, CallFits, storeVars, historyVars
<1> QED BY <1>4, <1>5

LEMMA BaseDecodeList == ASSUME Base, NEW r \in Requests, DecodeList(r) PROVE Base'
<1> USE DEF Base
<1>1. /\ pc[r] = "decodeList" /\ call[r].op = "approve" /\ call[r].list \in Lists
      /\ UNCHANGED <<storeVars, call, historyVars>>
  BY CallFields DEF DecodeList, CallFits
<1>2. CASE Acceptable(call[r].list)
  <2>1. /\ list' = [list EXCEPT ![r] = ChosenList(@, call[r].list)]
        /\ pc' = [pc EXCEPT ![r] = "beginApprove"]
        /\ UNCHANGED answer
    BY <1>2 DEF DecodeList, Goto
  <2>2. list' \in [Requests -> Lists]
    BY <1>1, <2>1 DEF TypeOK, ChosenList
  <2>3. TypeOK'
    BY <1>1, <2>1, <2>2 DEF TypeOK, storeVars, historyVars, Labels
  <2>4. CallFits'
    BY <1>1, <2>1 DEF TypeOK, CallFits, storeVars, historyVars
  <2> QED BY <2>3, <2>4
<1>3. CASE ~Acceptable(call[r].list)
  <2>1. Done(r, "bad") /\ UNCHANGED list
    BY <1>3 DEF DecodeList
  <2>2. TypeOK'
    BY <1>1, <2>1, DoneAnswer DEF TypeOK, storeVars, historyVars
  <2>3. CallFits'
    BY <1>1, <2>1, DoneAnswer DEF TypeOK, CallFits, storeVars, historyVars
  <2> QED BY <2>2, <2>3
<1> QED BY <1>2, <1>3

LEMMA BaseBeginApprove == ASSUME Base, NEW r \in Requests, BeginApprove(r) PROVE Base'
<1> USE DEF Base
<1> DEFINE i == call[r].id
<1>1. /\ i \in Ids /\ specs[i] \in StoredSpec /\ pc[r] = "beginApprove"
      /\ call[r].op = "approve" /\ writer = None
  BY DEF BeginApprove, MuFree, CallFits, TypeOK
<1>2. /\ specs' = [specs EXCEPT ![i].approved = TRUE]
      /\ specs'[i] \in StoredSpec
  BY <1>1 DEF BeginApprove, TypeOK, StoredSpec
<1>3. \A j \in Ids : specs[j] # None => specs'[j] # None
  BY <1>1, <1>2, StoredSpecFields DEF TypeOK
<1>4. disturbed' \in [Requests -> BOOLEAN]
  BY DEF BeginApprove, Disturb
<1>5. \A q \in Requests : writer' = q <=> pc'[q] = "endApprove"
  BY <1>1, GateAssumption DEF BeginApprove, Goto, TypeOK
<1>6. TypeOK'
  BY <1>2, <1>4, <1>5 DEF BeginApprove, Goto, TypeOK, Labels
<1>7. CallFits'
  BY <1>1, <1>3 DEF BeginApprove, Goto, TypeOK, CallFits
<1> QED BY <1>6, <1>7

LEMMA BaseEndApprove == ASSUME Base, NEW r \in Requests, EndApprove(r) PROVE Base'
<1> USE DEF Base
<1> DEFINE i == call[r].id
<1>1. /\ i \in Ids /\ specs[i] \in StoredSpec /\ pc[r] = "endApprove"
      /\ call[r].op = "approve" /\ writer = r /\ writer' = None /\ list[r] \in Lists
  BY DEF EndApprove, Unlock, CallFits, TypeOK
<1>2. /\ specs' = [specs EXCEPT ![i].hosts = list[r]]
      /\ specs'[i] \in StoredSpec
  BY <1>1 DEF EndApprove, TypeOK, StoredSpec
<1>3. \A j \in Ids : specs[j] # None => specs'[j] # None
  BY <1>1, <1>2, StoredSpecFields DEF TypeOK
<1>4. disturbed' \in [Requests -> BOOLEAN]
  BY DEF EndApprove, Disturb
<1>5. \A q \in Requests : writer' = q <=> pc'[q] = "endApprove"
  BY <1>1, GateAssumption DEF EndApprove, Goto, TypeOK
<1>6. TypeOK'
  BY <1>1, <1>2, <1>4, <1>5 DEF EndApprove, Goto, TypeOK, Labels
<1>7. CallFits'
  BY <1>1, <1>3 DEF EndApprove, Goto, TypeOK, CallFits
<1> QED BY <1>6, <1>7

LEMMA BaseReadApproved == ASSUME Base, NEW r \in Requests, ReadApproved(r) PROVE Base'
<1> USE DEF Base
<1>1. /\ call[r].id \in Ids /\ specs[call[r].id].approved \in BOOLEAN
      /\ pc[r] = "readApproved"
  BY StoredSpecFields DEF ReadApproved, CallFits, TypeOK
<1>2. /\ answer' \in [Requests -> Answers]
      /\ \A q \in Requests : answer'[q].status = answer[q].status
  BY <1>1 DEF ReadApproved, TypeOK, Answers
<1>3. TypeOK'
  BY <1>1, <1>2 DEF ReadApproved, Goto, TypeOK, Labels, storeVars, historyVars
<1>4. CallFits'
  BY <1>1, <1>2 DEF ReadApproved, Goto, TypeOK, CallFits, storeVars, historyVars
<1> QED BY <1>3, <1>4

LEMMA BaseReadHosts == ASSUME Base, NEW r \in Requests, ReadHosts(r) PROVE Base'
<1> USE DEF Base
<1>1. /\ call[r].id \in Ids /\ specs[call[r].id] # None /\ pc[r] = "readHosts"
      /\ call[r] \in Calls
  BY DEF ReadHosts, CallFits
<1>2. PICK l \in Lists, status \in {"created", "ok"} :
         answer' = [answer EXCEPT ![r].hosts = l, ![r].status = status]
  BY <1>1, ReadsAreLists DEF ReadHosts
<1>3. /\ answer' \in [Requests -> Answers]
      /\ \A q \in Requests \ {r} : answer'[q] = answer[q]
  <2>1. answer \in [Requests -> Answers]
    BY DEF TypeOK
  <2>2. answer[r] \in Answers /\ [answer[r] EXCEPT !.hosts = l, !.status = status] \in Answers
    BY <2>1 DEF Answers
  <2>3. answer' = [answer EXCEPT ![r] = [answer[r] EXCEPT !.hosts = l, !.status = status]]
    BY <1>2, <2>1
  <2> QED BY <2>1, <2>2, <2>3
<1>4. TypeOK'
  BY <1>1, <1>3 DEF ReadHosts, Goto, TypeOK, Labels, storeVars, historyVars
<1>5. CallFits'
  BY <1>1, <1>3 DEF ReadHosts, Goto, TypeOK, CallFits, storeVars, historyVars
<1> QED BY <1>4, <1>5

LEMMA BaseCheckApproved == ASSUME Base, NEW r \in Requests, CheckApproved(r) PROVE Base'
<1> USE DEF Base
<1>1. pc[r] = "checkApproved" /\ UNCHANGED <<storeVars, call, list, historyVars>>
  BY DEF CheckApproved
<1>2. CASE Goto(r, "readList") /\ UNCHANGED answer
  BY <1>1, <1>2 DEF Goto, TypeOK, CallFits, Labels, storeVars, historyVars
<1>3. CASE Done(r, "forbidden")
  <2>1. TypeOK'
    BY <1>1, <1>3, DoneAnswer DEF TypeOK, storeVars, historyVars
  <2>2. CallFits'
    BY <1>1, <1>3, DoneAnswer DEF TypeOK, CallFits, storeVars, historyVars
  <2> QED BY <2>1, <2>2
<1> QED BY <1>2, <1>3 DEF CheckApproved

LEMMA BaseForward == ASSUME Base, NEW r \in Requests, Forward(r) PROVE Base'
<1> USE DEF Base
<1>1. pc[r] = "readList" /\ UNCHANGED <<storeVars, call, list, historyVars>>
  BY DEF Forward, Judge
<1>2. PICK status \in {"forwarded", "notListed"} : Done(r, status)
  BY DEF Forward, Judge
<1>3. TypeOK'
  BY <1>1, <1>2, DoneAnswer DEF TypeOK, storeVars, historyVars
<1>4. CallFits'
  BY <1>1, <1>2, DoneAnswer DEF TypeOK, CallFits, storeVars, historyVars
<1> QED BY <1>3, <1>4

LEMMA BaseRestart == ASSUME Base, Restart PROVE Base'
<1> USE DEF Base
<1>1. /\ \A r \in Requests : \/ pc'[r] = pc[r] /\ pc[r] \in {"idle", "done"}
                             \/ pc'[r] = "lost" /\ pc[r] \notin {"idle", "done"}
      /\ pc' \in [Requests -> Labels] /\ writer' = None
  BY DEF Restart, TypeOK, Labels
<1>2. \A r \in Requests : writer' = r <=> pc'[r] = "endApprove"
  BY <1>1, GateAssumption
<1>3. restarts' \in 0..MaxRestarts
  BY GateAssumption DEF Restart, TypeOK
<1>4. TypeOK'
  BY <1>1, <1>2, <1>3 DEF Restart, TypeOK, NewStore, Issued, Live
<1>5. CallFits'
  BY <1>1 DEF Restart, TypeOK, CallFits
<1> QED BY <1>4, <1>5

LEMMA BaseNext == Base /\ [Next]_vars => Base'
<1> SUFFICES ASSUME Base, [Next]_vars PROVE Base'
  OBVIOUS
<1>1. ASSUME NEW r \in Requests, Arrive(r) \/ Step(r) PROVE Base'
  BY <1>1, BaseArrive, BaseReject, BaseSave, BaseLookup, BaseReadDefault,
     BaseDecodeList, BaseBeginApprove, BaseEndApprove, BaseReadApproved,
     BaseReadHosts, BaseCheckApproved, BaseForward DEF Step, Handle
<1>2. CASE Restart
  BY <1>2, BaseRestart
<1>3. CASE UNCHANGED vars
  BY <1>3 DEF vars, storeVars, handlerVars, historyVars, Base, TypeOK, CallFits
<1> QED BY <1>1, <1>2, <1>3 DEF Next

(* Type correctness of the server's state, and that SpecStore.mu is held *)
(* for writing exactly while an approval is being stored.                *)
THEOREM TypeCorrect == Spec => []TypeOK
<1>1. Base => TypeOK
  BY DEF Base
<1> QED BY <1>1, BaseInit, BaseNext, PTL DEF Spec
------------------------------------------------------------------------------
(* Where the hosts of stored specs come from. *)

VouchedFor(i, l) == \A h \in l : h \in specs[i].servers \/ IsValidPublicHost(h)

VouchInv ==
    /\ \A i \in Live : VouchedFor(i, specs[i].hosts)
    /\ \A r \in Requests :
          pc[r] \in {"decodeList", "beginApprove", "endApprove"} =>
              VouchedFor(call[r].id, list[r])

(* Only a restart removes a spec, and nothing changes its document. *)
LEMMA ServersKept ==
    ASSUME Base, NEW r \in Requests, Arrive(r) \/ Step(r), NEW i \in Live
    PROVE  i \in Live' /\ specs'[i].servers = specs[i].servers
<1> USE DEF Base
<1>1. i \in Ids /\ specs[i] \in StoredSpec
  BY DEF Live, TypeOK
<1>2. CASE Save(r)
  BY <1>1, <1>2, StoredSpecFields DEF Save, Issued, Live, TypeOK
<1>3. CASE BeginApprove(r)
  <2>1. specs' = [specs EXCEPT ![call[r].id].approved = TRUE]
    BY <1>3 DEF BeginApprove
  <2>2. specs'[i] \in StoredSpec /\ specs'[i].servers = specs[i].servers
    BY <1>1, <2>1 DEF TypeOK, StoredSpec
  <2> QED BY <1>1, <2>2, StoredSpecFields DEF Live
<1>4. CASE EndApprove(r)
  <2>1. specs' = [specs EXCEPT ![call[r].id].hosts = list[r]]
    BY <1>4 DEF EndApprove
  <2>2. list[r] \in Lists
    BY DEF TypeOK
  <2>3. i \in Live'
    BY <1>1, <2>1, <2>2, StoredSpecFields DEF TypeOK, Live, StoredSpec
  <2> QED BY <1>1, <2>1, <2>3 DEF TypeOK, StoredSpec
<1>5. CASE specs' = specs
  BY <1>5 DEF Live
<1>6. Save(r) \/ BeginApprove(r) \/ EndApprove(r) \/ specs' = specs
  BY DEF Step, Handle, Arrive, Reject, Lookup, ReadDefault, DecodeList, ReadApproved,
         ReadHosts, CheckApproved, Forward, Judge, storeVars
<1> QED BY <1>2, <1>3, <1>4, <1>5, <1>6

(* A read of AllowedHosts, torn or not, finds vouched hosts. *)
LEMMA ReadsVouched ==
    ASSUME Base, VouchInv, NEW i \in Live, NEW l \in Reads(i)
    PROVE  VouchedFor(i, l)
<1>1. CASE l = specs[i].hosts
  BY <1>1 DEF VouchInv
<1>2. CASE l # specs[i].hosts
  <2>1. /\ writer \in Requests /\ call[writer].id = i
        /\ l \subseteq specs[i].hosts \/ l \subseteq list[writer]
    BY <1>2 DEF Reads, Torn, Base, TypeOK
  <2>2. pc[writer] = "endApprove"
    BY <2>1 DEF Base, TypeOK
  <2>3. VouchedFor(i, list[writer]) /\ VouchedFor(i, specs[i].hosts)
    BY <2>1, <2>2 DEF VouchInv
  <2> QED BY <2>1, <2>3 DEF VouchedFor
<1> QED BY <1>1, <1>2

LEMMA VouchNext == Base /\ VouchInv /\ [Next]_vars => VouchInv'
<1> SUFFICES ASSUME Base, VouchInv, [Next]_vars PROVE VouchInv'
  OBVIOUS
<1>1. ASSUME NEW r \in Requests, Arrive(r) \/ Step(r) PROVE VouchInv'
  <2>1. \A i \in Live, l \in Lists :
            VouchedFor(i, l) => i \in Live' /\ VouchedFor(i, l)'
    BY <1>1, ServersKept DEF VouchedFor
  <2>2. \A q \in Requests :
            pc[q] \in {"readDefault", "decodeList", "beginApprove", "endApprove"}
                => call[q].id \in Live
    BY DEF Base, CallFits, Live
  <2>3. \A i \in Live' : VouchedFor(i, specs[i].hosts)'
    <3> SUFFICES ASSUME NEW i \in Ids, specs'[i] # None
                 PROVE  VouchedFor(i, specs[i].hosts)'
      BY DEF Live
    <3>1. CASE specs[i] # None /\ specs'[i].hosts = specs[i].hosts
      BY <2>1, <3>1, StoredSpecFields DEF Live, VouchInv, Base, TypeOK, VouchedFor
    <3>2. CASE EndApprove(r) /\ i = call[r].id
      <4>1. specs'[i].hosts = list[r] /\ pc[r] = "endApprove" /\ list[r] \in Lists
        BY <3>2, StoredSpecFields DEF EndApprove, Base, TypeOK, CallFits, StoredSpec
      <4>2. VouchedFor(i, list[r]) /\ i \in Live
        BY <2>2, <3>2, <4>1 DEF VouchInv
      <4> QED BY <2>1, <4>1, <4>2 DEF VouchedFor
    <3>3. CASE Save(r) /\ specs[i] = None
      BY <3>3, StoredSpecFields DEF Save, Base, TypeOK, VouchedFor
    <3>4. \/ specs[i] # None /\ specs'[i].hosts = specs[i].hosts
          \/ EndApprove(r) /\ i = call[r].id
          \/ Save(r) /\ specs[i] = None
      <4>1. CASE Save(r)
        BY <4>1 DEF Save, Issued, Live, Base, TypeOK
      <4>2. CASE BeginApprove(r)
        BY <4>2, StoredSpecFields DEF BeginApprove, Base, TypeOK, CallFits, StoredSpec
      <4>3. CASE EndApprove(r)
        BY <4>3, StoredSpecFields DEF EndApprove, Base, TypeOK, CallFits, StoredSpec
      <4>4. CASE specs' = specs
        BY <4>4
      <4> QED BY <1>1, <4>1, <4>2, <4>3, <4>4
              DEF Step, Handle, Arrive, Reject, Lookup, ReadDefault, DecodeList, ReadApproved,
                  ReadHosts, CheckApproved, Forward, Judge, storeVars
    <3> QED BY <3>1, <3>2, <3>3, <3>4
  <2>4. ASSUME NEW q \in Requests, pc'[q] \in {"decodeList", "beginApprove", "endApprove"}
        PROVE  VouchedFor(call[q].id, list[q])'
    <3>1. CASE /\ list'[q] = list[q] /\ call'[q] = call[q]
               /\ pc[q] \in {"decodeList", "beginApprove", "endApprove"}
      <4>1. VouchedFor(call[q].id, list[q]) /\ call[q].id \in Live /\ list[q] \in Lists
        BY <2>2, <3>1 DEF VouchInv, Base, TypeOK
      <4> QED BY <2>1, <3>1, <4>1 DEF VouchedFor
    <3>2. CASE q = r /\ ReadDefault(r)
      <4>1. PICK l \in Reads(call[r].id) : list' = [list EXCEPT ![r] = l]
        BY <3>2 DEF ReadDefault
      <4>2. /\ call[r].id \in Live /\ list'[r] = l /\ call' = call /\ l \in Lists
        BY <2>2, <3>2, <4>1, ReadsAreLists DEF ReadDefault, Base, TypeOK, Live
      <4>3. VouchedFor(call[r].id, l)
        BY <4>1, <4>2, ReadsVouched
      <4> QED BY <2>1, <3>2, <4>2, <4>3 DEF VouchedFor
    <3>3. CASE q = r /\ DecodeList(r)
      <4>1. /\ Acceptable(call[r].list) /\ call' = call
            /\ list'[r] = ChosenList(list[r], call[r].list)
            /\ pc[r] = "decodeList"
        BY <2>4, <3>3 DEF DecodeList, Done, Base, TypeOK
      <4>2. VouchedFor(call[r].id, list[r]) /\ call[r].id \in Live
        BY <2>2, <4>1 DEF VouchInv
      <4>3. VouchedFor(call[r].id, list'[r])
        BY <4>1, <4>2 DEF ChosenList, Acceptable, VouchedFor
      <4>4. list'[r] \in Lists
        BY <1>1, BaseNext DEF Next, Base, TypeOK
      <4> QED BY <2>1, <3>3, <4>1, <4>2, <4>3, <4>4 DEF VouchedFor
    <3>4. \/ /\ list'[q] = list[q] /\ call'[q] = call[q]
             /\ pc[q] \in {"decodeList", "beginApprove", "endApprove"}
          \/ q = r /\ ReadDefault(r)
          \/ q = r /\ DecodeList(r)
      <4>1. CASE q # r
        BY <1>1, <2>4, <4>1
           DEF Step, Handle, Arrive, Reject, Save, Lookup, ReadDefault, DecodeList, BeginApprove,
               EndApprove, ReadApproved, ReadHosts, CheckApproved, Forward, Judge, Goto, Done,
               Base, TypeOK
      <4>2. CASE q = r /\ BeginApprove(r)
        BY <4>2 DEF BeginApprove
      <4>3. CASE q = r /\ ~BeginApprove(r) /\ ~ReadDefault(r) /\ ~DecodeList(r)
        <5>1. CASE Lookup(r)
          <6>1. call[r].op \in {"get", "approve", "proxy"}
            BY <5>1, CallFields DEF Lookup, Base, CallFits
          <6>2. pc'[r] \in {"done", "readApproved", "readDefault", "checkApproved"}
            BY <5>1, <6>1 DEF Lookup, Goto, Done, Base, TypeOK
          <6> QED BY <2>4, <4>3, <6>2
        <5> QED BY <1>1, <2>4, <4>3, <5>1
           DEF Step, Handle, Arrive, Reject, Save,
               EndApprove, ReadApproved, ReadHosts, CheckApproved, Forward, Judge, Goto, Done,
               Base, TypeOK
      <4> QED BY <4>1, <4>2, <4>3
    <3> QED BY <3>1, <3>2, <3>3, <3>4
  <2> QED BY <2>3, <2>4 DEF VouchInv
<1>2. CASE Restart
  BY <1>2 DEF Restart, VouchInv, NewStore, Live, Base, TypeOK
<1>3. CASE UNCHANGED vars
  BY <1>3 DEF vars, storeVars, handlerVars, historyVars, VouchInv, VouchedFor, Live
<1> QED BY <1>1, <1>2, <1>3 DEF Next

(* Whatever approvals interleave, a stored spec allows only servers of its *)
(* document and hosts that passed the check of an edited list.             *)
THEOREM StoredHostsVouched == Spec => []Vouched
<1>1. Init => VouchInv
  BY DEF Init, NewStore, VouchInv, Live
<1>2. VouchInv => Vouched
  BY DEF VouchInv, VouchedFor, Vouched
<1> QED BY <1>1, <1>2, BaseInit, BaseNext, VouchNext, PTL DEF Spec
------------------------------------------------------------------------------
(* Which approval decides a proxied request. *)

(* An approval of spec i is between its two writes. *)
Writing(i) == writer # None /\ call[writer].id = i

(* Outside such a moment the record is what the latest approval made it; *)
(* within it the list is still the old one, and Approved is already set.   *)
RecordFits ==
    \A i \in Ids :
        /\ specs[i] = None => latest[i] = None
        /\ specs[i] # None => (specs[i].approved <=> latest[i] # None \/ Writing(i))
        /\ specs[i] # None /\ latest[i] # None => specs[i].hosts = latest[i]

(* What a proxied request nobody disturbed found at its look-up still holds. *)
SnapshotFits ==
    \A r \in Requests :
        /\ pc[r] \in {"idle", "save", "lookup"} => asof[r] = None
        /\ pc[r] \in {"checkApproved", "readList"} /\ ~disturbed[r] =>
               /\ ~Writing(call[r].id)
               /\ asof[r] = latest[call[r].id]
               /\ pc[r] = "readList" => specs[call[r].id].approved

Judgement == RecordFits /\ SnapshotFits /\ JudgedByLatestApproval

JInv == Base /\ Judgement

LEMMA JudgementInit == Init => Judgement
<1> SUFFICES ASSUME Init PROVE Judgement
  OBVIOUS
<1>1. RecordFits /\ SnapshotFits
  BY DEF Init, NewStore, RecordFits, SnapshotFits
<1>2. JudgedByLatestApproval
  BY DEF Init, JudgedByLatestApproval, Answered
<1> QED BY <1>1, <1>2 DEF Judgement

(* Steps that leave the store and the histories alone, and the calls and   *)
(* places of all requests but r.                                           *)
LEMMA JudgementLocal ==
    ASSUME JInv, NEW r \in Requests,
           UNCHANGED <<storeVars, historyVars>>,
           pc[r] # "endApprove",
           \A q \in Requests \ {r} : /\ pc'[q] = pc[q] /\ call'[q] = call[q]
                                     /\ answer'[q].status = answer[q].status,
           pc'[r] \in {"idle", "save", "lookup"} => pc[r] \in {"idle", "save", "lookup"},
           pc'[r] \in {"checkApproved", "readList"} =>
               /\ pc[r] = "checkApproved" /\ call'[r] = call[r]
               /\ specs[call[r].id].approved,
           Answered(r, "proxy")' /\ ~disturbed[r] =>
               (answer'[r].status = "forwarded" <=>
                   asof[r] # None /\ HostInList(call'[r].host, asof[r]))
    PROVE  Judgement'
<1>1. \A i : Writing(i)' <=> Writing(i)
  BY DEF Writing, storeVars, JInv, Base, TypeOK
<1>2. RecordFits'
  BY <1>1 DEF RecordFits, storeVars, historyVars, JInv, Judgement
<1>3. SnapshotFits'
  BY <1>1 DEF SnapshotFits, storeVars, historyVars, JInv, Judgement
<1>4. JudgedByLatestApproval'
  BY DEF JudgedByLatestApproval, Answered, storeVars, historyVars, JInv, Judgement
<1> QED BY <1>2, <1>3, <1>4 DEF Judgement

LEMMA JudgementReadOnly ==
    ASSUME JInv, NEW r \in Requests,
           \/ Arrive(r) \/ Reject(r) \/ ReadDefault(r) \/ DecodeList(r)
           \/ ReadApproved(r) \/ ReadHosts(r)
    PROVE  Judgement'
<1> USE DEF JInv, Base
<1>1. UNCHANGED <<storeVars, historyVars>>
  BY DEF Arrive, Reject, ReadDefault, DecodeList, ReadApproved, ReadHosts
<1>2. \A q \in Requests \ {r} : /\ pc'[q] = pc[q] /\ call'[q] = call[q]
                                /\ answer'[q].status = answer[q].status
  BY DEF Arrive, Reject, ReadDefault, DecodeList, ReadApproved, ReadHosts,
         Goto, Done, TypeOK
<1>3. /\ pc[r] # "endApprove" /\ pc'[r] \notin {"checkApproved", "readList"}
      /\ pc'[r] \in {"idle", "save", "lookup"} => pc[r] = "idle"
  BY DEF Arrive, Reject, ReadDefault, DecodeList, ReadApproved, ReadHosts,
         Goto, Done, TypeOK
<1>4. ~Answered(r, "proxy")'
  <2>1. CASE Reject(r)
    BY <2>1, DoneAnswer DEF Reject, Answered
  <2>2. CASE DecodeList(r)
    <3>1. pc[r] = "decodeList" /\ call[r].op = "approve" /\ call' = call
      BY <2>2 DEF DecodeList, CallFits
    <3> QED BY <3>1 DEF Answered
  <2>3. CASE ReadHosts(r)
    <3>1. /\ call' = call /\ pc[r] = "readHosts"
      BY <2>3 DEF ReadHosts
    <3> QED BY <3>1 DEF Answered, CallFits
  <2>4. CASE Arrive(r) \/ ReadDefault(r) \/ ReadApproved(r)
    BY <2>4 DEF Arrive, ReadDefault, ReadApproved, Answered, Goto, TypeOK
  <2> QED BY <2>1, <2>2, <2>3, <2>4
<1> QED BY <1>1, <1>2, <1>3, <1>4, JudgementLocal

LEMMA JudgementCheckApproved ==
    ASSUME JInv, NEW r \in Requests, CheckApproved(r) PROVE Judgement'
<1> USE DEF JInv, Base
<1>1. pc[r] = "checkApproved" /\ UNCHANGED <<storeVars, call, list, historyVars>>
  BY DEF CheckApproved
<1>2. CASE IsApproved(call[r].id)
  <2>1. pc' = [pc EXCEPT ![r] = "readList"] /\ UNCHANGED answer
    BY <1>2 DEF CheckApproved, Goto
  <2> QED BY <1>1, <1>2, <2>1, JudgementLocal DEF TypeOK, IsApproved, Answered
<1>3. CASE ~IsApproved(call[r].id)
  <2>1. Done(r, "forbidden")
    BY <1>3 DEF CheckApproved
  <2>2. ~disturbed[r] => asof[r] = None
    <3>1. call[r].id \in Ids /\ specs[call[r].id] # None
      BY <1>1 DEF CallFits
    <3> QED BY <1>1, <1>3, <3>1 DEF Judgement, SnapshotFits, RecordFits, IsApproved
  <2> QED BY <1>1, <2>1, <2>2, DoneAnswer, JudgementLocal
<1> QED BY <1>2, <1>3

LEMMA JudgementForward ==
    ASSUME JInv, NEW r \in Requests, Forward(r) PROVE Judgement'
<1> USE DEF JInv, Base
<1>1. pc[r] = "readList" /\ UNCHANGED <<storeVars, call, list, historyVars>>
  BY DEF Forward, Judge
<1>2. PICK l \in Reads(call[r].id) :
         Done(r, IF HostInList(call[r].host, l) THEN "forwarded" ELSE "notListed")
  BY DEF Forward, Judge
<1>3. call[r].id \in Ids /\ specs[call[r].id] # None
  BY <1>1 DEF CallFits
<1>4. ~disturbed[r] => asof[r] # None /\ l = asof[r]
  BY <1>1, <1>2, <1>3 DEF Judgement, SnapshotFits, RecordFits, Reads, Writing
<1>5. PICK status \in {"forwarded", "notListed"} :
         Done(r, status) /\ (status = "forwarded" <=> HostInList(call[r].host, l))
  BY <1>2
<1> QED BY <1>1, <1>4, <1>5, DoneAnswer, JudgementLocal

LEMMA JudgementSave == ASSUME JInv, NEW r \in Requests, Save(r) PROVE Judgement'
<1> USE DEF JInv, Base
<1>1. PICK i \in Ids \ Issued :
         /\ specs' = [specs EXCEPT ![i] =
                         [approved |-> FALSE,
                          hosts    |-> ExtractServerHosts(call[r].servers),
                          servers  |-> ExtractServerHosts(call[r].servers)]]
         /\ call' = [call EXCEPT ![r].id = i]
  BY DEF Save
<1>2. /\ pc[r] = "save" /\ writer = None
      /\ pc' = [pc EXCEPT ![r] = "readApproved"]
      /\ UNCHANGED <<writer, answer, historyVars>>
  BY DEF Save, MuFree, Goto
<1>3. specs[i] = None /\ ~specs'[i].approved
  BY <1>1 DEF Issued, Live, TypeOK
<1>4. \A j \in Ids \ {i} : specs'[j] = specs[j]
  BY <1>1 DEF TypeOK
<1>5. \A j : ~Writing(j) /\ ~Writing(j)'
  BY <1>2 DEF Writing
<1>6. RecordFits'
  BY <1>2, <1>3, <1>4, <1>5 DEF Judgement, RecordFits, historyVars
<1>7. \A q \in Requests \ {r} : call'[q] = call[q] /\ pc'[q] = pc[q]
  BY <1>1, <1>2 DEF TypeOK
<1>8. SnapshotFits'
  <2> SUFFICES ASSUME NEW q \in Requests PROVE SnapshotFits!(q)'
    BY DEF SnapshotFits
  <2>1. CASE q = r
    BY <1>2, <2>1 DEF TypeOK
  <2>2. CASE q # r
    <3>1. pc[q] \in {"checkApproved", "readList"} =>
              call[q].id # i /\ call[q].id \in Ids
      BY <1>3 DEF CallFits
    <3> QED BY <1>2, <1>4, <1>5, <1>7, <2>2, <3>1
            DEF Judgement, SnapshotFits, historyVars
  <2> QED BY <2>1, <2>2
<1>9. JudgedByLatestApproval'
  BY <1>2, <1>7 DEF Judgement, JudgedByLatestApproval, Answered, historyVars, TypeOK
<1> QED BY <1>6, <1>8, <1>9 DEF Judgement

LEMMA JudgementLookup == ASSUME JInv, NEW r \in Requests, Lookup(r) PROVE Judgement'
<1> USE DEF JInv, Base
<1> DEFINE i == call[r].id
<1>1. /\ pc[r] = "lookup" /\ writer = None /\ i \in Ids
      /\ call[r].op \in {"get", "approve", "proxy"} /\ asof[r] = None
      /\ UNCHANGED <<storeVars, call, list, latest, disturbed>>
  BY CallFields DEF Lookup, MuFree, CallFits, Judgement, SnapshotFits
<1>2. CASE specs[i] = None
  <2>1. PICK status \in {"forbidden", "missing"} : Done(r, status)
    BY <1>2 DEF Lookup
  <2>2. UNCHANGED historyVars
    BY <1>1, <1>2 DEF Lookup, historyVars
  <2> QED BY <1>1, <2>1, <2>2, DoneAnswer, JudgementLocal
<1>3. CASE specs[i] # None
  <2>1. /\ pc'[r] \in {"readApproved", "readDefault", "checkApproved"}
        /\ \A q \in Requests \ {r} : pc'[q] = pc[q] /\ asof'[q] = asof[q]
        /\ asof'[r] = latest[i]
        /\ UNCHANGED answer
    BY <1>1, <1>3 DEF Lookup, Goto, TypeOK
  <2>2. \A j : ~Writing(j) /\ ~Writing(j)'
    BY <1>1 DEF Writing, storeVars
  <2>3. RecordFits'
    BY <1>1, <2>2 DEF Judgement, RecordFits, storeVars
  <2>4. SnapshotFits'
    <3> SUFFICES ASSUME NEW q \in Requests PROVE SnapshotFits!(q)'
      BY DEF SnapshotFits
    <3>1. CASE q = r
      BY <1>1, <2>1, <2>2, <3>1
    <3>2. CASE q # r
      BY <1>1, <2>1, <2>2, <3>2 DEF Judgement, SnapshotFits, storeVars
    <3> QED BY <3>1, <3>2
  <2>5. JudgedByLatestApproval'
    BY <1>1, <2>1 DEF Judgement, JudgedByLatestApproval, Answered
  <2> QED BY <2>3, <2>4, <2>5 DEF Judgement
<1> QED BY <1>2, <1>3

LEMMA JudgementBeginApprove ==
    ASSUME JInv, NEW r \in Requests, BeginApprove(r) PROVE Judgement'
<1> USE DEF JInv, Base
<1> DEFINE i == call[r].id
<1>1. /\ pc[r] = "beginApprove" /\ writer = None /\ writer' = r
      /\ i \in Ids /\ specs[i] \in StoredSpec /\ call[r].op = "approve"
      /\ specs' = [specs EXCEPT ![i].approved = TRUE]
      /\ pc' = [pc EXCEPT ![r] = "endApprove"]
      /\ Disturb(i, r)
      /\ UNCHANGED <<call, answer, latest, asof>>
  BY DEF BeginApprove, MuFree, Goto, CallFits, TypeOK
<1>2. /\ specs'[i].approved /\ specs'[i].hosts = specs[i].hosts /\ specs[i] # None
      /\ \A j \in Ids \ {i} : specs'[j] = specs[j]
  BY <1>1, StoredSpecFields DEF TypeOK, StoredSpec
<1>3. \A j : ~Writing(j) /\ (Writing(j)' <=> j = i)
  BY <1>1, GateAssumption DEF Writing
<1>4. RecordFits'
  <2> SUFFICES ASSUME NEW j \in Ids PROVE RecordFits!(j)'
    BY DEF RecordFits
  <2>1. CASE j = i
    <3>1. specs'[j].approved /\ Writing(j)' /\ specs'[j].hosts = specs[j].hosts
      BY <1>2, <1>3, <2>1
    <3>2. specs[j] # None /\ latest' = latest
      BY <1>1, <1>2, <2>1
    <3>3. latest[j] # None => specs[j].hosts = latest[j]
      BY <3>2 DEF Judgement, RecordFits
    <3>4. specs'[j] # None
      BY <1>1, <2>1, BaseBeginApprove DEF CallFits
    <3> QED BY <3>1, <3>2, <3>3, <3>4
  <2>2. CASE j # i
    <3>1. specs'[j] = specs[j] /\ latest' = latest /\ (Writing(j)' <=> Writing(j))
      BY <1>1, <1>2, <1>3, <2>2
    <3> QED BY <3>1 DEF Judgement, RecordFits
  <2> QED BY <2>1, <2>2
<1>5. SnapshotFits'
  <2> SUFFICES ASSUME NEW q \in Requests PROVE SnapshotFits!(q)'
    BY DEF SnapshotFits
  <2>1. CASE q = r
    BY <1>1, <2>1 DEF TypeOK
  <2>2. CASE q # r /\ pc[q] \in {"checkApproved", "readList"} /\ call[q].id = i
    <3>1. disturbed'[q]
      BY <1>1, <2>2 DEF Disturb, Reading
    <3> QED BY <1>1, <2>2, <3>1 DEF TypeOK
  <2>3. CASE q # r /\ ~(pc[q] \in {"checkApproved", "readList"} /\ call[q].id = i)
    <3>1. pc'[q] = pc[q] /\ call'[q] = call[q] /\ asof' = asof /\ latest' = latest
      BY <1>1, <2>3 DEF TypeOK
    <3>2. pc[q] \in {"checkApproved", "readList"} =>
              /\ disturbed'[q] = disturbed[q]
              /\ call[q].id \in Ids \ {i}
      BY <1>1, <2>3 DEF Disturb, Reading, CallFits, TypeOK
    <3> QED BY <1>2, <1>3, <2>3, <3>1, <3>2 DEF Judgement, SnapshotFits
  <2> QED BY <2>1, <2>2, <2>3
<1>6. JudgedByLatestApproval'
  <2>1. \A q \in Requests : pc'[q] = "done" => pc[q] = "done" /\ disturbed'[q] = disturbed[q]
    BY <1>1 DEF Disturb, Reading, TypeOK
  <2> QED BY <1>1, <2>1 DEF Judgement, JudgedByLatestApproval, Answered
<1> QED BY <1>4, <1>5, <1>6 DEF Judgement

LEMMA JudgementEndApprove ==
    ASSUME JInv, NEW r \in Requests, EndApprove(r) PROVE Judgement'
<1> USE DEF JInv, Base
<1> DEFINE i == call[r].id
<1>1. /\ pc[r] = "endApprove" /\ writer = r /\ writer' = None
      /\ i \in Ids /\ specs[i] \in StoredSpec /\ list[r] \in Lists
      /\ specs' = [specs EXCEPT ![i].hosts = list[r]]
      /\ latest' = [latest EXCEPT ![i] = list[r]]
      /\ pc' = [pc EXCEPT ![r] = "readApproved"]
      /\ Disturb(i, r)
      /\ UNCHANGED <<call, answer, asof>>
  BY DEF EndApprove, Unlock, Goto, CallFits, TypeOK
<1>2. /\ specs'[i].approved = specs[i].approved /\ specs'[i].hosts = list[r]
      /\ latest'[i] = list[r] /\ latest'[i] # None /\ specs'[i] # None
      /\ \A j \in Ids \ {i} : specs'[j] = specs[j] /\ latest'[j] = latest[j]
  <2>1. specs'[i] \in StoredSpec
    BY <1>1 DEF TypeOK, StoredSpec
  <2> QED BY <1>1, <2>1, StoredSpecFields, GateAssumption DEF TypeOK, StoredSpec
<1>3. \A j : (Writing(j) <=> j = i) /\ ~Writing(j)'
  BY <1>1, GateAssumption DEF Writing
<1>4. specs[i].approved
  BY <1>1, <1>3, StoredSpecFields DEF Judgement, RecordFits
<1>5. RecordFits'
  <2> SUFFICES ASSUME NEW j \in Ids PROVE RecordFits!(j)'
    BY DEF RecordFits
  <2>1. CASE j = i
    BY <1>2, <1>3, <1>4, <2>1
  <2>2. CASE j # i
    BY <1>2, <1>3, <2>2 DEF Judgement, RecordFits
  <2> QED BY <2>1, <2>2
<1>6. SnapshotFits'
  <2> SUFFICES ASSUME NEW q \in Requests PROVE SnapshotFits!(q)'
    BY DEF SnapshotFits
  <2>1. CASE q = r
    BY <1>1, <2>1 DEF TypeOK
  <2>2. CASE q # r /\ pc[q] \in {"checkApproved", "readList"} /\ call[q].id = i
    <3>1. disturbed'[q]
      BY <1>1, <2>2 DEF Disturb, Reading
    <3> QED BY <1>1, <2>2, <3>1 DEF TypeOK
  <2>3. CASE q # r /\ ~(pc[q] \in {"checkApproved", "readList"} /\ call[q].id = i)
    <3>1. pc'[q] = pc[q] /\ call'[q] = call[q] /\ asof' = asof
      BY <1>1, <2>3 DEF TypeOK
    <3>2. pc[q] \in {"checkApproved", "readList"} =>
              /\ disturbed'[q] = disturbed[q]
              /\ call[q].id \in Ids \ {i}
      BY <1>1, <2>3 DEF Disturb, Reading, CallFits, TypeOK
    <3> QED BY <1>2, <1>3, <2>3, <3>1, <3>2 DEF Judgement, SnapshotFits
  <2> QED BY <2>1, <2>2, <2>3
<1>7. JudgedByLatestApproval'
  <2>1. \A q \in Requests : pc'[q] = "done" => pc[q] = "done" /\ disturbed'[q] = disturbed[q]
    BY <1>1 DEF Disturb, Reading, TypeOK
  <2> QED BY <1>1, <2>1 DEF Judgement, JudgedByLatestApproval, Answered
<1> QED BY <1>5, <1>6, <1>7 DEF Judgement

LEMMA JudgementRestart == ASSUME JInv, Restart PROVE Judgement'
<1> USE DEF JInv, Base
<1>1. /\ \A i \in Ids : specs'[i] = None /\ latest'[i] = None
      /\ UNCHANGED <<call, answer, asof, disturbed>>
      /\ \A r \in Requests : \/ pc'[r] = pc[r] /\ pc[r] \in {"idle", "done"}
                             \/ pc'[r] = "lost"
  BY DEF Restart, NewStore, TypeOK
<1>2. RecordFits'
  BY <1>1 DEF RecordFits
<1>3. SnapshotFits'
  BY <1>1 DEF Judgement, SnapshotFits
<1>4. JudgedByLatestApproval'
  BY <1>1 DEF Judgement, JudgedByLatestApproval, Answered
<1> QED BY <1>2, <1>3, <1>4 DEF Judgement

LEMMA JudgementNext == JInv /\ [Next]_vars => JInv'
<1> SUFFICES ASSUME JInv, [Next]_vars PROVE Judgement'
  BY BaseNext DEF JInv
<1>1. ASSUME NEW r \in Requests, Arrive(r) \/ Step(r) PROVE Judgement'
  BY <1>1, JudgementReadOnly, JudgementSave, JudgementLookup, JudgementBeginApprove,
     JudgementEndApprove, JudgementCheckApproved, JudgementForward DEF Step, Handle
<1>2. CASE Restart
  BY <1>2, JudgementRestart
<1>3. CASE UNCHANGED vars
  BY <1>3 DEF vars, storeVars, handlerVars, historyVars, JInv, Judgement, RecordFits,
              SnapshotFits, JudgedByLatestApproval, Answered, Writing
<1> QED BY <1>1, <1>2, <1>3 DEF Next

(* A proxied request that overlaps no write to its spec is decided by the  *)
(* approval that was complete at its look-up, although the handler reads   *)
(* Approved and AllowedHosts one after the other and without the lock.     *)
THEOREM UndisturbedRequestsJudged == Spec => []JudgedByLatestApproval
<1>1. Init => JInv
  BY BaseInit, JudgementInit DEF JInv
<1>2. JInv => JudgedByLatestApproval
  BY DEF JInv, Judgement
<1> QED BY <1>1, <1>2, JudgementNext, PTL DEF Spec
------------------------------------------------------------------------------
(* Which ids a client may still use. *)

(* A stored spec's id is of this run of the server, and every id a request *)
(* carries was issued: no upload is ever given one of them.                *)
IdsFit ==
    /\ Live \cap forgotten = {}
    /\ \A r \in Requests : call[r] \in Calls /\ call[r].id \in Ids => call[r].id \in Issued

LEMMA IdsNext == Base /\ IdsFit /\ [Next]_vars => IdsFit'
<1> SUFFICES ASSUME Base, IdsFit, [Next]_vars PROVE IdsFit'
  OBVIOUS
<1>1. ASSUME NEW r \in Requests, Arrive(r) \/ Step(r) PROVE IdsFit'
  <2>1. forgotten' = forgotten
    BY <1>1 DEF Step, Handle, Arrive, Reject, Save, Lookup, ReadDefault, DecodeList, BeginApprove,
                EndApprove, ReadApproved, ReadHosts, CheckApproved, Forward, Judge, storeVars
  <2>2. Issued \subseteq Issued'
    BY <1>1, <2>1, ServersKept DEF Issued
  <2>3. CASE Arrive(r)
    <3>1. Live' = Live
      BY <2>3 DEF Arrive, storeVars, Live
    <3>2. \A q \in Requests \ {r} : call'[q] = call[q]
      BY <2>3 DEF Arrive, Base, TypeOK
    <3>3. call'[r].id \in Told \cup {None}
      BY <2>3 DEF Arrive, Base, TypeOK
    <3>4. Told \subseteq Issued
      BY CallFields DEF Told, Base, CallFits, TypeOK, IdsFit, Answers
    <3>5. None \notin Ids
      BY GateAssumption
    <3> QED BY <2>1, <2>2, <3>1, <3>2, <3>3, <3>4, <3>5 DEF IdsFit
  <2>4. CASE Save(r)
    <3>1. PICK i \in Ids \ Issued : /\ specs'[i] # None
                                   /\ \A j \in Ids \ {i} : specs'[j] = specs[j]
                                   /\ call' = [call EXCEPT ![r].id = i]
      <4>1. PICK i \in Ids \ Issued :
               /\ specs' = [specs EXCEPT ![i] =
                         [approved |-> FALSE,
                          hosts    |-> ExtractServerHosts(call[r].servers),
                          servers  |-> ExtractServerHosts(call[r].servers)]]
               /\ call' = [call EXCEPT ![r].id = i]
        BY <2>4 DEF Save
      <4>2. call[r].servers \in Lists
        BY <2>4, CallFields, GateAssumption DEF Save, Base, CallFits, UploadCalls
      <4>3. specs'[i] \in StoredSpec
        BY <4>1, <4>2, ExtractIsList DEF Base, TypeOK, StoredSpec
      <4> QED BY <4>1, <4>3, StoredSpecFields DEF Base, TypeOK
    <3>2. Live' = Live \cup {i} /\ i \notin forgotten
      BY <3>1 DEF Live, Issued
    <3>3. call'[r].id = i /\ \A q \in Requests \ {r} : call'[q] = call[q]
      BY <2>4, <3>1, CallFields DEF Save, Base, CallFits, TypeOK, UploadCalls
    <3> QED BY <2>1, <2>2, <3>2, <3>3 DEF IdsFit, Issued
  <2>5. CASE call' = call /\ ~Save(r)
    <3>1. Live' = Live
      <4>1. CASE BeginApprove(r) \/ EndApprove(r)
        <5>1. call[r].id \in Live
          BY <4>1 DEF BeginApprove, EndApprove, Base, CallFits, Live
        <5>2. \A i \in Ids \ {call[r].id} : specs'[i] = specs[i]
          BY <4>1 DEF BeginApprove, EndApprove, Base, TypeOK
        <5> QED BY <1>1, <5>1, <5>2, ServersKept DEF Live
      <4>3. CASE specs' = specs
        BY <4>3 DEF Live
      <4> QED BY <1>1, <2>5, <4>1, <4>3
              DEF Step, Handle, Arrive, Reject, Lookup, ReadDefault, DecodeList, ReadApproved,
                  ReadHosts, CheckApproved, Forward, Judge, storeVars
    <3> QED BY <2>1, <2>2, <2>5, <3>1 DEF IdsFit
  <2> QED
    BY <1>1, <2>3, <2>4, <2>5
       DEF Step, Handle, Reject, Lookup, ReadDefault, DecodeList, BeginApprove, EndApprove,
           ReadApproved, ReadHosts, CheckApproved, Forward, Judge
<1>2. CASE Restart
  <2>1. Live' = {} /\ forgotten' = Issued /\ call' = call
    BY <1>2 DEF Restart, NewStore, Live
  <2> QED BY <2>1 DEF IdsFit, Issued
<1>3. CASE UNCHANGED vars
  BY <1>3 DEF vars, storeVars, handlerVars, IdsFit, Issued, Live
<1> QED BY <1>1, <1>2, <1>3 DEF Next

LEMMA IdsAlways == Spec => [](Base /\ IdsFit)
<1>1. Init => IdsFit
  BY GateAssumption DEF Init, NewStore, IdsFit, Live, Issued, Calls
<1> QED BY <1>1, BaseInit, BaseNext, IdsNext, PTL DEF Spec

(* A request that carries an id from before a restart gets no answer out of *)
(* the new store, whether it waited for its handler then or came later.     *)
THEOREM StaleIdsRefused == Spec => StaleIdRefused
<1> DEFINE Refused == \A r \in Requests :
                         pc[r] # "done" /\ pc'[r] = "done" /\ call[r].id \in forgotten =>
                             answer'[r].status \in {"missing", "forbidden", "bad"}
<1>1. ASSUME Base, IdsFit, [Next]_vars PROVE [Refused]_vars
  <2> SUFFICES ASSUME NEW r \in Requests, pc[r] # "done", pc'[r] = "done",
                      call[r].id \in forgotten
               PROVE  answer'[r].status \in {"missing", "forbidden", "bad"}
    OBVIOUS
  <2>1. pc[r] \in {"idle", "save", "lookup", "lost"}
    BY <1>1 DEF Base, TypeOK, CallFits, IdsFit, Live, Labels
  <2>2. ~Arrive(r) /\ ~Restart
    BY <1>1 DEF Arrive, Goto, Restart, Base, TypeOK
  <2>3. \A q \in Requests \ {r} : ~Arrive(q) /\ ~Step(q)
    <3> SUFFICES ASSUME NEW q \in Requests \ {r}, Arrive(q) \/ Step(q) PROVE pc'[r] = pc[r]
      OBVIOUS
    <3> QED
      BY <1>1 DEF Step, Handle, Arrive, Reject, Save, Lookup, ReadDefault, DecodeList, BeginApprove,
                  EndApprove, ReadApproved, ReadHosts, CheckApproved, Forward, Judge, Goto, Done,
                  Base, TypeOK
  <2>4. Step(r)
    BY <1>1, <2>2, <2>3 DEF Next, vars, handlerVars
  <2>5. Reject(r) \/ Lookup(r)
    BY <1>1, <2>1, <2>4
       DEF Step, Handle, Save, ReadDefault, DecodeList, BeginApprove, EndApprove, ReadApproved,
           ReadHosts, CheckApproved, Forward, Judge, Goto, Base, TypeOK
  <2>6. PICK status \in {"missing", "forbidden", "bad"} : Done(r, status)
    BY <1>1, <2>5, CallFields DEF Reject, Lookup, Goto, Base, TypeOK, CallFits
  <2> QED BY <1>1, <2>6, DoneAnswer
<1> HIDE DEF Refused
<1>2. Spec => [][Refused]_vars
  BY <1>1, IdsAlways, PTL DEF Spec
<1> QED BY <1>2 DEF StaleIdRefused, Refused
------------------------------------------------------------------------------
(* What vouches for a request that is forwarded. *)

(* Request q has put an approval of spec i in force, or is about to. *)
Grants(q, i) == /\ call[q] # None /\ call[q].op = "approve" /\ call[q].id = i
                /\ \/ pc[q] \in {"endApprove", "readApproved", "readHosts"}
                   \/ answer[q].status = "ok"

(* The hosts of spec i's document, and those its approvals granted. *)
VouchedHosts(i) == specs[i].servers \cup UNION Granted(i)

ForwardFits(r) ==
    /\ pc[r] = "readList" => specs[call[r].id].approved
    /\ Answered(r, "proxy") /\ answer[r].status = "forwarded" /\ call[r].id \in Live =>
          Granted(call[r].id) # {} /\ HostInList(call[r].host, VouchedHosts(call[r].id))

GrantInv ==
    /\ \A i \in Live : /\ specs[i].approved => Granted(i) # {}
                       /\ specs[i].hosts \subseteq VouchedHosts(i)
    /\ \A r \in Requests : ForwardFits(r)

LEMMA ListedInMore ==
    ASSUME NEW h, NEW s, NEW t, s \subseteq t, HostInList(h, s)
    PROVE  HostInList(h, t)
BY DEF HostInList

(* No approval is taken back while the server runs. *)
LEMMA GrantsKept ==
    ASSUME Base, NEW r \in Requests, Arrive(r) \/ Step(r), NEW i
    PROVE  Granted(i) \subseteq Granted(i)'
<1>1. ASSUME NEW q \in Requests, Grants(q, i) PROVE Grants(q, i)' /\ list'[q] = list[q]
  <2>1. CASE q # r
    <3> USE DEF Base, TypeOK
    <3>1. pc'[q] = pc[q]
      BY <2>1 DEF Step, Handle, Arrive, Reject, Save, Lookup, ReadDefault, DecodeList, BeginApprove,
                  EndApprove, ReadApproved, ReadHosts, CheckApproved, Forward, Judge, Goto, Done
    <3>2. call'[q] = call[q] /\ list'[q] = list[q]
      BY <2>1 DEF Step, Handle, Arrive, Reject, Save, Lookup, ReadDefault, DecodeList, BeginApprove,
                  EndApprove, ReadApproved, ReadHosts, CheckApproved, Forward, Judge, Done
    <3>3. answer'[q] = answer[q]
      BY <2>1 DEF Step, Handle, Arrive, Reject, Save, Lookup, ReadDefault, DecodeList, BeginApprove,
                  EndApprove, ReadApproved, ReadHosts, CheckApproved, Forward, Judge, Done
    <3> QED BY <1>1, <3>1, <3>2, <3>3 DEF Grants
  <2>2. CASE q = r
    <3>1. pc[r] \in {"endApprove", "readApproved", "readHosts", "done"}
      BY <1>1, <2>2 DEF Grants, Base, CallFits
    <3>2. EndApprove(r) \/ ReadApproved(r) \/ ReadHosts(r)
      BY <3>1 DEF Step, Handle, Arrive, Reject, Save, Lookup, ReadDefault, DecodeList, BeginApprove,
                  CheckApproved, Forward, Judge
    <3>3. CASE EndApprove(r) \/ ReadApproved(r)
      BY <1>1, <2>2, <3>3 DEF EndApprove, ReadApproved, Goto, Base, TypeOK, Grants
    <3>4. CASE ReadHosts(r)
      <4>1. call' = call /\ list' = list
        BY <3>4 DEF ReadHosts
      <4>2. answer'[r].status = "ok"
        BY <1>1, <2>2, <3>4 DEF ReadHosts, Base, TypeOK, Grants, Answers
      <4> QED BY <1>1, <2>2, <4>1, <4>2 DEF Grants
    <3> QED BY <3>2, <3>3, <3>4
  <2> QED BY <2>1, <2>2
<1> QED BY <1>1 DEF Granted, Grants

(* A read without the lock, torn or not, finds vouched hosts. *)
LEMMA ReadsGranted ==
    ASSUME Base, GrantInv, NEW i \in Live, NEW l \in Reads(i)
    PROVE  l \subseteq VouchedHosts(i)
<1>1. CASE l = specs[i].hosts
  BY <1>1 DEF GrantInv
<1>2. CASE l # specs[i].hosts
  <2>1. /\ writer \in Requests /\ call[writer].id = i
        /\ l \subseteq specs[i].hosts \/ l \subseteq list[writer]
    BY <1>2 DEF Reads, Torn, Base, TypeOK
  <2>2. pc[writer] = "endApprove"
    BY <2>1 DEF Base, TypeOK
  <2>3. call[writer] \in Calls /\ call[writer].op = "approve"
    BY <2>1, <2>2 DEF Base, CallFits
  <2>4. list[writer] \in Granted(i)
    BY <2>1, <2>2, <2>3, CallFields DEF Granted
  <2> QED BY <2>1, <2>4 DEF GrantInv, VouchedHosts
<1> QED BY <1>1, <1>2

(* What the store holds stays covered by the approvals. *)
LEMMA StoreGranted ==
    ASSUME Base, GrantInv, NEW r \in Requests, Arrive(r) \/ Step(r), NEW i \in Live'
    PROVE  /\ specs'[i].approved => Granted(i)' # {}
           /\ specs'[i].hosts \subseteq VouchedHosts(i)'
<1>1. i \in Ids /\ Base'
  BY BaseNext DEF Live, Next
<1>2. CASE i \notin Live
  <2>1. Save(r)
    BY <1>2 DEF Live, Step, Handle, Arrive, Reject, Lookup, ReadDefault, DecodeList, BeginApprove,
                EndApprove, ReadApproved, ReadHosts, CheckApproved, Forward, Judge, storeVars,
                Base, TypeOK, CallFits
  <2>2. ~specs'[i].approved /\ specs'[i].hosts = specs'[i].servers
    BY <1>1, <1>2, <2>1 DEF Save, Live, Base, TypeOK
  <2> QED BY <2>2 DEF VouchedHosts
<1>3. CASE i \in Live
  <2>1. specs'[i].servers = specs[i].servers /\ Granted(i) \subseteq Granted(i)'
    BY <1>3, ServersKept, GrantsKept
  <2>2. VouchedHosts(i) \subseteq VouchedHosts(i)'
    BY <2>1 DEF VouchedHosts
  <2>3. specs[i] \in StoredSpec
    BY <1>1, <1>3 DEF Base, TypeOK, Live
  <2>4. CASE BeginApprove(r) /\ call[r].id = i
    <3>1. specs'[i].hosts = specs[i].hosts
      BY <1>1, <2>3, <2>4 DEF BeginApprove, Base, TypeOK, StoredSpec
    <3>2. pc'[r] = "endApprove" /\ call' = call /\ call[r].op = "approve" /\ call[r] # None
      BY <2>4, CallFields DEF BeginApprove, Goto, Base, TypeOK, CallFits
    <3>3. list'[r] \in Granted(i)'
      BY <2>4, <3>2 DEF Granted
    <3> QED BY <1>3, <2>2, <3>1, <3>3 DEF GrantInv
  <2>5. CASE EndApprove(r) /\ call[r].id = i
    <3>1. /\ specs'[i].hosts = list[r] /\ specs'[i].approved = specs[i].approved
          /\ list'[r] = list[r]
      BY <1>1, <2>3, <2>5 DEF EndApprove, Base, TypeOK, StoredSpec
    <3>2. pc'[r] = "readApproved" /\ call' = call /\ call[r].op = "approve" /\ call[r] # None
      BY <2>5, CallFields DEF EndApprove, Goto, Base, TypeOK, CallFits
    <3>3. list'[r] \in Granted(i)'
      BY <2>5, <3>2 DEF Granted
    <3> QED BY <3>1, <3>3 DEF VouchedHosts
  <2>6. CASE specs'[i] = specs[i]
    BY <1>3, <2>1, <2>2, <2>6 DEF GrantInv
  <2>7. \/ BeginApprove(r) /\ call[r].id = i
        \/ EndApprove(r) /\ call[r].id = i
        \/ specs'[i] = specs[i]
    BY <1>1, <1>3 DEF Live, Issued, Step, Handle, Arrive, Reject, Save, Lookup, ReadDefault,
                DecodeList, BeginApprove,
                EndApprove, ReadApproved, ReadHosts, CheckApproved, Forward, Judge, storeVars,
                Base, TypeOK
  <2> QED BY <2>4, <2>5, <2>6, <2>7
<1> QED BY <1>2, <1>3

LEMMA ForwardGranted ==
    ASSUME Base, IdsFit, GrantInv, NEW r \in Requests, Arrive(r) \/ Step(r), NEW q \in Requests
    PROVE  ForwardFits(q)'
<1> USE DEF Base
<1>1. \A i \in Live : /\ i \in Live' /\ specs'[i].servers = specs[i].servers
                     /\ Granted(i) \subseteq Granted(i)'
  BY ServersKept, GrantsKept
<1>2. \A i \in Live : VouchedHosts(i) \subseteq VouchedHosts(i)'
  BY <1>1 DEF VouchedHosts
<1>3. \A i \in Live : specs[i].approved => specs'[i].approved
  <2>1. CASE BeginApprove(r) \/ EndApprove(r)
    BY <2>1, StoredSpecFields DEF BeginApprove, EndApprove, TypeOK, CallFits, Live, StoredSpec
  <2>2. CASE Save(r)
    BY <2>2 DEF Save, Live, Issued, TypeOK
  <2>3. CASE UNCHANGED specs
    BY <2>3
  <2> QED BY <2>1, <2>2, <2>3
          DEF Step, Handle, Arrive, Reject, Lookup, ReadDefault, DecodeList, ReadApproved,
              ReadHosts, CheckApproved, Forward, Judge, storeVars
(* A request that neither moves nor changes its call keeps what it has. *)
<1>4. CASE /\ pc'[q] = pc[q] /\ answer'[q].status = answer[q].status
           /\ call'[q] = call[q]
  <2>1. ForwardFits(q)
    BY DEF GrantInv
  <2>2. pc[q] = "readList" => call[q].id \in Live
    BY DEF CallFits, Live
  <2>3. Answered(q, "proxy")' => Answered(q, "proxy")
    BY <1>4 DEF Answered
  <2>4. Answered(q, "proxy") /\ call[q].id \in Live' => call[q].id \in Live
    <3> SUFFICES ASSUME Answered(q, "proxy"), call[q].id \in Live' PROVE call[q].id \in Live
      OBVIOUS
    <3>1. call[q] \in Calls /\ call[q].id \in Ids
      BY DEF Answered, CallFits, Live
    <3>2. call[q].id \in Issued
      BY <3>1 DEF IdsFit
    <3>3. CASE Save(r)
      BY <3>1, <3>2, <3>3 DEF Save, Live, TypeOK
    <3>4. CASE BeginApprove(r) \/ EndApprove(r)
      BY <3>1, <3>4 DEF BeginApprove, EndApprove, Live, TypeOK, CallFits
    <3>5. CASE UNCHANGED specs
      BY <3>5 DEF Live
    <3> QED BY <3>3, <3>4, <3>5
            DEF Step, Handle, Arrive, Reject, Lookup, ReadDefault, DecodeList, ReadApproved,
                ReadHosts, CheckApproved, Forward, Judge, storeVars
  <2>5. pc'[q] = "readList" => specs'[call'[q].id].approved
    BY <1>3, <1>4, <2>1, <2>2 DEF ForwardFits
  <2>6. ASSUME Answered(q, "proxy")', answer'[q].status = "forwarded", call'[q].id \in Live'
        PROVE  /\ Granted(call[q].id)' # {}
               /\ HostInList(call'[q].host, VouchedHosts(call[q].id)')
    <3>1. PICK i \in Live : i = call[q].id
      BY <1>4, <2>4, <2>3, <2>6
    <3>2. Granted(i) # {} /\ HostInList(call[q].host, VouchedHosts(i))
      BY <1>4, <2>1, <2>3, <2>6, <3>1 DEF ForwardFits
    <3>3. Granted(i)' # {}
      BY <1>1, <3>2
    <3>4. VouchedHosts(i) \subseteq VouchedHosts(i)'
      BY <1>2
    <3>5. HostInList(call[q].host, VouchedHosts(i)')
      BY <3>2, <3>4, ListedInMore
    <3>6. call'[q].id = i /\ call'[q].host = call[q].host
      BY <1>4, <3>1
    <3> QED BY <3>3, <3>5, <3>6
  <2> QED BY <1>4, <2>5, <2>6 DEF ForwardFits
<1>5. CASE q # r
  <2>1. pc'[q] = pc[q] /\ answer'[q] = answer[q] /\ call'[q] = call[q]
    BY <1>5 DEF Step, Handle, Arrive, Reject, Save, Lookup, ReadDefault, DecodeList, BeginApprove,
           EndApprove, ReadApproved, ReadHosts, CheckApproved, Forward, Judge, Goto, Done, TypeOK
  <2> QED BY <1>4, <2>1
<1>6. CASE q = r /\ Forward(r)
  <2>1. PICK l \in Reads(call[r].id) :
           Done(r, IF HostInList(call[r].host, l) THEN "forwarded" ELSE "notListed")
    BY <1>6 DEF Forward, Judge
  <2>2. /\ pc[r] = "readList" /\ call[r].id \in Live
        /\ UNCHANGED <<storeVars, call, list, historyVars>>
    BY <1>6 DEF Forward, Judge, CallFits, Live
  <2>3. PICK status \in {"forwarded", "notListed"} :
           Done(r, status) /\ (status = "forwarded" <=> HostInList(call[r].host, l))
    BY <2>1
  <2>4. pc'[r] = "done" /\ answer'[r].status = status
    BY <2>3, DoneAnswer
  <2>5. specs[call[r].id].approved
    BY <2>2 DEF GrantInv, ForwardFits
  <2>6. Granted(call[r].id) # {}
    BY <2>2, <2>5 DEF GrantInv
  <2>7. status = "forwarded" => HostInList(call[r].host, VouchedHosts(call[r].id))
    BY <2>2, <2>1, <2>3, ReadsGranted, ListedInMore
  <2>8. status = "forwarded" => HostInList(call[r].host, VouchedHosts(call[r].id)')
    BY <1>2, <2>2, <2>7, ListedInMore
  <2>9. Granted(call[r].id)' # {}
    BY <1>1, <2>2, <2>6
  <2> QED BY <1>6, <2>2, <2>4, <2>8, <2>9 DEF ForwardFits
<1>7. CASE q = r /\ CheckApproved(r)
  <2>1. CASE IsApproved(call[r].id)
    BY <1>7, <2>1 DEF CheckApproved, IsApproved, Goto, TypeOK, storeVars, ForwardFits, Answered
  <2>2. CASE ~IsApproved(call[r].id)
    <3>1. Done(r, "forbidden")
      BY <1>7, <2>2 DEF CheckApproved
    <3> QED BY <1>7, <3>1, DoneAnswer DEF ForwardFits
  <2> QED BY <2>1, <2>2
<1>8. CASE q = r /\ (Reject(r) \/ DecodeList(r) \/ ReadHosts(r) \/ Lookup(r))
  <2>1. pc'[r] # "readList"
    BY <1>8, CallFields DEF Reject, DecodeList, ReadHosts, Lookup, Goto, Done, TypeOK, CallFits
  <2>2. answer'[r].status # "forwarded"
    <3>1. CASE ReadHosts(r)
      <4>1. answer'[r].status \in {"created", "ok"}
        BY <3>1 DEF ReadHosts, TypeOK, Answers
      <4> QED BY <4>1
    <3>2. CASE Reject(r) \/ DecodeList(r) \/ Lookup(r)
      <4>1. \/ answer' = answer /\ pc[r] # "done"
            \/ \E status \in {"bad", "missing", "forbidden"} : Done(r, status)
        BY <3>2 DEF Reject, DecodeList, Lookup
      <4> QED BY <4>1, DoneAnswer DEF CallFits
    <3> QED BY <1>8, <3>1, <3>2
  <2> QED BY <1>8, <2>1, <2>2 DEF ForwardFits
<1>9. CASE q = r /\ (\/ Arrive(r) \/ Save(r) \/ ReadDefault(r) \/ BeginApprove(r)
                    \/ EndApprove(r) \/ ReadApproved(r))
  <2>1. pc'[r] \notin {"readList", "done"}
    BY <1>9 DEF Arrive, Save, ReadDefault, BeginApprove, EndApprove, ReadApproved, Goto, TypeOK
  <2> QED BY <1>9, <2>1 DEF ForwardFits, Answered
<1> QED BY <1>5, <1>6, <1>7, <1>8, <1>9 DEF Step, Handle

LEMMA GrantNext == Base /\ IdsFit /\ GrantInv /\ [Next]_vars => GrantInv'
<1> SUFFICES ASSUME Base, IdsFit, GrantInv, [Next]_vars PROVE GrantInv'
  OBVIOUS
<1>1. ASSUME NEW r \in Requests, Arrive(r) \/ Step(r) PROVE GrantInv'
  BY <1>1, StoreGranted, ForwardGranted DEF GrantInv
<1>2. CASE Restart
  <2>1. Live' = {}
    BY <1>2 DEF Restart, NewStore, Live
  <2>2. \A r \in Requests : pc'[r] # "readList"
    BY <1>2 DEF Restart, Base, TypeOK
  <2> QED BY <2>1, <2>2 DEF GrantInv, ForwardFits
<1>3. CASE UNCHANGED vars
  <2>1. specs' = specs /\ pc' = pc /\ call' = call /\ list' = list /\ answer' = answer
    BY <1>3 DEF vars, storeVars, handlerVars
  <2>2. \A i : Granted(i)' = Granted(i)
    BY <2>1 DEF Granted
  <2>3. \A i : VouchedHosts(i)' = VouchedHosts(i)
    BY <2>1, <2>2 DEF VouchedHosts
  <2>4. Live' = Live
    BY <2>1 DEF Live
  <2>5. \A r \in Requests : ForwardFits(r)'
    BY <2>1, <2>2, <2>3, <2>4 DEF GrantInv, ForwardFits, Answered
  <2> QED BY <2>1, <2>2, <2>3, <2>4, <2>5 DEF GrantInv
<1> QED BY <1>1, <1>2, <1>3 DEF Next

(* Even a request that reads the record while approvals write it is only *)
(* forwarded for a spec somebody approved, and to a host of its document or *)
(* of a list that one of its approvals granted.                             *)
THEOREM ForwardsVouched == Spec => []ForwardedVouched
<1>1. Init => GrantInv
  BY DEF Init, NewStore, GrantInv, ForwardFits, Live, Answered
<1>2. GrantInv => ForwardedVouched
  BY DEF GrantInv, ForwardFits, VouchedHosts, ForwardedVouched
<1> QED BY <1>1, <1>2, IdsAlways, GrantNext, PTL DEF Spec
------------------------------------------------------------------------------
(* What the summaries of undisturbed requests say. *)

Between == {"readDefault", "decodeList", "beginApprove", "endApprove",
            "readApproved", "readHosts", "checkApproved", "readList"}

(* The list a record holds is its last approval's, or its document's. *)
HostsFit == \A i \in Live : specs[i].hosts = InForce(i, latest[i])

(* The list request r puts in force if it is an approval ... *)
Chosen(r) == IF call[r].list = {} THEN InForce(call[r].id, asof[r]) ELSE call[r].list

(* ... and what the record then holds for every kind of request. *)
Expected(r) == CASE call[r].op = "upload" -> None
                 [] call[r].op = "approve" -> Chosen(r)
                 [] OTHER -> asof[r]

(* How far an undisturbed request has come with its summary. *)
ProgressFits(r) ==
    LET i == call[r].id
    IN  ~disturbed[r] =>
        /\ pc[r] \in {"readDefault", "decodeList", "beginApprove"} =>
              ~Writing(i) /\ asof[r] = latest[i]
        /\ pc[r] = "decodeList" => list[r] = InForce(i, asof[r])
        /\ pc[r] \in {"beginApprove", "endApprove"} => list[r] = Chosen(r)
        /\ pc[r] \in {"readApproved", "readHosts"} => ~Writing(i) /\ latest[i] = Expected(r)
        /\ pc[r] = "readHosts" => (answer[r].approved <=> latest[i] # None)

(* A finished summary tells what was expected. *)
SummaryFits(r) ==
    LET i == call[r].id
    IN  pc[r] = "done" /\ answer[r].status \in {"ok", "created"} /\ i \in Live /\ ~disturbed[r]
        => /\ answer[r].approved <=> Expected(r) # None
           /\ answer[r].hosts = InForce(i, Expected(r))
           /\ call[r].op # "proxy"

SumInv == HostsFit /\ \A r \in Requests : ProgressFits(r) /\ SummaryFits(r)

SInv == Base /\ IdsFit /\ RecordFits /\ SumInv

LEMMA HostsNext ==
    ASSUME SInv, NEW r \in Requests, Arrive(r) \/ Step(r) PROVE HostsFit'
<1> USE DEF SInv, Base
<1> SUFFICES ASSUME NEW i \in Live' PROVE specs'[i].hosts = InForce(i, latest[i])'
  BY DEF HostsFit
<1>1. i \in Ids
  BY DEF Live
<1>2. CASE i \notin Live
  <2>1. Save(r)
    BY <1>2 DEF Live, Step, Handle, Arrive, Reject, Lookup, ReadDefault, DecodeList, BeginApprove,
                EndApprove, ReadApproved, ReadHosts, CheckApproved, Forward, Judge, storeVars,
                TypeOK, CallFits
  <2>2. specs'[i].hosts = specs'[i].servers /\ latest' = latest
    BY <1>1, <1>2, <2>1 DEF Save, Live, TypeOK, historyVars
  <2>3. latest[i] = None
    BY <1>1, <1>2 DEF Live, RecordFits
  <2> QED BY <2>2, <2>3 DEF InForce
<1>3. CASE i \in Live
  <2>1. specs'[i].servers = specs[i].servers /\ specs[i] \in StoredSpec
    BY <1>1, <1>3, ServersKept DEF Live, TypeOK
  <2>2. specs[i].hosts = InForce(i, latest[i])
    BY <1>3 DEF SumInv, HostsFit
  <2>3. CASE EndApprove(r) /\ call[r].id = i
    <3>1. specs'[i].hosts = list[r] /\ latest'[i] = list[r] /\ list[r] \in Lists
      BY <1>1, <2>1, <2>3 DEF EndApprove, TypeOK, StoredSpec
    <3> QED BY <3>1, GateAssumption DEF InForce
  <2>4. CASE specs'[i].hosts = specs[i].hosts /\ latest'[i] = latest[i]
    BY <2>1, <2>2, <2>4 DEF InForce
  <2>5. CASE BeginApprove(r)
    <3>1. specs'[i].hosts = specs[i].hosts /\ latest' = latest
      BY <1>1, <2>1, <2>5 DEF BeginApprove, TypeOK, StoredSpec
    <3> QED BY <2>4, <3>1
  <2>6. \/ EndApprove(r) /\ call[r].id = i
        \/ specs'[i] = specs[i] /\ latest'[i] = latest[i]
        \/ BeginApprove(r)
    BY <1>1, <1>3 DEF Live, Issued, Step, Handle, Arrive, Reject, Save, Lookup, ReadDefault,
           DecodeList, EndApprove, ReadApproved, ReadHosts, CheckApproved, Forward, Judge,
           storeVars, historyVars, TypeOK
  <2> QED BY <2>3, <2>4, <2>5, <2>6
<1> QED BY <1>2, <1>3

(* A step of r leaves another request's spec alone or disturbs the request. *)
LEMMA OthersApart ==
    ASSUME Base, NEW r \in Requests, Arrive(r) \/ Step(r), NEW q \in Requests \ {r}
    PROVE  /\ pc'[q] = pc[q] /\ call'[q] = call[q] /\ list'[q] = list[q]
           /\ answer'[q] = answer[q] /\ asof'[q] = asof[q]
           /\ disturbed[q] => disturbed'[q]
           /\ pc[q] \in Between /\ ~disturbed'[q] =>
                 /\ latest'[call[q].id] = latest[call[q].id]
                 /\ Writing(call[q].id)' <=> Writing(call[q].id)
<1> USE DEF Base
<1>1. /\ pc'[q] = pc[q] /\ call'[q] = call[q] /\ list'[q] = list[q]
      /\ answer'[q] = answer[q] /\ asof'[q] = asof[q]
  BY DEF Step, Handle, Arrive, Reject, Save, Lookup, ReadDefault, DecodeList, BeginApprove,
         EndApprove, ReadApproved, ReadHosts, CheckApproved, Forward, Judge, Goto, Done,
         historyVars, TypeOK
<1>2. disturbed[q] => disturbed'[q]
  BY DEF Step, Handle, Arrive, Reject, Save, Lookup, ReadDefault, DecodeList, BeginApprove,
         EndApprove, ReadApproved, ReadHosts, CheckApproved, Forward, Judge, Disturb,
         historyVars, TypeOK
<1>3. ASSUME pc[q] \in Between, ~disturbed'[q], NEW i, i = call[q].id
      PROVE  latest'[i] = latest[i] /\ (Writing(i)' <=> Writing(i))
  <2>1. i \in Ids /\ (pc[q] \in Between => q \in Reading(i))
    BY <1>3 DEF CallFits, Reading, Between
  <2>2. CASE BeginApprove(r)
    <3>1. call[r].id # i
      BY <1>3, <2>1, <2>2 DEF BeginApprove, Disturb
    <3> QED BY <2>2, <3>1 DEF BeginApprove, MuFree, Writing
  <2>3. CASE EndApprove(r)
    <3>1. call[r].id # i
      BY <1>3, <2>1, <2>3 DEF EndApprove, Disturb
    <3>2. writer = r /\ writer' = None /\ latest'[i] = latest[i]
      BY <2>3, <3>1 DEF EndApprove, Unlock, TypeOK
    <3> QED BY <3>1, <3>2 DEF Writing
  <2>4. CASE writer' = writer /\ latest' = latest /\ ~BeginApprove(r) /\ ~EndApprove(r)
    <3>1. writer # None => writer # r
      BY <2>4 DEF Step, Handle, Arrive, Reject, Save, Lookup, ReadDefault, DecodeList,
                  ReadApproved, ReadHosts, CheckApproved, Forward, Judge, TypeOK
    <3>2. writer # None => call'[writer] = call[writer]
      BY <3>1 DEF Step, Handle, Arrive, Reject, Save, Lookup, ReadDefault, DecodeList, BeginApprove,
                  EndApprove, ReadApproved, ReadHosts, CheckApproved, Forward, Judge, TypeOK
    <3> QED BY <2>4, <3>2 DEF Writing
  <2> QED BY <2>2, <2>3, <2>4
          DEF Step, Handle, Arrive, Reject, Save, Lookup, ReadDefault, DecodeList, ReadApproved,
              ReadHosts, CheckApproved, Forward, Judge, storeVars, historyVars
<1> QED BY <1>1, <1>2, <1>3

(* A spec that is stored after a step of r, with an id some request has, was *)
(* stored before it.                                                         *)
LEMMA KnownStays ==
    ASSUME Base, IdsFit, NEW r \in Requests, Arrive(r) \/ Step(r),
           NEW q \in Requests, call[q] \in Calls, NEW i \in Live', i = call[q].id
    PROVE  i \in Live
<1> USE DEF Base
<1>1. i \in Ids /\ i \in Issued
  BY DEF Live, IdsFit
<1>2. CASE Save(r)
  BY <1>1, <1>2 DEF Save, Live, TypeOK
<1>3. CASE BeginApprove(r) \/ EndApprove(r)
  BY <1>1, <1>3 DEF BeginApprove, EndApprove, Live, TypeOK, CallFits
<1>4. CASE UNCHANGED specs
  BY <1>4 DEF Live
<1> QED BY <1>2, <1>3, <1>4
        DEF Step, Handle, Arrive, Reject, Lookup, ReadDefault, DecodeList, ReadApproved,
            ReadHosts, CheckApproved, Forward, Judge, storeVars

LEMMA SummaryOther ==
    ASSUME SInv, NEW r \in Requests, Arrive(r) \/ Step(r), NEW q \in Requests \ {r}
    PROVE  ProgressFits(q)' /\ SummaryFits(q)'
<1> USE DEF SInv
<1>1. /\ pc'[q] = pc[q] /\ call'[q] = call[q] /\ list'[q] = list[q]
      /\ answer'[q] = answer[q] /\ asof'[q] = asof[q]
      /\ disturbed[q] => disturbed'[q]
  BY OthersApart
<1>2. ProgressFits(q) /\ SummaryFits(q)
  BY DEF SumInv
<1>3. PICK i : i = call[q].id
  OBVIOUS
<1>5. ProgressFits(q)'
  <2> SUFFICES ASSUME pc[q] \in Between, ~disturbed'[q] PROVE ProgressFits(q)'
    BY <1>1 DEF ProgressFits, Between
  <2>1. i \in Live
    BY <1>3 DEF Base, CallFits, Between, Live
  <2>2. specs'[i].servers = specs[i].servers
    BY <2>1, ServersKept
  <2>3. latest'[i] = latest[i] /\ (Writing(i)' <=> Writing(i))
    BY <1>3, OthersApart
  <2>4. Chosen(q)' = Chosen(q)
    BY <1>1, <1>3, <2>2 DEF Chosen, InForce
  <2>5. Expected(q)' = Expected(q)
    BY <1>1, <2>4 DEF Expected
  <2>6. InForce(call[q].id, asof[q])' = InForce(call[q].id, asof[q])
    BY <1>1, <1>3, <2>2 DEF InForce
  <2> QED BY <1>1, <1>2, <1>3, <2>3, <2>4, <2>5, <2>6 DEF ProgressFits
<1>6. SummaryFits(q)'
  <2> SUFFICES ASSUME pc[q] = "done", i \in Live', ~disturbed'[q] PROVE SummaryFits(q)'
    BY <1>1, <1>3 DEF SummaryFits
  <2>1. i \in Live
    BY <1>3, KnownStays DEF Base, CallFits
  <2>2. specs'[i].servers = specs[i].servers
    BY <2>1, ServersKept
  <2>3. Expected(q)' = Expected(q)
    BY <1>1, <1>3, <2>2 DEF Chosen, Expected, InForce
  <2>4. InForce(call[q].id, Expected(q))' = InForce(call[q].id, Expected(q))
    BY <1>1, <1>3, <2>2, <2>3 DEF InForce
  <2> QED BY <1>1, <1>2, <1>3, <2>1, <2>3, <2>4 DEF SummaryFits
<1> QED BY <1>5, <1>6

(* A record nobody is writing is read whole. *)
LEMMA QuietRead ==
    ASSUME HostsFit, NEW i \in Live, ~Writing(i), NEW l \in Reads(i)
    PROVE  l = InForce(i, latest[i])
BY DEF HostsFit, Reads, Writing

LEMMA SummaryApprove ==
    ASSUME SInv, NEW r \in Requests, ReadDefault(r) \/ DecodeList(r) \/ BeginApprove(r)
    PROVE  ProgressFits(r)' /\ SummaryFits(r)'
<1> USE DEF SInv, Base
<1>1. PICK i \in Live : i = call[r].id
  BY DEF ReadDefault, DecodeList, BeginApprove, CallFits, Live
<1>2. call' = call /\ asof' = asof /\ latest' = latest
  BY DEF ReadDefault, DecodeList, BeginApprove, historyVars
<1>3. disturbed'[r] = disturbed[r]
  BY DEF ReadDefault, DecodeList, BeginApprove, historyVars, Disturb, TypeOK
<1>4. specs'[i].servers = specs[i].servers
  BY <1>1, ServersKept DEF Step, Handle
<1>5. ProgressFits(r)
  BY DEF SumInv
<1>7. CASE ReadDefault(r)
  <2>1. /\ pc[r] = "readDefault" /\ pc'[r] = "decodeList"
        /\ list'[r] \in Reads(i) /\ UNCHANGED storeVars
    BY <1>1, <1>7 DEF ReadDefault, Goto, TypeOK
  <2>2. ~disturbed[r] => ~Writing(i) /\ asof[r] = latest[i] /\ list'[r] = InForce(i, latest[i])
    BY <1>1, <1>5, <2>1, QuietRead DEF ProgressFits, SumInv
  <2>3. InForce(i, asof[r])' = InForce(i, asof[r])
    BY <1>2, <1>4, <1>1 DEF InForce
  <2>4. Writing(i)' <=> Writing(i)
    BY <1>2, <2>1 DEF Writing, storeVars
  <2> QED BY <1>1, <1>2, <1>3, <2>1, <2>2, <2>3, <2>4 DEF ProgressFits, SummaryFits
<1>8. CASE DecodeList(r)
  <2>1. pc[r] = "decodeList" /\ UNCHANGED storeVars
    BY <1>8 DEF DecodeList
  <2>2. Writing(i)' <=> Writing(i)
    BY <1>2, <2>1 DEF Writing, storeVars
  <2>3. CASE Acceptable(call[r].list)
    <3>1. /\ pc'[r] = "beginApprove"
          /\ list'[r] = IF call[r].list = {} THEN list[r] ELSE call[r].list
      BY <1>8, <2>3 DEF DecodeList, ChosenList, Goto, TypeOK
    <3>2. ~disturbed[r] => list'[r] = Chosen(r)
      BY <1>5, <2>1, <3>1 DEF ProgressFits, Chosen
    <3>3. Chosen(r)' = Chosen(r)
      BY <1>1, <1>2, <1>4 DEF Chosen, InForce
    <3> QED BY <1>1, <1>2, <1>3, <1>5, <2>1, <2>2, <3>1, <3>2, <3>3
            DEF ProgressFits, SummaryFits
  <2>4. CASE ~Acceptable(call[r].list)
    <3>1. Done(r, "bad")
      BY <1>8, <2>4 DEF DecodeList
    <3> QED BY <3>1, DoneAnswer DEF ProgressFits, SummaryFits
  <2> QED BY <2>3, <2>4
<1>9. CASE BeginApprove(r)
  <2>1. pc[r] = "beginApprove" /\ pc'[r] = "endApprove" /\ list' = list
    BY <1>9 DEF BeginApprove, Goto, TypeOK
  <2>2. Chosen(r)' = Chosen(r)
    BY <1>1, <1>2, <1>4 DEF Chosen, InForce
  <2> QED BY <1>3, <1>5, <2>1, <2>2 DEF ProgressFits, SummaryFits
<1> QED BY <1>7, <1>8, <1>9

LEMMA SummaryEndApprove ==
    ASSUME SInv, NEW r \in Requests, EndApprove(r)
    PROVE  ProgressFits(r)' /\ SummaryFits(r)'
<1> USE DEF SInv, Base
<1>1. PICK i \in Live : i = call[r].id
  BY DEF EndApprove, CallFits, Live
<1>2. /\ pc[r] = "endApprove" /\ pc'[r] = "readApproved" /\ call[r].op = "approve"
      /\ call' = call /\ asof' = asof /\ writer' = None
  BY DEF EndApprove, Unlock, Goto, TypeOK, CallFits
<1>3. disturbed'[r] = disturbed[r] /\ latest'[i] = list[r]
  BY <1>1 DEF EndApprove, Disturb, TypeOK, Live
<1>4. specs'[i].servers = specs[i].servers
  BY <1>1, ServersKept DEF Step, Handle
<1>5. ~disturbed[r] => list[r] = Chosen(r)
  BY <1>2 DEF SumInv, ProgressFits
<1>6. Expected(r)' = Chosen(r)
  BY <1>1, <1>2, <1>4 DEF Expected, Chosen, InForce
<1> QED BY <1>1, <1>2, <1>3, <1>5, <1>6 DEF ProgressFits, SummaryFits, Writing

LEMMA SummaryRead ==
    ASSUME SInv, NEW r \in Requests, ReadApproved(r) \/ ReadHosts(r)
    PROVE  ProgressFits(r)' /\ SummaryFits(r)'
<1> USE DEF SInv, Base
<1>1. PICK i \in Live : i = call[r].id
  BY DEF ReadApproved, ReadHosts, CallFits, Live
<1>2. call' = call /\ UNCHANGED <<storeVars, historyVars>>
  BY DEF ReadApproved, ReadHosts
<1>3. ProgressFits(r)
  BY DEF SumInv
<1>4. Expected(r)' = Expected(r) /\ (Writing(i)' <=> Writing(i)) /\ Live' = Live
  BY <1>2 DEF Expected, Chosen, InForce, Writing, Live, storeVars, historyVars
<1>5. CASE ReadApproved(r)
  <2>1. /\ pc[r] = "readApproved" /\ pc'[r] = "readHosts"
        /\ answer'[r].approved = specs[i].approved
    BY <1>1, <1>5 DEF ReadApproved, Goto, TypeOK, Answers
  <2>2. ~Writing(i) => (specs[i].approved <=> latest[i] # None)
    BY <1>1 DEF RecordFits, Live
  <2> QED BY <1>1, <1>2, <1>3, <1>4, <2>1, <2>2 DEF ProgressFits, SummaryFits, historyVars
<1>6. CASE ReadHosts(r)
  <2>1. /\ pc[r] = "readHosts" /\ pc'[r] = "done"
        /\ answer'[r].approved = answer[r].approved /\ answer'[r].hosts \in Reads(i)
    <3>1. PICK l \in Reads(i), status \in {"created", "ok"} :
             answer' = [answer EXCEPT ![r].hosts = l, ![r].status = status]
      BY <1>1, <1>6 DEF ReadHosts
    <3>2. answer[r] \in Answers
      BY DEF TypeOK
    <3>3. answer'[r].approved = answer[r].approved /\ answer'[r].hosts = l
      BY <3>1, <3>2 DEF TypeOK, Answers
    <3>4. pc[r] = "readHosts" /\ pc'[r] = "done"
      BY <1>6 DEF ReadHosts, Goto, TypeOK
    <3> QED BY <3>3, <3>4
  <2>2. ~disturbed[r] => /\ ~Writing(i) /\ latest[i] = Expected(r)
                         /\ answer[r].approved <=> latest[i] # None
    BY <1>1, <1>3, <2>1 DEF ProgressFits
  <2>3. ~disturbed[r] => answer'[r].hosts = InForce(i, Expected(r))
    BY <2>1, <2>2, QuietRead DEF SumInv
  <2>4. InForce(i, Expected(r))' = InForce(i, Expected(r))
    BY <1>1, <1>2, <1>4 DEF InForce, storeVars
  <2>5. call[r].op # "proxy"
    BY <2>1 DEF CallFits
  <2> QED BY <1>1, <1>2, <1>4, <2>1, <2>2, <2>3, <2>4, <2>5
          DEF ProgressFits, SummaryFits, historyVars
<1> QED BY <1>5, <1>6

LEMMA SummaryEnter ==
    ASSUME SInv, NEW r \in Requests, Arrive(r) \/ Save(r) \/ Lookup(r)
    PROVE  ProgressFits(r)' /\ SummaryFits(r)'
<1> USE DEF SInv, Base
<1>1. CASE Arrive(r)
  BY <1>1 DEF Arrive, Goto, TypeOK, ProgressFits, SummaryFits
<1>2. CASE Save(r)
  <2>1. PICK i \in Ids \ Issued : call' = [call EXCEPT ![r].id = i]
    BY <1>2 DEF Save
  <2>2. /\ call[r] \in UploadCalls /\ pc'[r] = "readApproved" /\ writer' = None
        /\ latest' = latest
    BY <1>2, CallFields DEF Save, MuFree, CallFits, Goto, TypeOK, historyVars
  <2>3. call'[r].id = i /\ call'[r].op = "upload"
    BY <2>1, <2>2 DEF TypeOK, UploadCalls
  <2>4. latest[i] = None
    BY DEF Issued, Live, RecordFits
  <2> QED BY <2>2, <2>3, <2>4 DEF ProgressFits, SummaryFits, Expected, Writing
<1>3. CASE Lookup(r)
  <2>1. PICK i \in Ids : i = call[r].id
    BY <1>3, CallFields DEF Lookup, CallFits
  <2>2. /\ pc[r] = "lookup" /\ writer = None /\ writer' = None /\ call' = call
        /\ latest' = latest
    BY <1>3 DEF Lookup, MuFree, storeVars
  <2>3. CASE specs[i] = None
    <3>1. PICK status \in {"forbidden", "missing"} : Done(r, status)
      BY <1>3, <2>1, <2>3 DEF Lookup
    <3> QED BY <3>1, DoneAnswer DEF ProgressFits, SummaryFits
  <2>4. CASE specs[i] # None
    <3>1. /\ asof'[r] = latest[i]
          /\ \/ pc'[r] = "readApproved" /\ call[r].op = "get"
             \/ pc'[r] = "readDefault" /\ call[r].op = "approve"
             \/ pc'[r] = "checkApproved" /\ call[r].op = "proxy"
      BY <1>3, <2>1, <2>2, <2>4, CallFields DEF Lookup, Goto, TypeOK, CallFits
    <3> QED BY <2>1, <2>2, <3>1 DEF ProgressFits, SummaryFits, Expected, Writing
  <2> QED BY <2>3, <2>4
<1> QED BY <1>1, <1>2, <1>3

LEMMA SummaryRefuse ==
    ASSUME SInv, NEW r \in Requests, Reject(r) \/ CheckApproved(r) \/ Forward(r)
    PROVE  ProgressFits(r)' /\ SummaryFits(r)'
<1> USE DEF SInv, Base
<1>1. CASE pc'[r] = "readList"
  BY <1>1 DEF ProgressFits, SummaryFits
<1>2. ASSUME NEW status \in {"bad", "forbidden", "notListed", "forwarded"}, Done(r, status)
      PROVE  ProgressFits(r)' /\ SummaryFits(r)'
  BY <1>2, DoneAnswer DEF ProgressFits, SummaryFits
<1> QED BY <1>1, <1>2 DEF Reject, CheckApproved, Forward, Judge, Goto, TypeOK

LEMMA SummaryNext == SInv /\ [Next]_vars => SumInv'
<1> SUFFICES ASSUME SInv, [Next]_vars PROVE SumInv'
  OBVIOUS
<1>1. ASSUME NEW r \in Requests, Arrive(r) \/ Step(r) PROVE SumInv'
  <2>1. ProgressFits(r)' /\ SummaryFits(r)'
    BY <1>1, SummaryApprove, SummaryEndApprove, SummaryRead, SummaryEnter, SummaryRefuse
       DEF Step, Handle
  <2> QED BY <1>1, <2>1, HostsNext, SummaryOther DEF SumInv
<1>2. CASE Restart
  <2>1. Live' = {}
    BY <1>2 DEF Restart, NewStore, Live
  <2>2. \A r \in Requests : pc'[r] \in {"idle", "done", "lost"}
    BY <1>2 DEF Restart, SInv, Base, TypeOK
  <2> QED BY <2>1, <2>2 DEF SumInv, HostsFit, ProgressFits, SummaryFits
<1>3. CASE UNCHANGED vars
  BY <1>3 DEF vars, storeVars, handlerVars, historyVars, SInv, SumInv, HostsFit,
              ProgressFits, SummaryFits, Expected, Chosen, InForce, Writing, Live
<1> QED BY <1>1, <1>2, <1>3 DEF Next

(* Although a handler builds its summary from reads it makes one by one and *)
(* without the lock, the summary of a request whose spec nobody else wrote  *)
(* to since the look-up states one approval, whole: the one it asked about, *)
(* or the one it made.                                                      *)
THEOREM SummariesTellTruth == Spec => []UndisturbedSummary
<1>1. Init => SumInv
  BY DEF Init, NewStore, SumInv, HostsFit, ProgressFits, SummaryFits, Live
<1>2. ASSUME Base, RecordFits, SumInv PROVE UndisturbedSummary
  <2> SUFFICES ASSUME NEW r \in Requests, pc[r] = "done", call[r].id \in Live,
                      answer[r].status \in {"ok", "created"}, ~disturbed[r]
               PROVE  UndisturbedSummary!(r)
    BY DEF UndisturbedSummary
  <2>1. PICK i \in Live : i = call[r].id
    OBVIOUS
  <2>2. /\ answer[r].approved <=> Expected(r) # None
        /\ answer[r].hosts = InForce(i, Expected(r))
        /\ call[r].op \in {"upload", "get", "approve"}
    BY <1>2, <2>1, CallFields DEF SumInv, SummaryFits, Base, CallFits
  <2>3. CASE call[r].op = "upload"
    BY <2>1, <2>2, <2>3 DEF Expected, InForce
  <2>4. CASE call[r].op = "get"
    BY <2>1, <2>2, <2>4 DEF Expected
  <2>5. CASE call[r].op = "approve"
    <3>1. InForce(i, asof[r]) # None /\ call[r].list # None
      BY <1>2, <2>5, CallFields, StoredSpecFields, GateAssumption
         DEF InForce, Base, TypeOK, CallFits, Live
    <3>2. Chosen(r) # None /\ InForce(i, Chosen(r)) = Chosen(r)
      BY <2>1, <3>1 DEF Chosen, InForce
    <3> QED BY <2>1, <2>2, <2>5, <3>2 DEF Expected, Chosen, InForce
  <2> QED BY <2>2, <2>3, <2>4, <2>5
<1>3. Init => JInv
  BY BaseInit, JudgementInit DEF JInv
<1>4. JInv => RecordFits
  BY DEF JInv, Judgement
<1>5. Base /\ IdsFit /\ RecordFits /\ SumInv /\ [Next]_vars => SumInv'
  BY SummaryNext DEF SInv
<1> QED BY <1>1, <1>2, <1>3, <1>4, <1>5, IdsAlways, JudgementNext, PTL DEF Spec
------------------------------------------------------------------------------
(* The whole server.  Its steps are steps of its parts. *)

LEMMA GateStep == ASSUME [ProxyNext]_proxyVars PROVE [Next]_vars
<1>1. ASSUME NEW r \in Requests, Serve(r) PROVE Next
  BY <1>1 DEF Serve, Next, Step
<1>2. ASSUME NEW r \in Requests, HandOver(r) PROVE Next
  BY <1>2 DEF HandOver, Next, Step, Forward
<1>3. ASSUME NEW r \in Requests, Enter(r) \/ Go(r) PROVE UNCHANGED vars
  BY <1>3 DEF Enter, Go
<1>4. CASE Outside
  BY <1>4 DEF Outside
<1>5. CASE UNCHANGED proxyVars
  BY <1>5 DEF proxyVars
<1> QED BY <1>1, <1>2, <1>3, <1>4, <1>5 DEF ProxyNext

(* The gate behaves as SpecGate says, whatever the calls and the clock do. *)
THEOREM ProxyUsesGate == ProxySpec => Spec
<1>1. ProxyInit => Init
  BY DEF ProxyInit
<1> QED BY <1>1, GateStep, PTL DEF ProxySpec, Spec

GateInv == Base /\ IdsFit /\ GrantInv

LEMMA GateInvAlways == ProxySpec => []GateInv
<1>1. Init => GrantInv
  BY DEF Init, NewStore, GrantInv, ForwardFits, Live, Answered
<1>2. Base /\ IdsFit /\ GrantInv => GateInv
  BY DEF GateInv
<1> QED BY <1>1, <1>2, IdsAlways, GrantNext, ProxyUsesGate, PTL DEF Spec

IsSequence(s) == \E S : s \in Seq(S)

CallTypes ==
    /\ stage \in [Requests -> Exec!Labels]
    /\ outcome \in [Requests -> Exec!Outcomes \cup {"none"}]
    /\ input \in [Requests -> Inputs \cup {None}]
    /\ DOMAIN target = Requests /\ DOMAIN trail = Requests
    /\ \A r \in Requests : IsSequence(trail[r])

(* A call is that of a request which the gate has decided, with the list by *)
(* which it did: the two look at it once each and agree.                    *)
Handed(r) ==
    /\ stage[r] # "idle" =>
          /\ pc[r] = "done" /\ call[r] \in Calls /\ call[r].op = "proxy" /\ call[r].id \in Live
          /\ input[r] \in Inputs /\ input[r].host = call[r].host
          /\ answer[r].status = IF Listed(r) THEN "forwarded" ELSE "notListed"
    /\ stage[r] \notin {"idle", "enter"} /\ outcome[r] # "notAllowed" => Listed(r)

(* What a call has contacted at each place of its code, and where it goes. *)
Progress(r) ==
    /\ trail[r] # <<>> => /\ stage[r] \in {"connect", "dial", "await", "read", "done"}
                          /\ outcome[r] \notin {"notAllowed", "rateLimited"}
                          /\ trail[r][1].host = input[r].host
    /\ stage[r] \in {"await", "read"} => trail[r] # <<>>
    /\ trail[r] = <<>> /\ stage[r] \notin {"idle", "done"} => target[r] = input[r].host
    /\ stage[r] # "done" => outcome[r] = "none"

CallInv == CallTypes /\ \A r \in Requests : Handed(r) /\ Progress(r)

LEMMA AppendSequence ==
    ASSUME NEW s, IsSequence(s), NEW e
    PROVE  /\ IsSequence(Append(s, e)) /\ Append(s, e) # <<>>
           /\ s # <<>> => Append(s, e)[1] = s[1]
           /\ s = <<>> => Append(s, e)[1] = e
<1>1. PICK S : s \in Seq(S)
  BY DEF IsSequence
<1> DEFINE T == S \cup {e}
<1>2. s \in Seq(T)
  BY <1>1, SeqMonotonic
<1>3. /\ Append(s, e) \in Seq(T) /\ Append(s, e) # <<>> /\ Len(s) \in Nat
      /\ Append(s, e)[Len(s) + 1] = e
      /\ \A i \in 1..Len(s) : Append(s, e)[i] = s[i]
  BY <1>2, AppendProperties, LenProperties
<1>4. IsSequence(Append(s, e))
  BY <1>3 DEF IsSequence
<1>5. ASSUME s # <<>> PROVE Append(s, e)[1] = s[1]
  <2>1. Len(s) # 0
    BY <1>2, <1>5, EmptySeq
  <2> QED BY <1>3, <2>1
<1>6. ASSUME s = <<>> PROVE Append(s, e)[1] = e
  <2>1. Len(s) = 0
    BY <1>6
  <2> QED BY <1>3, <2>1
<1> QED BY <1>3, <1>4, <1>5, <1>6

(* What the gate has decided stays, and so does the spec it decided for. *)
LEMMA DecidedStays ==
    ASSUME Base, NEW r \in Requests, Arrive(r) \/ Handle(r), NEW q \in Requests,
           pc[q] = "done"
    PROVE  /\ pc'[q] = "done" /\ call'[q] = call[q] /\ answer'[q] = answer[q]
<1>1. q # r
  BY DEF Arrive, Handle, Reject, Save, Lookup, ReadDefault, DecodeList, BeginApprove,
         EndApprove, ReadApproved, ReadHosts, CheckApproved
<1> QED BY <1>1, OthersApart DEF Step

LEMMA CallInit == ProxyInit => CallInv
<1> SUFFICES ASSUME ProxyInit PROVE CallInv
  OBVIOUS
<1>1. /\ stage = [r \in Requests |-> "idle"] /\ outcome = [r \in Requests |-> "none"]
      /\ input = [r \in Requests |-> None] /\ target = [r \in Requests |-> None]
      /\ trail = [r \in Requests |-> <<>>]
  BY DEF ProxyInit, Exec!Init
<1>2. IsSequence(<<>>)
  BY EmptySeq DEF IsSequence
<1>3. CallTypes
  BY <1>1, <1>2 DEF CallTypes, Exec!Labels
<1> QED BY <1>1, <1>3 DEF CallInv, Handed, Progress

LEMMA CallServe == ASSUME GateInv, CallInv, NEW r \in Requests, Serve(r) PROVE CallInv'
<1>1. Arrive(r) \/ Handle(r)
  BY DEF Serve
<1>2. /\ stage' = stage /\ outcome' = outcome /\ input' = input /\ target' = target
      /\ trail' = trail
  BY DEF Serve, callVars
<1>3. CallTypes'
  BY <1>2 DEF CallInv, CallTypes
<1>4. ASSUME NEW q \in Requests PROVE Handed(q)' /\ Progress(q)'
  <2>1. Handed(q) /\ Progress(q)
    BY DEF CallInv
  <2>2. Progress(q)'
    BY <1>2, <2>1 DEF Progress
  <2>3. Listed(q)' = Listed(q)
    BY <1>2 DEF Listed
  <2>4. CASE stage[q] = "idle"
    BY <1>2, <2>1, <2>2, <2>3, <2>4 DEF Handed
  <2>5. CASE stage[q] # "idle"
    <3>1. pc'[q] = "done" /\ call'[q] = call[q] /\ answer'[q] = answer[q]
      BY <1>1, <2>1, <2>5, DecidedStays DEF Handed, GateInv
    <3>2. call[q].id \in Live'
      BY <1>1, <2>1, <2>5, ServersKept DEF Handed, GateInv, Step
    <3> QED BY <1>2, <2>1, <2>2, <2>3, <3>1, <3>2 DEF Handed
  <2> QED BY <2>2, <2>4, <2>5
<1> QED BY <1>3, <1>4 DEF CallInv

(* What the gate hands over, and what it decides meanwhile. *)
LEMMA HandedOver ==
    ASSUME GateInv, NEW r \in Requests, pc[r] = "readList",
           NEW l \in Reads(call[r].id), Judge(r, l)
    PROVE  /\ Input(r, l) \in Inputs
           /\ pc' = [pc EXCEPT ![r] = "done"]
           /\ call' = call /\ specs' = specs
           /\ call[r] \in Calls /\ call[r].op = "proxy" /\ call[r].id \in Live
           /\ answer'[r].status = IF HostInList(call[r].host, l) THEN "forwarded"
                                  ELSE "notListed"
           /\ \A q \in Requests \ {r} : answer'[q] = answer[q]
<1> USE DEF GateInv, Base
<1>1. call[r] \in Calls /\ call[r].op = "proxy" /\ call[r].id \in Ids /\ specs[call[r].id] # None
  BY DEF CallFits
<1>2. call[r].host \in Targets
  BY <1>1, CallFields
<1>3. l \in Lists
  BY <1>1, ReadsAreLists
<1>4. Input(r, l) \in Inputs
  BY <1>2, <1>3 DEF Input, Inputs
<1>5. Done(r, IF HostInList(call[r].host, l) THEN "forwarded" ELSE "notListed")
      /\ call' = call /\ specs' = specs
  BY DEF Judge, storeVars
<1>6. /\ answer'[r].status = IF HostInList(call[r].host, l) THEN "forwarded"
                             ELSE "notListed"
      /\ \A q \in Requests \ {r} : answer'[q] = answer[q]
  BY <1>5 DEF Done, TypeOK, Answers
<1> QED BY <1>1, <1>4, <1>5, <1>6 DEF Live, Done

LEMMA CallHandOver == ASSUME GateInv, CallInv, NEW r \in Requests, HandOver(r) PROVE CallInv'
<1>1. PICK l \in Reads(call[r].id) : Judge(r, l) /\ Exec!Begin(r, Input(r, l))
  BY DEF HandOver
<1>2. pc[r] = "readList"
  BY DEF HandOver
<1>3. /\ stage[r] = "idle" /\ stage' = [stage EXCEPT ![r] = "enter"]
      /\ input' = [input EXCEPT ![r] = Input(r, l)]
      /\ target' = [target EXCEPT ![r] = Input(r, l).host]
      /\ trail' = trail /\ outcome' = outcome
  BY <1>1 DEF Exec!Begin, Exec!Goto
<1>4. CallTypes'
  BY <1>1, <1>2, <1>3, HandedOver DEF CallInv, CallTypes, Exec!Labels
<1>5. Handed(r)' /\ Progress(r)'
  <2>1. Progress(r)'
    BY <1>3 DEF CallInv, CallTypes, Progress
  <2>2. input'[r] = Input(r, l)
    BY <1>3 DEF CallInv, CallTypes
  <2>3. Listed(r)' <=> HostInList(call[r].host, l)
    BY <2>2 DEF Listed, Input
  <2>4. /\ Input(r, l) \in Inputs /\ pc'[r] = "done" /\ call' = call /\ Live' = Live
        /\ call[r] \in Calls /\ call[r].op = "proxy" /\ call[r].id \in Live
        /\ answer'[r].status = IF HostInList(call[r].host, l) THEN "forwarded"
                               ELSE "notListed"
    BY <1>1, <1>2, HandedOver DEF GateInv, Base, TypeOK, Live
  <2>5. stage'[r] = "enter"
    BY <1>3 DEF CallInv, CallTypes
  <2> QED BY <2>1, <2>2, <2>3, <2>4, <2>5 DEF Handed, Input
<1>6. ASSUME NEW q \in Requests \ {r} PROVE Handed(q)' /\ Progress(q)'
  <2>1. /\ stage'[q] = stage[q] /\ input'[q] = input[q] /\ target'[q] = target[q]
        /\ trail'[q] = trail[q] /\ outcome'[q] = outcome[q]
    BY <1>3 DEF CallInv, CallTypes
  <2>2. pc'[q] = pc[q] /\ call'[q] = call[q] /\ answer'[q] = answer[q] /\ Live' = Live
    BY <1>1, <1>2, HandedOver DEF GateInv, Base, TypeOK, Live
  <2>3. Listed(q)' = Listed(q)
    BY <2>1 DEF Listed
  <2> QED BY <2>1, <2>2, <2>3 DEF CallInv, Handed, Progress
<1> QED BY <1>4, <1>5, <1>6 DEF CallInv

(* A call that goes on from the limiter, or is refused there or before it. *)
LEMMA CallEnter == ASSUME GateInv, CallInv, NEW r \in Requests, Enter(r) PROVE CallInv'
<1>1. /\ stage[r] = "enter"
      /\ \/ /\ stage' = [stage EXCEPT ![r] = "resolve"] /\ outcome' = outcome /\ Listed(r)
         \/ /\ stage' = [stage EXCEPT ![r] = "done"]
            /\ outcome' = [outcome EXCEPT ![r] = "rateLimited"]
            /\ Listed(r)
         \/ /\ stage' = [stage EXCEPT ![r] = "done"]
            /\ outcome' = [outcome EXCEPT ![r] = "notAllowed"]
      /\ input' = input /\ target' = target /\ trail' = trail
  BY DEF Enter, Ask, Exec!Enter, Exec!End, Exec!Goto, Listed, Exec!HostInList, HostInList,
         Exec!ToLower, ToLower
<1>2. pc' = pc /\ call' = call /\ answer' = answer /\ Live' = Live
  BY DEF Enter, vars, handlerVars, storeVars, Live
<1>3. CallTypes'
  BY <1>1 DEF CallInv, CallTypes, Exec!Labels, Exec!Outcomes
<1>4. ASSUME NEW q \in Requests PROVE Handed(q)' /\ Progress(q)'
  <2>1. Handed(q) /\ Progress(q)
    BY DEF CallInv
  <2>2. Listed(q)' <=> Listed(q)
    BY <1>1 DEF Listed
  <2>3. CASE q # r
    <3>1. stage'[q] = stage[q] /\ outcome'[q] = outcome[q]
      BY <1>1, <2>3 DEF CallInv, CallTypes
    <3> QED BY <1>1, <1>2, <2>1, <2>2, <3>1 DEF Handed, Progress
  <2>4. CASE q = r
    <3>1. /\ stage'[r] \in {"resolve", "done"}
          /\ stage'[r] = "resolve" => outcome'[r] = "none" /\ Listed(r)
          /\ stage'[r] = "done" => outcome'[r] = "notAllowed" \/ Listed(r)
      BY <1>1, <2>1, <2>4 DEF CallInv, CallTypes, Progress
    <3>2. trail[r] = <<>>
      BY <1>1, <2>1, <2>4 DEF Progress
    <3> QED BY <1>1, <1>2, <2>1, <2>2, <2>4, <3>1, <3>2 DEF Handed, Progress
  <2> QED BY <2>3, <2>4
<1> QED BY <1>3, <1>4 DEF CallInv

Under == {"resolve", "build", "connect", "dial", "await", "read"}

(* What a step of a call under way does, as far as CallInv tells. *)
LEMMA GoMoves ==
    ASSUME CallInv, NEW r \in Requests, Go(r)
    PROVE  /\ stage[r] \in Under
           /\ \/ \E l \in Under : stage' = [stage EXCEPT ![r] = l] /\ outcome' = outcome
              \/ \E o \in Exec!Outcomes \ {"notAllowed", "rateLimited"} :
                    /\ stage' = [stage EXCEPT ![r] = "done"]
                    /\ outcome' = [outcome EXCEPT ![r] = o]
           /\ input' = input /\ UNCHANGED vars
<1> USE DEF Exec!Goto, Exec!End, Exec!Outcomes, Under
<1>1. UNCHANGED vars
  BY DEF Go
<1>2. CASE Exec!Resolve(r) \/ Exec!Build(r)
  BY <1>1, <1>2 DEF Exec!Resolve, Exec!Build
<1>3. CASE Exec!Reuse(r) \/ Exec!Dial(r)
  BY <1>1, <1>3 DEF Exec!Reuse, Exec!Dial
<1>4. CASE Exec!DialCheck(r) \/ Exec!Respond(r)
  BY <1>1, <1>4 DEF Exec!DialCheck, Exec!Respond
<1>5. CASE Exec!Redirect(r)
  BY <1>1, <1>5 DEF Exec!Redirect
<1>6. CASE Exec!Read(r)
  BY <1>1, <1>6 DEF Exec!Read
<1>7. CASE Exec!Timeout(r) \/ Exec!Disconnect(r)
  BY <1>1, <1>7 DEF Exec!Timeout, Exec!ClientTimeout, Exec!Disconnect, Exec!GiveUp
<1> QED BY <1>2, <1>3, <1>4, <1>5, <1>6, <1>7 DEF Go, Exec!Network

(* A call makes its requests one at a time, the first where it was told to. *)
LEMMA GoContacts ==
    ASSUME CallInv, NEW r \in Requests, Go(r)
    PROVE  \/ /\ trail' = trail /\ target' = target
              /\ stage'[r] \in {"await", "read"} => stage[r] = "await"
              /\ stage'[r] = "build" => stage[r] = "resolve"
              /\ stage'[r] # "resolve"
           \/ /\ stage[r] = "await" /\ stage'[r] \in {"connect", "done"} /\ trail' = trail
              /\ \E h : target' = [target EXCEPT ![r] = h]
           \/ /\ stage[r] \in {"connect", "dial"} /\ stage'[r] = "await" /\ target' = target
              /\ \E a : trail' = [trail EXCEPT ![r] =
                                    Append(@, [host |-> target[r], addr |-> a])]
<1> USE DEF Exec!Goto, Exec!End, CallInv, CallTypes
<1>1. CASE Exec!Resolve(r) \/ Exec!Build(r)
  BY <1>1 DEF Exec!Resolve, Exec!Build
<1>2. CASE Exec!Reuse(r) \/ Exec!Dial(r)
  BY <1>2 DEF Exec!Reuse, Exec!Dial, Exec!Visit
<1>3. CASE Exec!DialCheck(r) \/ Exec!Respond(r)
  BY <1>3 DEF Exec!DialCheck, Exec!Respond
<1>4. CASE Exec!Redirect(r)
  BY <1>4 DEF Exec!Redirect
<1>5. CASE Exec!Read(r)
  BY <1>5 DEF Exec!Read
<1>6. CASE Exec!Timeout(r) \/ Exec!Disconnect(r)
  BY <1>6 DEF Exec!Timeout, Exec!Disconnect, Exec!GiveUp
<1> QED BY <1>1, <1>2, <1>3, <1>4, <1>5, <1>6 DEF Go, Exec!Network

LEMMA CallGo == ASSUME GateInv, CallInv, NEW r \in Requests, Go(r) PROVE CallInv'
<1>1. /\ stage[r] \in Under
      /\ \/ \E l \in Under : stage' = [stage EXCEPT ![r] = l] /\ outcome' = outcome
         \/ \E o \in Exec!Outcomes \ {"notAllowed", "rateLimited"} :
               /\ stage' = [stage EXCEPT ![r] = "done"]
               /\ outcome' = [outcome EXCEPT ![r] = o]
      /\ input' = input /\ UNCHANGED vars
  BY GoMoves
<1>2. stage' \in [Requests -> Exec!Labels] /\ outcome' \in [Requests -> Exec!Outcomes \cup {"none"}]
  <2>1. stage \in [Requests -> Exec!Labels] /\ outcome \in [Requests -> Exec!Outcomes \cup {"none"}]
    BY DEF CallInv, CallTypes
  <2>2. Under \cup {"done"} \subseteq Exec!Labels
    BY DEF Under, Exec!Labels
  <2> QED BY <1>1, <2>1, <2>2
<1>3. \A q \in Requests \ {r} : stage'[q] = stage[q] /\ outcome'[q] = outcome[q]
  BY <1>1 DEF CallInv, CallTypes
<1>4. outcome[r] = "none"
  BY <1>1 DEF CallInv, Progress, Under
<1>5. /\ stage'[r] \in Under \cup {"done"} /\ outcome'[r] \notin {"notAllowed", "rateLimited"}
      /\ stage'[r] # "done" => outcome'[r] = "none"
  BY <1>1, <1>4 DEF CallInv, CallTypes, Under
<1>6. /\ DOMAIN target' = Requests /\ DOMAIN trail' = Requests
      /\ \A q \in Requests \ {r} : target'[q] = target[q] /\ trail'[q] = trail[q]
  BY GoContacts DEF CallInv, CallTypes
<1>7. IsSequence(trail'[r])
  <2>1. IsSequence(trail[r]) /\ r \in DOMAIN trail
    BY DEF CallInv, CallTypes
  <2>2. \A a : IsSequence(Append(trail[r], [host |-> target[r], addr |-> a]))
    BY <2>1, AppendSequence
  <2> QED BY <2>1, <2>2, GoContacts
<1>8. Progress(r)'
  <2>1. CASE /\ trail' = trail /\ target' = target
             /\ stage'[r] \in {"await", "read"} => stage[r] = "await"
             /\ stage'[r] = "build" => stage[r] = "resolve"
             /\ stage'[r] # "resolve"
    BY <1>1, <1>5, <2>1 DEF CallInv, Progress, Under
  <2>2. CASE stage[r] = "await" /\ stage'[r] \in {"connect", "done"} /\ trail' = trail
    BY <1>1, <1>5, <2>2 DEF CallInv, Progress, Under
  <2>3. ASSUME stage[r] \in {"connect", "dial"}, stage'[r] = "await", target' = target, NEW a,
               trail' = [trail EXCEPT ![r] = Append(@, [host |-> target[r], addr |-> a])]
        PROVE  Progress(r)'
    <3>1. trail'[r] = Append(trail[r], [host |-> target[r], addr |-> a])
      BY <2>3 DEF CallInv, CallTypes
    <3>2. /\ trail'[r] # <<>>
          /\ trail[r] # <<>> => trail'[r][1] = trail[r][1]
          /\ trail[r] = <<>> => trail'[r][1].host = target[r]
      BY <3>1, AppendSequence DEF CallInv, CallTypes
    <3>3. trail'[r][1].host = input[r].host
      BY <2>3, <3>2 DEF CallInv, Progress
    <3> QED BY <1>1, <1>5, <2>3, <3>2, <3>3 DEF Progress
  <2> QED BY <2>1, <2>2, <2>3, GoContacts
<1>9. CallTypes'
  BY <1>1, <1>2, <1>6, <1>7 DEF CallInv, CallTypes
<1>10. ASSUME NEW q \in Requests PROVE Handed(q)' /\ Progress(q)'
  <2>1. pc' = pc /\ call' = call /\ answer' = answer /\ Live' = Live
    BY <1>1 DEF vars, handlerVars, storeVars, Live
  <2>2. Listed(q)' <=> Listed(q)
    BY <1>1 DEF Listed
  <2>3. Handed(q) /\ Progress(q)
    BY DEF CallInv
  <2>4. CASE q # r
    BY <1>1, <1>3, <1>6, <2>1, <2>2, <2>3, <2>4 DEF Handed, Progress
  <2>5. CASE q = r
    <3>1. Listed(r)
      BY <1>1, <1>4, <2>3, <2>5 DEF Handed, Under
    <3> QED BY <1>1, <1>8, <2>1, <2>2, <2>3, <2>5, <3>1 DEF Handed, Under
  <2> QED BY <2>4, <2>5
<1> QED BY <1>9, <1>10 DEF CallInv

LEMMA CallNext == GateInv /\ CallInv /\ [ProxyNext]_proxyVars => CallInv'
<1> SUFFICES ASSUME GateInv, CallInv, [ProxyNext]_proxyVars PROVE CallInv'
  OBVIOUS
<1>1. CASE UNCHANGED <<stage, outcome, input, target, trail, vars>>
  <2>1. pc' = pc /\ call' = call /\ answer' = answer /\ Live' = Live
    BY <1>1 DEF vars, handlerVars, storeVars, Live
  <2>2. \A q \in Requests : Listed(q)' <=> Listed(q)
    BY <1>1 DEF Listed
  <2>3. \A q \in Requests : Handed(q)' /\ Progress(q)'
    BY <1>1, <2>1, <2>2 DEF CallInv, Handed, Progress
  <2>4. CallTypes'
    BY <1>1 DEF CallInv, CallTypes
  <2> QED BY <2>3, <2>4 DEF CallInv
<1>2. CASE Outside \/ UNCHANGED proxyVars
  BY <1>1, <1>2 DEF Outside, proxyVars, callVars, Exec!DnsChange, Exec!callVars
<1> QED BY <1>2, CallServe, CallHandOver, CallEnter, CallGo DEF ProxyNext

LEMMA CallAlways == ProxySpec => [](GateInv /\ CallInv)
<1> QED BY CallInit, CallNext, GateInvAlways, PTL DEF ProxySpec

(* Whatever is approved between the reading of the list and the call, the   *)
(* first host contacted is the one the request named, of an approved spec,  *)
(* and its document or an approval of it lists that host.                   *)
THEOREM ContactsAreVouched == ProxySpec => []ContactsVouched
<1>1. ASSUME GateInv, CallInv PROVE ContactsVouched
  <2> SUFFICES ASSUME NEW r \in Requests, trail[r] # <<>> PROVE ContactsVouched!(r)
    BY DEF ContactsVouched
  <2>1. Handed(r) /\ Progress(r) /\ ForwardFits(r)
    BY <1>1 DEF CallInv, GateInv, GrantInv
  <2>2. /\ stage[r] # "idle" /\ Listed(r)
        /\ trail[r][1].host = input[r].host
    BY <2>1 DEF Handed, Progress
  <2>3. /\ pc[r] = "done" /\ call[r].op = "proxy" /\ call[r].id \in Live
        /\ answer[r].status = "forwarded" /\ input[r].host = call[r].host
    BY <2>1, <2>2 DEF Handed
  <2>4. Granted(call[r].id) # {} /\ HostInList(call[r].host, VouchedHosts(call[r].id))
    BY <2>1, <2>3 DEF ForwardFits, Answered
  <2> QED BY <2>2, <2>3, <2>4 DEF VouchedHosts
<1> QED BY <1>1, CallAlways, PTL
------------------------------------------------------------------------------
(* The limiter in the server. *)

(* The limiter is asked about a host that requests may name. *)
LEMMA AskedOfTarget ==
    ASSUME CallInv, NEW r \in Requests, Enter(r)
    PROVE  input[r].host \in Targets
<1>1. stage[r] = "enter"
  BY DEF Enter, Ask, Exec!Enter
<1> QED BY <1>1 DEF CallInv, Handed, Inputs

LEMMA RateStep == ASSUME CallInv, [ProxyNext]_proxyVars PROVE [Rate!Next]_Rate!vars
<1>1. ASSUME NEW r \in Requests, Enter(r) PROVE Rate!Next \/ UNCHANGED rateVars
  BY <1>1, AskedOfTarget DEF Enter, Ask, Rate!Next
<1>2. ASSUME NEW r \in Requests, Serve(r) \/ HandOver(r) \/ Go(r) PROVE UNCHANGED rateVars
  BY <1>2 DEF Serve, HandOver, Go
<1>3. UNCHANGED rateVars => UNCHANGED Rate!vars
  BY DEF rateVars, Rate!vars
<1>4. CASE Outside
  BY <1>4, <1>3 DEF Outside, Rate!Next
<1>5. CASE UNCHANGED proxyVars
  BY <1>5, <1>3 DEF proxyVars
<1> QED BY <1>1, <1>2, <1>4, <1>5, <1>3 DEF ProxyNext, Outside, rateVars, proxyVars

LEMMA ExecStep ==
    ASSUME GateInv, [ProxyNext]_proxyVars PROVE [Exec!Next]_Exec!vars
<1>1. ASSUME NEW r \in Requests, HandOver(r) PROVE Exec!Next
  BY <1>1, HandedOver DEF HandOver, Exec!Next
<1>2. ASSUME NEW r \in Requests, Enter(r) \/ Go(r) PROVE Exec!Next
  BY <1>2 DEF Enter, Ask, Go, Exec!Next, Exec!Own
<1>3. ASSUME NEW r \in Requests, Serve(r) PROVE UNCHANGED callVars
  BY <1>3 DEF Serve
<1>4. UNCHANGED callVars => UNCHANGED Exec!vars
  BY DEF callVars, Exec!vars, Exec!netVars, Exec!callVars
<1>5. CASE Outside
  BY <1>5, <1>4 DEF Outside, Exec!Next
<1>6. CASE UNCHANGED proxyVars
  BY <1>6, <1>4 DEF proxyVars
<1> QED BY <1>1, <1>2, <1>3, <1>5, <1>6, <1>4 DEF ProxyNext, Outside

(* The server's calls are Executor's and its limiter is Limiter's: with     *)
(* ProxyUsesGate, what is proved of the parts is true of the whole.         *)
THEOREM ProxyUsesParts == ProxySpec => UsesParts
<1>1. ProxyInit => Exec!Init /\ Rate!Init
  BY DEF ProxyInit
<1>2. GateInv /\ CallInv /\ [ProxyNext]_proxyVars
          => [Exec!Next]_Exec!vars /\ [Rate!Next]_Rate!vars
  BY ExecStep, RateStep
<1>3. ProxySpec => Exec!Spec /\ Rate!Spec
  BY <1>1, <1>2, CallAlways, PTL DEF ProxySpec, Exec!Spec, Rate!Spec
<1> QED BY <1>3, ProxyUsesGate DEF UsesParts

(* The calls that went on from the limiter are the tokens it gave.          *)
Tokens == \A h \in Targets : IsFiniteSet(Passed(h)) /\ Cardinality(Passed(h)) = Len(grants[h])

GrantTypes == grants \in [Targets -> Seq(Nat)] /\ now \in Nat

LEMMA PassedEnter ==
    ASSUME GateInv, CallInv, GrantTypes, Tokens, NEW r \in Requests, Enter(r)
    PROVE  Tokens'
<1> DEFINE k == input[r].host
<1>1. k \in Targets /\ stage[r] = "enter" /\ input' = input
  BY AskedOfTarget DEF Enter, Ask, Exec!Enter
<1>2. \A h \in Targets : r \notin Passed(h)
  BY <1>1 DEF Passed
<1>3. \A q \in Requests \ {r} : stage'[q] = stage[q] /\ outcome'[q] = outcome[q]
  BY DEF Enter, Ask, Exec!Enter, Exec!Goto, Exec!End, CallInv, CallTypes
<1>4. \A h \in Targets : Passed(h)' \ {r} = Passed(h)
  BY <1>1, <1>2, <1>3 DEF Passed
<1>5. stage'[r] = "resolve" => outcome'[r] = "none"
  BY <1>1 DEF Enter, Ask, Exec!Enter, Exec!Goto, Exec!End, CallInv, CallTypes, Progress
<1>6. stage'[r] # "resolve" => outcome'[r] \in {"rateLimited", "notAllowed"}
  BY <1>1 DEF Enter, Ask, Exec!Enter, Exec!Goto, Exec!End, CallInv, CallTypes
<1>7. CASE stage'[r] = "resolve"
  <2>1. Rate!Allow(k) /\ allowed'[2]
    BY <1>1, <1>7 DEF Enter, Ask, Exec!Enter, Exec!Goto, Exec!End, CallInv, CallTypes, Listed,
                      HostInList, ToLower, Exec!HostInList, Exec!ToLower
  <2>2. grants' = [grants EXCEPT ![k] = Append(@, now)]
    BY <2>1 DEF Rate!Allow
  <2>3. Passed(k)' = Passed(k) \cup {r} /\ \A h \in Targets \ {k} : Passed(h)' = Passed(h)
    BY <1>1, <1>2, <1>4, <1>5, <1>7 DEF Passed
  <2>4. /\ Len(grants'[k]) = Len(grants[k]) + 1
        /\ \A h \in Targets \ {k} : grants'[h] = grants[h]
    BY <1>1, <2>2 DEF GrantTypes
  <2>5. /\ IsFiniteSet(Passed(k) \cup {r})
        /\ Cardinality(Passed(k) \cup {r}) = Cardinality(Passed(k)) + 1
    BY <1>1, <1>2, FS_AddElement DEF Tokens
  <2> QED BY <1>1, <2>3, <2>4, <2>5 DEF Tokens
<1>8. CASE stage'[r] # "resolve"
  <2>1. grants' = grants
    <3>1. CASE Listed(r)
      <4>1. Rate!Allow(k) /\ ~allowed'[2]
        BY <1>8, <3>1 DEF Enter, Ask
      <4> QED BY <4>1 DEF Rate!Allow
    <3>2. CASE ~Listed(r)
      BY <3>2 DEF Enter, Ask, rateVars
    <3> QED BY <3>1, <3>2
  <2>2. \A h \in Targets : Passed(h)' = Passed(h)
    BY <1>2, <1>4, <1>6, <1>8 DEF Passed
  <2> QED BY <2>1, <2>2 DEF Tokens
<1> QED BY <1>7, <1>8

LEMMA TokensNext ==
    GateInv /\ CallInv /\ GrantTypes /\ Tokens /\ [ProxyNext]_proxyVars => Tokens'
<1> SUFFICES ASSUME GateInv, CallInv, GrantTypes, Tokens, [ProxyNext]_proxyVars PROVE Tokens'
  OBVIOUS
<1>1. CASE UNCHANGED <<stage, outcome, input, grants>>
  BY <1>1 DEF Tokens, Passed
<1>2. ASSUME NEW r \in Requests, HandOver(r) PROVE Tokens'
  <2>1. /\ stage[r] = "idle" /\ stage' = [stage EXCEPT ![r] = "enter"]
        /\ outcome' = outcome /\ grants' = grants
        /\ \A q \in Requests \ {r} : input'[q] = input[q]
    BY <1>2 DEF HandOver, Exec!Begin, Exec!Goto, CallInv, CallTypes, rateVars
  <2>2. \A h \in Targets : Passed(h)' = Passed(h)
    BY <2>1 DEF Passed, CallInv, CallTypes
  <2> QED BY <2>1, <2>2 DEF Tokens
<1>3. ASSUME NEW r \in Requests, Go(r) PROVE Tokens'
  <2>1. grants' = grants
    BY <1>3 DEF Go, rateVars
  <2>2. \A h \in Targets : Passed(h)' = Passed(h)
    <3>1. /\ stage[r] \in Under /\ outcome[r] = "none" /\ input' = input
      BY <1>3, GoMoves DEF CallInv, Progress, Under
    <3>2. /\ stage'[r] \notin {"idle", "enter"}
          /\ outcome'[r] \notin {"notAllowed", "rateLimited"}
          /\ \A q \in Requests \ {r} : stage'[q] = stage[q] /\ outcome'[q] = outcome[q]
      BY <1>3, <3>1, GoMoves DEF CallInv, CallTypes, Under
    <3> QED BY <3>1, <3>2 DEF Passed, Under
  <2> QED BY <2>1, <2>2 DEF Tokens
<1>4. CASE Outside \/ UNCHANGED proxyVars
  BY <1>1, <1>4 DEF Outside, proxyVars, callVars, rateVars, Exec!DnsChange, Exec!callVars, Rate!Tick
<1>5. ASSUME NEW r \in Requests, Serve(r) PROVE Tokens'
  BY <1>1, <1>5 DEF Serve, callVars, rateVars
<1> QED BY <1>2, <1>3, <1>4, <1>5, PassedEnter DEF ProxyNext

(* What the bucket of a host still holds, with the tokens it gave, was there *)
(* at the start or has been earned since.                                    *)
RateTypes ==
    /\ now \in 0..MaxTime
    /\ buckets \in [Targets -> Rate!Bucket \cup {NoBucket}]
    /\ \A h \in Targets : buckets[h] # NoBucket => buckets[h].last <= now
    /\ grants \in [Targets -> Seq(Nat)]

Earned == \A h \in Targets :
             Rate!Level(h) + Len(grants[h]) * TokenTime <= Rate!Capacity + now

RateInv == RateTypes /\ Earned

LEMMA RateCapacity == Rate!Capacity \in Nat /\ TokenTime <= Rate!Capacity
<1>1. \A b, t \in Nat : b # 0 => b * t \in Nat /\ t <= b * t
  OBVIOUS
<1> QED BY <1>1, ProxyAssumption DEF Rate!Capacity

LEMMA RateLevel == RateTypes => \A h \in Targets : Rate!Level(h) \in 0..Rate!Capacity
<1> SUFFICES ASSUME RateTypes, NEW h \in Targets PROVE Rate!Level(h) \in 0..Rate!Capacity
  OBVIOUS
<1>1. CASE buckets[h] = NoBucket
  BY <1>1, RateCapacity DEF Rate!Level, Rate!Refilled, Rate!Found, RateTypes
<1>2. CASE buckets[h] # NoBucket
  <2>1. buckets[h] \in Rate!Bucket
    BY <1>2 DEF RateTypes
  <2>2. buckets[h].tokens \in Nat /\ buckets[h].last \in Nat /\ buckets[h].last <= now
    BY <1>2, <2>1, RateCapacity DEF RateTypes, Rate!Bucket
  <2> QED BY <1>2, <2>2, RateCapacity, ProxyAssumption
          DEF Rate!Level, Rate!Refilled, Rate!Found, RateTypes
<1> QED BY <1>1, <1>2

LEMMA RateLevelAfter ==
    (RateTypes => \A h \in Targets : Rate!Level(h) \in 0..Rate!Capacity)'
BY RateLevel, PTL

LEMMA RateTick == ASSUME RateInv, Rate!Tick PROVE RateInv'
<1> USE DEF RateInv
<1>1. now' = now + 1 /\ buckets' = buckets /\ grants' = grants /\ now \in Nat /\ now' \in 0..MaxTime
  BY ProxyAssumption DEF Rate!Tick, RateTypes
<1>2. RateTypes'
  <2>1. \A h \in Targets : buckets[h] # NoBucket => buckets[h].last \in Nat
    BY DEF RateTypes, Rate!Bucket
  <2> QED BY <1>1, <2>1 DEF RateTypes
<1>3. ASSUME NEW h \in Targets PROVE Rate!Level(h)' <= Rate!Level(h) + 1
  <2>1. CASE buckets[h] = NoBucket
    BY <1>1, <2>1, RateCapacity DEF Rate!Level, Rate!Refilled, Rate!Found
  <2>2. CASE buckets[h] # NoBucket
    <3>1. buckets[h].tokens \in Nat /\ buckets[h].last \in Nat
      BY <2>2, RateCapacity DEF RateTypes, Rate!Bucket
    <3> QED BY <1>1, <2>2, <3>1, RateCapacity DEF Rate!Level, Rate!Refilled, Rate!Found
  <2> QED BY <2>1, <2>2
<1>4. ASSUME NEW h \in Targets
      PROVE  (Rate!Level(h) + Len(grants[h]) * TokenTime <= Rate!Capacity + now)'
  <2>1. Rate!Level(h) \in Nat /\ Rate!Level(h)' \in Nat
    BY <1>2, RateLevel, RateLevelAfter, RateCapacity
  <2>2. Len(grants[h]) * TokenTime \in Nat
    BY ProxyAssumption DEF RateTypes
  <2>3. Rate!Level(h) + Len(grants[h]) * TokenTime <= Rate!Capacity + now
    BY DEF Earned
  <2> QED BY <1>1, <1>3, <2>1, <2>2, <2>3, RateCapacity
<1> QED BY <1>2, <1>4 DEF Earned

LEMMA RateAllow ==
    ASSUME RateInv, NEW k \in Targets, Rate!Allow(k) PROVE RateInv'
<1> USE DEF RateInv
<1> DEFINE left == Rate!Spent(Rate!Level(k))
<1>1. Rate!Level(k) \in 0..Rate!Capacity
  BY RateLevel
<1>2. /\ left \in 0..Rate!Capacity
      /\ left = IF Rate!Affords(Rate!Level(k)) THEN Rate!Level(k) - TokenTime ELSE Rate!Level(k)
  BY <1>1, RateCapacity, ProxyAssumption DEF Rate!Spent, Rate!Affords
<1>3. /\ now' = now /\ now \in 0..MaxTime
      /\ buckets' = [buckets EXCEPT ![k] = [tokens |-> left, last |-> now]]
      /\ grants' = IF Rate!Affords(Rate!Level(k))
                   THEN [grants EXCEPT ![k] = Append(@, now)] ELSE grants
  BY DEF Rate!Allow, RateTypes
<1> HIDE DEF left
<1>4. [tokens |-> left, last |-> now] \in Rate!Bucket
  BY <1>2, <1>3 DEF Rate!Bucket
<1>5. now \in Nat
  BY <1>3, ProxyAssumption
<1>6. grants' \in [Targets -> Seq(Nat)]
  BY <1>3, <1>5 DEF RateTypes
<1>7. RateTypes'
  BY <1>3, <1>4, <1>5, <1>6 DEF RateTypes
<1>8. Rate!Level(k)' = left
  <2>1. buckets'[k] = [tokens |-> left, last |-> now] /\ buckets'[k] # NoBucket
    BY <1>3, <1>4, ProxyAssumption DEF RateTypes
  <2> QED BY <1>2, <1>3, <1>5, <2>1, RateCapacity DEF Rate!Level, Rate!Refilled, Rate!Found
<1>9. ASSUME NEW h \in Targets
      PROVE  (Rate!Level(h) + Len(grants[h]) * TokenTime <= Rate!Capacity + now)'
  <2>1. Rate!Level(h) + Len(grants[h]) * TokenTime <= Rate!Capacity + now
    BY DEF Earned
  <2>2. CASE h # k
    <3>1. buckets'[h] = buckets[h] /\ grants'[h] = grants[h]
      BY <1>3, <2>2 DEF RateTypes
    <3>2. Rate!Level(h)' = Rate!Level(h)
      BY <1>3, <3>1 DEF Rate!Level, Rate!Refilled, Rate!Found
    <3> QED BY <1>3, <2>1, <3>1, <3>2 DEF Rate!Capacity
  <2>3. CASE h = k
    <3>1. \A n, t \in Nat : n * t \in Nat /\ (n + 1) * t = n * t + t
      OBVIOUS
    <3>2. Len(grants[k]) \in Nat /\ TokenTime \in Nat
      BY ProxyAssumption DEF RateTypes
    <3>3. Len(grants'[k]) = IF Rate!Affords(Rate!Level(k)) THEN Len(grants[k]) + 1
                            ELSE Len(grants[k])
      BY <1>3, <1>5 DEF RateTypes
    <3>4. left + Len(grants'[k]) * TokenTime = Rate!Level(k) + Len(grants[k]) * TokenTime
      <4>1. CASE Rate!Affords(Rate!Level(k))
        <5>1. Len(grants'[k]) * TokenTime = Len(grants[k]) * TokenTime + TokenTime
          BY <3>1, <3>2, <3>3, <4>1
        <5>2. Len(grants[k]) * TokenTime \in Nat
          BY <3>1, <3>2
        <5> QED BY <1>1, <1>2, <3>2, <4>1, <5>1, <5>2, RateCapacity
      <4>2. CASE ~Rate!Affords(Rate!Level(k))
        BY <1>2, <3>3, <4>2
      <4> QED BY <4>1, <4>2
    <3> QED BY <1>3, <1>8, <2>1, <2>3, <3>4 DEF Rate!Capacity
  <2> QED BY <2>2, <2>3
<1> QED BY <1>7, <1>9 DEF Earned

LEMMA RateInit == ProxyInit => RateInv
<1> SUFFICES ASSUME ProxyInit PROVE RateInv
  OBVIOUS
<1>1. /\ now = 0 /\ buckets = [h \in Targets |-> NoBucket]
      /\ grants = [h \in Targets |-> <<>>]
  BY DEF ProxyInit, Rate!Init
<1>2. RateTypes
  BY <1>1, ProxyAssumption DEF RateTypes
<1>3. \A h \in Targets : Rate!Level(h) \in 0..Rate!Capacity /\ Len(grants[h]) = 0
  BY <1>1, <1>2, RateLevel
<1> QED BY <1>1, <1>2, <1>3, RateCapacity, ProxyAssumption DEF RateInv, Earned

LEMMA RateNext == RateInv /\ [Rate!Next]_Rate!vars => RateInv'
<1> SUFFICES ASSUME RateInv, [Rate!Next]_Rate!vars PROVE RateInv'
  OBVIOUS
<1>1. CASE UNCHANGED Rate!vars
  <2>1. now' = now /\ buckets' = buckets /\ grants' = grants
    BY <1>1 DEF Rate!vars
  <2>2. \A h \in Targets : Rate!Level(h)' = Rate!Level(h)
    BY <2>1 DEF Rate!Level, Rate!Refilled, Rate!Found
  <2> QED BY <2>1, <2>2 DEF RateInv, RateTypes, Earned, Rate!Capacity
<1> QED BY <1>1, RateTick, RateAllow DEF Rate!Next

ServerInv == GateInv /\ CallInv /\ RateInv /\ Tokens

LEMMA ServerAlways == ProxySpec => []ServerInv
<1>1. ProxyInit => Tokens
  <2> SUFFICES ASSUME ProxyInit PROVE Tokens
    OBVIOUS
  <2>1. \A h \in Targets : Passed(h) = {} /\ grants[h] = <<>>
    BY DEF ProxyInit, Exec!Init, Rate!Init, Passed
  <2>2. IsFiniteSet({}) /\ Cardinality({}) = 0 /\ Len(<<>>) = 0
    BY FS_EmptySet
  <2> QED BY <2>1, <2>2 DEF Tokens
<1>2. RateInv => GrantTypes
  BY ProxyAssumption DEF RateInv, RateTypes, GrantTypes
<1>3. GateInv /\ CallInv /\ RateInv /\ Tokens /\ [ProxyNext]_proxyVars => RateInv' /\ Tokens'
  BY <1>2, RateStep, RateNext, TokensNext
<1>4. GateInv /\ CallInv /\ RateInv /\ Tokens => ServerInv
  BY DEF ServerInv
<1> QED BY <1>1, <1>3, <1>4, RateInit, CallAlways, PTL DEF ProxySpec

(* Every call that goes on has its own token, and no token is spent on a    *)
(* call the allowlist refuses, in whatever order handlers reach the limiter.*)
THEOREM EveryCallTakesItsToken == ProxySpec => []CallsTakeTokens
<1>1. ServerInv => CallsTakeTokens
  BY DEF ServerInv, Tokens, CallsTakeTokens
<1> QED BY <1>1, ServerAlways, PTL

(* However handlers, approvals and calls interleave, the calls that reach a *)
(* server under one host keep to the burst and what has been earned since.  *)
THEOREM ServersReachedWithinRate == ProxySpec => []ReachedWithinRate
<1>1. ASSUME ServerInv, NEW h \in Targets
      PROVE  Cardinality(Reached(h)) * TokenTime <= Rate!Capacity + now
  <2> USE DEF ServerInv
  <2>1. Reached(h) \subseteq Passed(h)
    BY <1>1 DEF CallInv, Progress, Reached, Passed
  <2>2. IsFiniteSet(Passed(h)) /\ Cardinality(Passed(h)) = Len(grants[h])
    BY <1>1 DEF Tokens
  <2>3. Cardinality(Reached(h)) \in Nat /\ Cardinality(Reached(h)) <= Cardinality(Passed(h))
    BY <2>1, <2>2, FS_Subset, FS_CardinalityType
  <2>4. Rate!Level(h) \in Nat /\ Rate!Capacity \in Nat
    BY <1>1, RateLevel, RateCapacity DEF RateInv
  <2>5. Rate!Level(h) + Len(grants[h]) * TokenTime <= Rate!Capacity + now
    BY <1>1 DEF RateInv, Earned
  <2>6. Len(grants[h]) \in Nat /\ now \in Nat /\ TokenTime \in Nat
    BY <1>1, ProxyAssumption DEF RateInv, RateTypes
  <2>7. \A m, n, t \in Nat : m <= n => m * t <= n * t /\ m * t \in Nat /\ n * t \in Nat
    OBVIOUS
  <2> QED BY <2>2, <2>3, <2>4, <2>5, <2>6, <2>7
<1>2. ServerInv => ReachedWithinRate
  BY <1>1 DEF ReachedWithinRate
<1> QED BY <1>2, ServerAlways, PTL
===============================================================================
