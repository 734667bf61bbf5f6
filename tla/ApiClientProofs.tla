---------------------------- MODULE ApiClientProofs ----------------------------
(***************************************************************************)
(* Theorems about ApiClient for any number of specs, URLs, approvals that   *)
(* are awaited at once and clicks.                                          *)
(***************************************************************************)
EXTENDS ApiClient, SequenceTheorems, FiniteSetTheorems, TLAPS

RequestRecord == [url : Urls, spec : Specs \cup {None}, from : Urls, approved : BOOLEAN,
                  by : {"client", "explorer"}]

Handler == [spec : Specs, url : Urls, alive : BOOLEAN]

(* The history holds what was sent. *)
HistorySent == \A k \in 1..Len(history) : history[k].request \in 1..sent

(* A dialog was opened by a click on a URL. *)
DialogAsks == dialog => asked \in Urls
------------------------------------------------------------------------------
(* The service. *)

HistoryEntry == [id : Nat, request : Service!Sends, response : Service!Sends]

LEMMA Prepended ==
    ASSUME NEW S, NEW e \in S, NEW s \in Seq(S)
    PROVE  /\ <<e>> \o s \in Seq(S)
           /\ Len(s) \in Nat /\ Len(<<e>> \o s) = Len(s) + 1
           /\ (<<e>> \o s)[1] = e
           /\ \A k \in 2..(Len(s) + 1) : k - 1 \in 1..Len(s) /\ (<<e>> \o s)[k] = s[k - 1]
<1>1. <<e>> \in Seq(S) /\ Len(<<e>>) = 1 /\ <<e>>[1] = e
  OBVIOUS
<1>2. Len(s) \in Nat
  BY LenProperties
<1> QED BY <1>1, <1>2, ConcatProperties

LEMMA ServiceInit == ASSUME Service!Init PROVE Service!TypeOK
<1>1. history \in Seq(HistoryEntry)
  BY EmptySeq DEF Service!Init
<1>2. \A n \in Service!Sends : flight[n] = "unsent" /\ (n > sent)
  BY DEF Service!Init, Service!Sends
<1>3. flight \in [Service!Sends -> Service!Flights]
  BY DEF Service!Init, Service!Flights
<1>4. sent \in 0..MaxSends /\ lastResponse \in 0..MaxSends
  BY ClientAssumption DEF Service!Init
<1>5. \A n \in Service!Sends : flight[n] = "unsent" <=> n > sent
  BY <1>2
<1>6. loading \in BOOLEAN /\ error \in BOOLEAN
  BY DEF Service!Init
<1>7. selected \in Nat /\ nextId \in Nat \ {0}
  BY DEF Service!Init
<1> QED BY <1>1, <1>3, <1>4, <1>5, <1>6, <1>7 DEF Service!TypeOK, HistoryEntry

LEMMA ServiceNext == ASSUME Service!TypeOK, Service!Next PROVE Service!TypeOK'
<1> USE ClientAssumption DEF Service!Sends, Service!Flights
<1>1. CASE Service!Send
  <2>1. sent' \in Service!Sends /\ flight' = [flight EXCEPT ![sent + 1] = "out"]
    BY <1>1 DEF Service!Send, Service!TypeOK
  <2>2. \A n \in Service!Sends : flight'[n] = "unsent" <=> n > sent'
    BY <1>1, <2>1 DEF Service!Send, Service!TypeOK
  <2>3. flight' \in [Service!Sends -> Service!Flights]
    BY <2>1 DEF Service!TypeOK
  <2>4. /\ loading' \in BOOLEAN /\ error' \in BOOLEAN
        /\ UNCHANGED <<lastResponse, history, selected, nextId>>
    BY <1>1 DEF Service!Send
  <2> QED BY <2>1, <2>2, <2>3, <2>4 DEF Service!TypeOK
<1>2. ASSUME NEW n \in Service!Sends, Service!Finish(n) PROVE Service!TypeOK'
  <2>1. Service!Entry(n) \in HistoryEntry /\ history \in Seq(HistoryEntry)
    BY DEF Service!Entry, HistoryEntry, Service!TypeOK
  <2>2. history' \in Seq(HistoryEntry)
    BY <1>2, <2>1, Prepended DEF Service!Finish, Service!Record
  <2>3. flight' \in [Service!Sends -> Service!Flights]
        /\ \A i \in Service!Sends : flight'[i] = "unsent" <=> i > sent'
    BY <1>2 DEF Service!Finish, Service!TypeOK
  <2>4. loading' \in BOOLEAN /\ error' = error
    BY <1>2 DEF Service!Finish, Service!StopLoading
  <2>5. sent' = sent /\ lastResponse' \in 0..MaxSends
    BY <1>2 DEF Service!Finish
  <2>6. nextId' \in Nat \ {0} /\ selected' = selected
    BY <1>2 DEF Service!Finish, Service!TypeOK
  <2> QED BY <2>2, <2>3, <2>4, <2>5, <2>6 DEF Service!TypeOK, HistoryEntry
<1>3. ASSUME NEW n \in Service!Sends, Service!Answer(n) \/ Service!Fail(n) PROVE Service!TypeOK'
  BY <1>3 DEF Service!Answer, Service!Fail, Service!StopLoading, Service!TypeOK
<1>4. ASSUME NEW k \in Service!Sends, Service!SelectHistoryEntry(k) PROVE Service!TypeOK'
  <2>1. history \in Seq(HistoryEntry)
    BY DEF HistoryEntry, Service!TypeOK
  <2>2. history[k] \in HistoryEntry
    BY <1>4, <2>1, ElementOfSeq DEF Service!SelectHistoryEntry
  <2>3. lastResponse' \in 0..MaxSends
    BY <1>4, <2>2 DEF Service!SelectHistoryEntry, HistoryEntry
  <2>4. selected' = k /\ UNCHANGED <<sent, flight, loading, error, history, nextId>>
    BY <1>4 DEF Service!SelectHistoryEntry
  <2>5. selected' \in Nat
    BY <2>4 DEF Service!Sends
  <2> QED BY <2>3, <2>4, <2>5 DEF Service!TypeOK
<1>5. CASE Service!ClearHistory
  <2>1. history' \in Seq(HistoryEntry)
    BY <1>5, EmptySeq DEF Service!ClearHistory
  <2> QED BY <1>5, <2>1 DEF Service!ClearHistory, Service!DropSelection, Service!TypeOK, HistoryEntry
<1>6. CASE Service!ClearLastResponse
  BY <1>6 DEF Service!ClearLastResponse, Service!TypeOK
<1> QED BY <1>1, <1>2, <1>3, <1>4, <1>5, <1>6 DEF Service!Next

(* The requests of the page and those of the service are the same. *)
ServiceFits ==
    /\ Service!TypeOK
    /\ requests \in Seq(RequestRecord) /\ Len(requests) = sent
    /\ HistorySent

LEMMA SubmitEffect ==
    ASSUME ServiceFits, NEW shown, NEW u \in Urls, NEW s \in Specs \cup {None},
           NEW from \in Urls, NEW by \in {"client", "explorer"},
           Submit(shown, u, s, from, by)
    PROVE  /\ ServiceFits'
           /\ sent' = sent + 1
<1> DEFINE r == [url |-> u, spec |-> s, from |-> from,
                 approved |-> s = None \/ shown[s] = "approved", by |-> by]
<1>1. Service!Send /\ requests' = Append(requests, r)
  BY DEF Submit
<1>2. r \in RequestRecord
  BY DEF RequestRecord
<1>3. sent' = sent + 1 /\ history' = history /\ sent \in Nat
  BY <1>1 DEF Service!Send, ServiceFits, Service!TypeOK
<1>4. Service!TypeOK'
  BY <1>1, ServiceNext DEF Service!Next, ServiceFits
<1>5. requests' \in Seq(RequestRecord) /\ Len(requests') = sent'
  BY <1>1, <1>2, <1>3, AppendProperties DEF ServiceFits
<1>6. HistorySent'
  BY <1>3 DEF ServiceFits, HistorySent
<1> QED BY <1>1, <1>3, <1>4, <1>5, <1>6 DEF ServiceFits

(* The service's own steps, and what a list of the history or a pane does. *)
LEMMA ServiceStepFits ==
    ASSUME ServiceFits, UNCHANGED requests,
           \/ \E n \in Service!Sends : Service!Answer(n) \/ Service!Finish(n) \/ Service!Fail(n)
           \/ \E k \in Service!Sends : Service!SelectHistoryEntry(k)
           \/ Service!ClearHistory
           \/ Service!ClearLastResponse
    PROVE  ServiceFits' /\ UNCHANGED sent
<1>1. Service!TypeOK'
  BY ServiceNext DEF ServiceFits, Service!Next
<1>2. UNCHANGED sent
  BY DEF Service!Answer, Service!Finish, Service!Fail, Service!SelectHistoryEntry,
         Service!ClearHistory, Service!ClearLastResponse
<1>3. HistorySent'
  <2>1. CASE UNCHANGED history
    BY <1>2, <2>1 DEF ServiceFits, HistorySent
  <2>2. CASE Service!ClearHistory
    BY <2>2 DEF Service!ClearHistory, HistorySent
  <2>3. ASSUME NEW n \in Service!Sends, Service!Finish(n) PROVE HistorySent'
    <3>1. flight[n] = "answered" /\ history' = <<Service!Entry(n)>> \o history
      BY <2>3 DEF Service!Finish, Service!Record
    <3>2. n \in 1..sent
      BY <3>1, ClientAssumption DEF ServiceFits, Service!TypeOK, Service!Sends
    <3>3. Service!Entry(n).request = n
      BY DEF Service!Entry
    <3>4. Service!Entry(n) \in [id : Nat, request : Service!Sends, response : Service!Sends]
      BY DEF Service!Entry, ServiceFits, Service!TypeOK
    <3>5. history \in Seq([id : Nat, request : Service!Sends, response : Service!Sends])
      BY DEF ServiceFits, Service!TypeOK
    <3>6. /\ Len(history') = Len(history) + 1 /\ Len(history) \in Nat
          /\ history'[1] = Service!Entry(n)
          /\ \A k \in 2..(Len(history) + 1) :
                k - 1 \in 1..Len(history) /\ history'[k] = history[k - 1]
      BY <3>1, <3>4, <3>5, Prepended
    <3>7. \A k \in 1..Len(history') : k = 1 \/ k \in 2..(Len(history) + 1)
      BY <3>6
    <3> QED BY <1>2, <3>2, <3>3, <3>6, <3>7 DEF ServiceFits, HistorySent
  <2> QED
    BY <2>1, <2>2, <2>3 DEF Service!Answer, Service!Fail, Service!SelectHistoryEntry,
       Service!ClearLastResponse
<1> QED BY <1>1, <1>2, <1>3 DEF ServiceFits
------------------------------------------------------------------------------
(* The types. *)

Base == /\ ServiceFits
        /\ page \in {"client", "explorer"}
        /\ tab \in [Specs -> {"open", "approved", "closed"}]
        /\ url \in Urls \cup {None}
        /\ spec \in Specs \cup {None}
        /\ urlError \in BOOLEAN
        /\ dialog \in BOOLEAN
        /\ asked \in Urls \cup {None}
        /\ DialogAsks
        /\ waiting \in [Approvals -> {None} \cup Handler]
        /\ clicks \in 0..MaxClicks

LEMMA BaseInit == Init => Base
<1> SUFFICES ASSUME Init PROVE Base
  OBVIOUS
<1>3. Service!TypeOK
  BY ServiceInit DEF Init
<1>4. sent = 0 /\ history = <<>> /\ requests = <<>>
  BY DEF Init, Service!Init
<1>5. ServiceFits
  BY <1>3, <1>4, EmptySeq DEF ServiceFits, HistorySent
<1>6. waiting \in [Approvals -> {None} \cup Handler]
  BY DEF Init
<1>7. clicks \in 0..MaxClicks
  BY ClientAssumption DEF Init
<1>8. /\ tab \in [Specs -> {"open", "approved", "closed"}]
      /\ page \in {"client", "explorer"} /\ urlError \in BOOLEAN /\ dialog \in BOOLEAN
      /\ url = None /\ spec = None /\ asked = None /\ DialogAsks
  BY DEF Init, DialogAsks
<1> QED BY <1>5, <1>6, <1>7, <1>8 DEF Base

(* What is sent when a handler goes on, whichever way it takes. *)
LEMMA SendRequestEffect ==
    ASSUME Base, NEW shown, NEW alive \in BOOLEAN, NEW from \in Urls,
           SendRequest(shown, alive, from)
    PROVE  /\ ServiceFits'
           /\ urlError' \in BOOLEAN /\ dialog' \in BOOLEAN
           /\ asked' \in Urls \cup {None} /\ DialogAsks'
           /\ sent' \in {sent, sent + 1}
           /\ sent' = sent + 1 => dialog' = dialog
<1>1. CASE SendForm(shown, alive, from)
  <2>1. SelectedTab(shown) \in Specs \cup {None}
    BY DEF Base, SelectedTab
  <2>2. ServiceFits' /\ sent' = sent + 1
    BY <1>1, <2>1, SubmitEffect DEF Base, SendForm
  <2> QED BY <1>1, <2>2 DEF Base, SendForm, DialogAsks
<1>2. CASE SendNothing \/ SendInvalid(alive) \/ AskApproval(shown, alive, from)
  <2>1. UNCHANGED sendVars
    BY <1>2 DEF SendNothing, SendInvalid, AskApproval, StopAtDialog
  <2>2. ServiceFits' /\ sent' = sent
    BY <2>1 DEF Base, sendVars, ServiceFits, HistorySent, Service!TypeOK
  <2>3. sent # sent + 1
    BY DEF Base, ServiceFits, Service!TypeOK
  <2> QED BY <1>2, <2>2, <2>3
          DEF Base, SendNothing, SendInvalid, AskApproval, uiVars, DialogAsks
<1> QED BY <1>1, <1>2 DEF SendRequest

LEMMA Untouched == ASSUME ServiceFits, UNCHANGED sendVars PROVE ServiceFits' /\ UNCHANGED sent
BY DEF sendVars, ServiceFits, HistorySent, Service!TypeOK

(* What the user does in the form, the dialog and the Explorer. *)
LEMMA BaseForm ==
    ASSUME Base,
           \/ \E u \in Urls : TypeUrl(u)
           \/ \E s \in Specs : LoadEndpoint(s) \/ ApproveTab(s) \/ CloseTab(s)
           \/ Cancel \/ ToExplorer \/ ToClient
           \/ \E k \in Approvals : Confirm(k)
    PROVE  Base' /\ UNCHANGED sent
<1>1. UNCHANGED sendVars
  BY DEF TypeUrl, LoadEndpoint, ApproveTab, CloseTab, Cancel, ToExplorer, ToClient, Confirm
<1>2. ServiceFits' /\ UNCHANGED sent
  BY <1>1, Untouched DEF Base
<1>3. ASSUME NEW u \in Urls, TypeUrl(u) PROVE Base'
  BY <1>2, <1>3 DEF Base, TypeUrl, uiVars, DialogAsks
<1>4. ASSUME NEW s \in Specs, LoadEndpoint(s) \/ ApproveTab(s) \/ CloseTab(s) PROVE Base'
  <2>1. CASE LoadEndpoint(s)
    <3>1. url' \in Urls
      BY <2>1, ClientAssumption DEF LoadEndpoint
    <3> QED BY <1>2, <2>1, <3>1 DEF Base, LoadEndpoint, DialogAsks
  <2>2. CASE ApproveTab(s) \/ CloseTab(s)
    <3>1. tab' \in [Specs -> {"open", "approved", "closed"}]
      BY <2>2 DEF Base, ApproveTab, CloseTab
    <3>2. UNCHANGED <<page, formVars, uiVars, waiting, clicks>>
      BY <2>2 DEF ApproveTab, CloseTab
    <3> QED BY <1>2, <3>1, <3>2 DEF Base, formVars, uiVars, DialogAsks
  <2> QED BY <1>4, <2>1, <2>2
<1>5. CASE Cancel \/ ToClient
  <2>1. CASE Cancel
    BY <1>2, <2>1 DEF Base, Cancel, formVars, DialogAsks
  <2>2. CASE ToClient
    BY <1>2, <2>2 DEF Base, ToClient, formVars, uiVars, DialogAsks
  <2> QED BY <1>5, <2>1, <2>2
<1>6. CASE ToExplorer
  <2>1. waiting' \in [Approvals -> {None} \cup Handler]
    BY <1>6 DEF Base, ToExplorer, Handler
  <2> QED BY <1>2, <1>6, <2>1 DEF Base, ToExplorer, formVars, DialogAsks
<1>7. ASSUME NEW k \in Approvals, Confirm(k) PROVE Base'
  <2>1. asked \in Urls
    BY <1>7 DEF Base, Confirm, DialogAsks
  <2>2. SelectedTab(tab) # None => SelectedTab(tab) \in Specs
    BY DEF Base, SelectedTab
  <2>3. waiting' \in [Approvals -> {None} \cup Handler]
    BY <1>7, <2>1, <2>2 DEF Base, Confirm, Handler
  <2> QED BY <1>2, <1>7, <2>3 DEF Base, Confirm, formVars, DialogAsks
<1> QED BY <1>2, <1>3, <1>4, <1>5, <1>6, <1>7

(* What goes to the service, or comes from it, without an approval. *)
LEMMA BaseService ==
    ASSUME Base,
           \/ \E n \in Service!Sends : Replay(n)
           \/ ClearHistory \/ Inspect \/ Arrival
    PROVE  Base' /\ UNCHANGED sent
<1>1. UNCHANGED <<requests, page, tab, spec, uiVars, waiting, clicks>>
  BY DEF Replay, ClearHistory, Inspect, Arrival, formVars
<1>2. ServiceFits' /\ UNCHANGED sent
  BY <1>1, ServiceStepFits DEF Base, Replay, ClearHistory, Inspect, Arrival
<1>3. url' \in Urls \cup {None}
  <2>1. ASSUME NEW n \in Service!Sends, Replay(n) PROVE url' \in Urls
    <3>1. n \in 1..Len(history) /\ url' = requests[history[n].request].url
      BY <2>1 DEF Replay, Service!SelectHistoryEntry
    <3>2. history[n].request \in 1..Len(requests)
      BY <3>1 DEF Base, ServiceFits, HistorySent
    <3>3. requests[history[n].request] \in RequestRecord
      BY <3>2, ElementOfSeq DEF Base, ServiceFits
    <3> QED BY <3>1, <3>3 DEF RequestRecord
  <2>2. CASE UNCHANGED url
    BY <2>2 DEF Base
  <2> QED BY <2>1, <2>2 DEF ClearHistory, Inspect, Arrival, formVars
<1> QED BY <1>1, <1>2, <1>3 DEF Base, uiVars, DialogAsks

LEMMA BaseTryOut == ASSUME Base, NEW s \in Specs, TryOut(s) PROVE Base' /\ sent' = sent + 1
<1>1. Endpoint[s] \in Urls
  BY ClientAssumption
<1>2. ServiceFits' /\ sent' = sent + 1
  BY <1>1, SubmitEffect DEF Base, TryOut
<1>3. clicks' \in 0..MaxClicks
  BY ClientAssumption DEF Base, TryOut
<1> QED BY <1>2, <1>3 DEF Base, TryOut, formVars, uiVars, DialogAsks

LEMMA BaseClick == ASSUME Base, Click PROVE Base'
<1>1. url \in Urls
  BY DEF Base, Click
<1>2. /\ ServiceFits' /\ urlError' \in BOOLEAN /\ dialog' \in BOOLEAN
      /\ asked' \in Urls \cup {None} /\ DialogAsks'
  BY <1>1, SendRequestEffect DEF Click
<1>3. clicks' \in 0..MaxClicks
  BY ClientAssumption DEF Base, Click
<1> QED BY <1>2, <1>3 DEF Base, Click, formVars

LEMMA BaseGranted == ASSUME Base, NEW k \in Approvals, Granted(k) PROVE Base'
<1>1. waiting[k] \in Handler
  BY DEF Base, Granted
<1>2. waiting[k].alive \in BOOLEAN /\ waiting[k].url \in Urls
  BY <1>1 DEF Handler
<1>3. PICK shown : shown = tab'
  OBVIOUS
<1>4. SendRequest(shown, waiting[k].alive, waiting[k].url)
  BY <1>3 DEF Granted
<1>5. /\ ServiceFits' /\ urlError' \in BOOLEAN /\ dialog' \in BOOLEAN
      /\ asked' \in Urls \cup {None} /\ DialogAsks'
  BY <1>2, <1>4, SendRequestEffect
<1>6. tab' \in [Specs -> {"open", "approved", "closed"}]
  BY DEF Base, Granted
<1>7. waiting' \in [Approvals -> {None} \cup Handler]
  BY DEF Base, Granted
<1> QED BY <1>5, <1>6, <1>7 DEF Base, Granted, formVars

LEMMA BaseNotGranted == ASSUME Base, NEW k \in Approvals, NotGranted(k) PROVE Base'
<1>1. waiting[k] \in Handler
  BY DEF Base, NotGranted
<1>2. waiting[k].alive \in BOOLEAN /\ waiting[k].url \in Urls
  BY <1>1 DEF Handler
<1>3. /\ waiting' \in [Approvals -> {None} \cup Handler]
      /\ UNCHANGED <<page, tab, formVars, clicks>>
  BY DEF Base, NotGranted
<1>4. CASE SendRequest(tab, waiting[k].alive, waiting[k].url)
  <2>1. /\ ServiceFits' /\ urlError' \in BOOLEAN /\ dialog' \in BOOLEAN
        /\ asked' \in Urls \cup {None} /\ DialogAsks'
    BY <1>2, <1>4, SendRequestEffect
  <2> QED BY <1>3, <2>1 DEF Base, formVars
<1>5. CASE UNCHANGED <<sendVars, uiVars>>
  BY <1>3, <1>5, Untouched DEF Base, formVars, uiVars, DialogAsks
<1> QED BY <1>4, <1>5 DEF NotGranted

LEMMA BaseNext == Base /\ [Next]_vars => Base'
<1> SUFFICES ASSUME Base, [Next]_vars PROVE Base'
  OBVIOUS
<1>1. CASE UNCHANGED vars
  BY <1>1, Untouched DEF vars, formVars, uiVars, Base, DialogAsks
<1> QED
  BY <1>1, BaseForm, BaseService, BaseTryOut, BaseClick, BaseGranted, BaseNotGranted
     DEF Next

(* Type correctness of the page: a request of the history can be replayed,  *)
(* an approval that is awaited knows the URL it was asked for.              *)
THEOREM TypeCorrect == Spec => []TypeOK
<1>1. Base => TypeOK
  BY DEF Base, ServiceFits, TypeOK, RequestRecord, Handler
<1> QED BY <1>1, BaseInit, BaseNext, PTL DEF Spec
------------------------------------------------------------------------------
(* Nothing leaves the API Client for an unapproved tab. *)

LEMMA ApprovedKept ==
    ASSUME ServiceFits, SentWhenApproved, NEW r \in RequestRecord,
           r.by = "client" => r.approved,
           requests' = Append(requests, r)
    PROVE  SentWhenApproved'
<1>1. /\ Len(requests') = Len(requests) + 1 /\ Len(requests) \in Nat
      /\ requests'[Len(requests) + 1] = r
      /\ \A n \in 1..Len(requests) : requests'[n] = requests[n]
  BY AppendProperties, LenProperties DEF ServiceFits
<1>2. \A n \in 1..Len(requests') : n = Len(requests) + 1 \/ n \in 1..Len(requests)
  BY <1>1
<1> QED BY <1>1, <1>2 DEF SentWhenApproved

LEMMA SubmitApproved ==
    ASSUME ServiceFits, SentWhenApproved, NEW shown, NEW u \in Urls,
           NEW s \in Specs \cup {None}, NEW from \in Urls,
           NEW by \in {"client", "explorer"}, Submit(shown, u, s, from, by),
           by = "client" => s = None \/ shown[s] = "approved"
    PROVE  SentWhenApproved'
<1> DEFINE r == [url |-> u, spec |-> s, from |-> from,
                 approved |-> s = None \/ shown[s] = "approved", by |-> by]
<1>1. r \in RequestRecord /\ (r.by = "client" => r.approved)
  BY DEF RequestRecord
<1>2. requests' = Append(requests, r)
  BY DEF Submit
<1> HIDE DEF r
<1> QED BY <1>1, <1>2, ApprovedKept

LEMMA SendRequestApproved ==
    ASSUME Base, SentWhenApproved, NEW shown, NEW alive, NEW from \in Urls,
           SendRequest(shown, alive, from)
    PROVE  SentWhenApproved'
<1>1. CASE SendForm(shown, alive, from)
  <2>1. SelectedTab(shown) \in Specs \cup {None}
    BY DEF SelectedTab, Base
  <2>2. SelectedTab(shown) = None \/ shown[SelectedTab(shown)] = "approved"
    BY <1>1 DEF SendForm, NeedsApproval
  <2>3. url \in Urls /\ Submit(shown, url, SelectedTab(shown), from, "client")
    BY <1>1 DEF SendForm
  <2> QED BY <2>1, <2>2, <2>3, SubmitApproved DEF Base
<1>2. CASE SendNothing \/ SendInvalid(alive) \/ AskApproval(shown, alive, from)
  BY <1>2 DEF SendNothing, SendInvalid, AskApproval, StopAtDialog, sendVars, SentWhenApproved
<1> QED BY <1>1, <1>2 DEF SendRequest

LEMMA ApprovedNext == Base /\ SentWhenApproved /\ [Next]_vars => SentWhenApproved'
<1> SUFFICES ASSUME Base, SentWhenApproved, [Next]_vars PROVE SentWhenApproved'
  OBVIOUS
<1>1. CASE UNCHANGED requests
  BY <1>1 DEF SentWhenApproved
<1>2. CASE Click
  <2>1. url \in Urls /\ SendRequest(tab, TRUE, url)
    BY <1>2 DEF Click, Base
  <2> QED BY <2>1, SendRequestApproved
<1>3. ASSUME NEW s \in Specs, TryOut(s) PROVE SentWhenApproved'
  <2>1. Endpoint[s] \in Urls /\ Submit(tab, Endpoint[s], s, Endpoint[s], "explorer")
    BY <1>3, ClientAssumption DEF TryOut
  <2> QED BY <2>1, SubmitApproved DEF Base
<1>4. ASSUME NEW k \in Approvals, Granted(k) \/ NotGranted(k) PROVE SentWhenApproved'
  <2>1. waiting[k] \in Handler
    BY <1>4 DEF Base, Granted, NotGranted
  <2>2. waiting[k].url \in Urls
    BY <2>1 DEF Handler
  <2>3. PICK shown : shown = tab'
    OBVIOUS
  <2>4. CASE Granted(k)
    BY <2>2, <2>3, <2>4, SendRequestApproved DEF Granted
  <2>5. CASE NotGranted(k)
    BY <1>1, <2>2, <2>5, SendRequestApproved DEF NotGranted, sendVars
  <2> QED BY <1>4, <2>4, <2>5
<1> QED
  BY <1>1, <1>2, <1>3, <1>4
     DEF Next, vars, sendVars, TypeUrl, LoadEndpoint, ApproveTab, CloseTab, Replay, Confirm,
         ClearHistory, Cancel, ToExplorer, ToClient, Inspect, Arrival

(* However the form and the tabs change while an approval is awaited, the *)
(* API Client's retry checks the tab it sends for: neither it nor the     *)
(* button sends for a spec whose tab is not shown as approved.            *)
THEOREM OnlyApprovedSent == Spec => []SentWhenApproved
<1>1. Init => SentWhenApproved
  <2> SUFFICES ASSUME Init PROVE SentWhenApproved
    OBVIOUS
  <2>1. Len(requests) = 0
    BY DEF Init
  <2> QED BY <2>1 DEF SentWhenApproved
<1> QED BY <1>1, BaseInit, BaseNext, ApprovedNext, PTL DEF Spec
------------------------------------------------------------------------------
(* Clicks and what may still be sent for them. *)

(* The approvals that are awaited, each of which may send. *)
Pending == {k \in Approvals : waiting[k] # None}

(* A click has sent, or waits in the dialog or for an approval. *)
ClicksCover ==
    /\ IsFiniteSet(Pending)
    /\ sent + Cardinality(Pending) + (IF dialog THEN 1 ELSE 0) <= clicks

LEMMA Numbers ==
    ASSUME Base, ClicksCover
    PROVE  sent \in Nat /\ clicks \in Nat /\ Cardinality(Pending) \in Nat
BY FS_CardinalityType DEF Base, ServiceFits, Service!TypeOK, ClicksCover

LEMMA FewerPending ==
    ASSUME ClicksCover, Pending' \subseteq Pending
    PROVE  IsFiniteSet(Pending') /\ Cardinality(Pending') <= Cardinality(Pending)
BY FS_Subset DEF ClicksCover

LEMMA OneMorePending ==
    ASSUME ClicksCover, NEW k, Pending' \subseteq Pending \cup {k}
    PROVE  IsFiniteSet(Pending') /\ Cardinality(Pending') <= Cardinality(Pending) + 1
<1>1. IsFiniteSet(Pending) /\ Cardinality(Pending) \in Nat
  BY FS_CardinalityType DEF ClicksCover
<1>2. /\ IsFiniteSet(Pending \cup {k})
      /\ Cardinality(Pending \cup {k}) <= Cardinality(Pending) + 1
  <2>1. /\ IsFiniteSet(Pending \cup {k})
        /\ Cardinality(Pending \cup {k}) =
             IF k \in Pending THEN Cardinality(Pending) ELSE Cardinality(Pending) + 1
    BY <1>1, FS_AddElement
  <2> QED BY <1>1, <2>1
<1>3. IsFiniteSet(Pending') /\ Cardinality(Pending') <= Cardinality(Pending \cup {k})
  BY <1>2, FS_Subset
<1>4. Cardinality(Pending') \in Nat /\ Cardinality(Pending \cup {k}) \in Nat
  BY <1>2, <1>3, FS_CardinalityType
<1> QED BY <1>1, <1>2, <1>3, <1>4

LEMMA OneLessPending ==
    ASSUME ClicksCover, NEW k \in Pending, Pending' = Pending \ {k}
    PROVE  IsFiniteSet(Pending') /\ Cardinality(Pending') = Cardinality(Pending) - 1
BY FS_RemoveElement DEF ClicksCover

LEMMA ClicksNext == Base /\ ClicksCover /\ [Next]_vars => ClicksCover'
<1> SUFFICES ASSUME Base, ClicksCover, [Next]_vars PROVE ClicksCover'
  OBVIOUS
<1>1. /\ sent \in Nat /\ clicks \in Nat /\ Cardinality(Pending) \in Nat
      /\ dialog \in BOOLEAN /\ dialog' \in BOOLEAN
  BY Numbers, BaseNext DEF Base
<1>2. IsFiniteSet(Pending') => Cardinality(Pending') \in Nat
  BY FS_CardinalityType
(* Nothing is sent and no dialog opened. *)
<1>3. CASE UNCHANGED <<sent, clicks>> /\ (dialog' => dialog) /\ Pending' \subseteq Pending
  BY <1>1, <1>2, <1>3, FewerPending DEF ClicksCover
<1>4. ASSUME NEW k \in Approvals, Confirm(k) PROVE ClicksCover'
  <2>1. UNCHANGED <<sent, clicks>> /\ dialog /\ ~dialog'
    BY <1>4, BaseForm DEF Confirm
  <2>2. Pending' \subseteq Pending \cup {k}
    BY <1>4 DEF Confirm, Pending, Base
  <2> QED BY <1>1, <1>2, <2>1, <2>2, OneMorePending DEF ClicksCover
<1>5. CASE Click
  <2>1. /\ sent' \in {sent, sent + 1} /\ (sent' = sent + 1 => dialog' = dialog)
    BY <1>5, SendRequestEffect DEF Click, Base
  <2>2. clicks' = clicks + 1 /\ UNCHANGED waiting
    BY <1>5 DEF Click
  <2>3. Pending' = Pending
    BY <2>2 DEF Pending
  <2> QED BY <1>1, <2>1, <2>2, <2>3 DEF ClicksCover
<1>6. ASSUME NEW s \in Specs, TryOut(s) PROVE ClicksCover'
  <2>1. sent' = sent + 1 /\ clicks' = clicks + 1 /\ UNCHANGED <<dialog, waiting>>
    BY <1>6, BaseTryOut DEF TryOut, uiVars
  <2>2. Pending' = Pending
    BY <2>1 DEF Pending
  <2> QED BY <1>1, <2>1, <2>2 DEF ClicksCover
<1>7. ASSUME NEW k \in Approvals, Granted(k) \/ NotGranted(k) PROVE ClicksCover'
  <2>1. waiting[k] \in Handler /\ k \in Pending
    BY <1>7 DEF Base, Granted, NotGranted, Pending
  <2>2. waiting[k].url \in Urls /\ waiting[k].alive \in BOOLEAN
    BY <2>1 DEF Handler
  <2>3. waiting' = [waiting EXCEPT ![k] = None] /\ clicks' = clicks
    BY <1>7 DEF Granted, NotGranted
  <2>4. Pending' = Pending \ {k}
    BY <2>3 DEF Pending, Base
  <2>5. IsFiniteSet(Pending') /\ Cardinality(Pending') = Cardinality(Pending) - 1
    BY <2>1, <2>4, OneLessPending
  <2>6. PICK shown : shown = tab'
    OBVIOUS
  <2>7. \/ SendRequest(shown, waiting[k].alive, waiting[k].url)
        \/ SendRequest(tab, waiting[k].alive, waiting[k].url)
        \/ UNCHANGED <<sendVars, uiVars>>
    BY <1>7, <2>6 DEF Granted, NotGranted
  <2>8. sent' \in {sent, sent + 1} /\ (sent' = sent + 1 => dialog' = dialog)
    BY <1>1, <2>2, <2>7, SendRequestEffect DEF sendVars, uiVars
  <2> QED BY <1>1, <1>2, <2>3, <2>5, <2>8 DEF ClicksCover
<1>8. ASSUME \/ \E u \in Urls : TypeUrl(u)
             \/ \E s \in Specs : LoadEndpoint(s) \/ ApproveTab(s) \/ CloseTab(s)
             \/ Cancel \/ ToExplorer \/ ToClient
      PROVE  ClicksCover'
  <2>1. UNCHANGED <<sent, clicks>>
    BY <1>8, BaseForm
       DEF TypeUrl, LoadEndpoint, ApproveTab, CloseTab, Cancel, ToExplorer, ToClient
  <2>2. (dialog' => dialog) /\ Pending' \subseteq Pending
    BY <1>8 DEF TypeUrl, LoadEndpoint, ApproveTab, CloseTab, Cancel, ToExplorer, ToClient,
                uiVars, Pending
  <2> QED BY <1>3, <2>1, <2>2
<1>9. ASSUME \/ \E n \in Service!Sends : Replay(n)
             \/ ClearHistory \/ Inspect \/ Arrival
      PROVE  ClicksCover'
  <2>1. UNCHANGED <<sent, clicks, dialog, waiting>>
    BY <1>9, BaseService DEF Replay, ClearHistory, Inspect, Arrival, uiVars
  <2> QED BY <1>3, <2>1 DEF Pending
<1>10. CASE UNCHANGED vars
  BY <1>3, <1>10 DEF vars, sendVars, uiVars, Pending
<1> QED BY <1>4, <1>5, <1>6, <1>7, <1>8, <1>9, <1>10 DEF Next

(* A click sends at most one request, whatever becomes of the page while an *)
(* approval is awaited and however often the retry has to ask again.        *)
THEOREM ClicksSendOnce == Spec => []OneSendPerClick
<1>1. Init => ClicksCover
  <2> SUFFICES ASSUME Init PROVE ClicksCover
    OBVIOUS
  <2>1. Pending = {}
    BY DEF Init, Pending
  <2>2. sent = 0 /\ clicks = 0 /\ ~dialog
    BY DEF Init, Service!Init
  <2> QED BY <2>1, <2>2, FS_EmptySet DEF ClicksCover
<1>2. Base /\ ClicksCover => OneSendPerClick
  <2> SUFFICES ASSUME Base, ClicksCover PROVE OneSendPerClick
    OBVIOUS
  <2> QED BY Numbers DEF ClicksCover, OneSendPerClick, Base
<1> QED BY <1>1, <1>2, BaseInit, BaseNext, ClicksNext, PTL DEF Spec
------------------------------------------------------------------------------
(* The page and the service it sends through. *)

LEMMA SendIsService ==
    ASSUME NEW shown, NEW alive, NEW from, SendRequest(shown, alive, from)
    PROVE  [Service!Next]_Service!tryVars
BY DEF SendRequest, SendNothing, SendInvalid, AskApproval, StopAtDialog, SendForm, Submit,
       sendVars, Service!tryVars, Service!Next

LEMMA StepIsService == [Next]_vars => [Service!Next]_Service!tryVars
<1> SUFFICES ASSUME [Next]_vars PROVE [Service!Next]_Service!tryVars
  OBVIOUS
<1>1. CASE UNCHANGED sendVars
  BY <1>1 DEF sendVars, Service!tryVars
<1>2. CASE Click
  BY <1>2, SendIsService DEF Click
<1>3. ASSUME NEW k \in Approvals, Granted(k) \/ NotGranted(k)
      PROVE  [Service!Next]_Service!tryVars
  <2>1. UNCHANGED sendVars \/ \E shown : SendRequest(shown, waiting[k].alive, waiting[k].url)
    BY <1>3 DEF Granted, NotGranted
  <2> QED BY <1>1, <2>1, SendIsService
<1>4. ASSUME NEW s \in Specs, TryOut(s) PROVE Service!Next
  BY <1>4 DEF TryOut, Submit, Service!Next
<1>5. CASE (\E n \in Service!Sends : Replay(n)) \/ ClearHistory \/ Inspect \/ Arrival
  BY <1>5 DEF Replay, ClearHistory, Inspect, Arrival, Service!Next
<1>6. CASE \/ \E u \in Urls : TypeUrl(u)
           \/ \E s \in Specs : LoadEndpoint(s) \/ ApproveTab(s) \/ CloseTab(s)
           \/ \E k \in Approvals : Confirm(k)
           \/ Cancel \/ ToExplorer \/ ToClient
  BY <1>1, <1>6 DEF TypeUrl, LoadEndpoint, ApproveTab, CloseTab, Confirm, Cancel,
                    ToExplorer, ToClient
<1>7. CASE UNCHANGED vars
  BY <1>1, <1>7 DEF vars
<1> QED BY <1>2, <1>3, <1>4, <1>5, <1>6, <1>7 DEF Next

(* Whatever is clicked on the two pages, and whenever the handlers that wait *)
(* for an approval go on, the service sees callers that send, select and     *)
(* clear: the page implements TryItOut.                                      *)
THEOREM ClientUsesService == Spec => Service!Spec
<1>1. Init => Service!Init
  BY DEF Init
<1> QED BY <1>1, StepIsService, PTL DEF Spec, Service!Spec
===============================================================================
