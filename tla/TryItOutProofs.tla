---------------------------- MODULE TryItOutProofs ----------------------------
(***************************************************************************)
(* Theorems about TryItOut, for any number of requests, and about          *)
(* RequestForm, for any endpoints and however long the pane is open.       *)
(***************************************************************************)
EXTENDS RequestForm, SequenceTheorems, WellFoundedInduction, TLAPS

HistoryEntry == [id : Nat, request : Sends, response : Sends]

LEMMA Prepended ==
  ASSUME NEW S, NEW e \in S, NEW s \in Seq(S)
  PROVE  /\ <<e>> \o s \in Seq(S)
         /\ Len(s) \in Nat /\ Len(<<e>> \o s) = Len(s) + 1
         /\ (<<e>> \o s)[1] = e
         /\ \A k \in 2..(Len(s) + 1) : k - 1 \in 1..Len(s) /\ (<<e>> \o s)[k] = s[k - 1]
  <1>1. <<e>> \in Seq(S) /\ Len(<<e>>) = 1 /\ <<e>>[1] = e OBVIOUS
  <1>2. Len(s) \in Nat BY LenProperties
  <1> QED BY <1>1, <1>2, ConcatProperties

LEMMA TypeInit == ASSUME Init PROVE TypeOK
  <1>1. history \in Seq(HistoryEntry) BY EmptySeq DEF Init
  <1>2. flight \in [Sends -> Flights] BY DEF Init, Flights
  <1>3. \A n \in Sends : flight[n] = "unsent" /\ n > sent BY DEF Init, Sends
  <1>4. sent \in 0..MaxSends /\ lastResponse \in 0..MaxSends BY SendsAssumption DEF Init
  <1>5. \A n \in Sends : flight[n] = "unsent" <=> n > sent BY <1>3
  <1>6. loading \in BOOLEAN /\ error \in BOOLEAN BY DEF Init
  <1>7. selected \in Nat /\ nextId \in Nat \ {0} BY DEF Init
  <1> QED BY <1>1, <1>2, <1>4, <1>5, <1>6, <1>7 DEF TypeOK, HistoryEntry

LEMMA TypeNext == ASSUME TypeOK, [Next]_tryVars PROVE TypeOK'
  <1> USE SendsAssumption DEF Sends, Flights
  <1>1. CASE Send
    <2>1. sent' = sent + 1 /\ sent' \in Sends /\ flight' = [flight EXCEPT ![sent + 1] = "out"]
      BY <1>1 DEF Send, TypeOK
    <2>2. flight' \in [Sends -> Flights] BY <2>1 DEF TypeOK
    <2>3. \A n \in Sends : flight'[n] = "unsent" <=> n > sent' BY <2>1 DEF TypeOK
    <2>4. loading' \in BOOLEAN /\ error' \in BOOLEAN BY <1>1 DEF Send
    <2>5. UNCHANGED <<lastResponse, history, selected, nextId>> BY <1>1 DEF Send
    <2> QED BY <2>1, <2>2, <2>3, <2>4, <2>5 DEF TypeOK
  <1>2. ASSUME NEW n \in Sends, Answer(n) PROVE TypeOK'
    BY <1>2 DEF Answer, TypeOK
  <1>3. ASSUME NEW n \in Sends, Finish(n) PROVE TypeOK'
    <2>1. Entry(n) \in HistoryEntry BY DEF Entry, HistoryEntry, TypeOK
    <2>2. history \in Seq(HistoryEntry) BY DEF TypeOK, HistoryEntry
    <2>3. history' \in Seq(HistoryEntry) BY <1>3, <2>1, <2>2, Prepended DEF Finish, Record
    <2>4. flight' = [flight EXCEPT ![n] = "done"] /\ sent' = sent /\ n <= sent
      BY <1>3 DEF Finish, TypeOK
    <2>5. flight' \in [Sends -> Flights] BY <2>4 DEF TypeOK
    <2>6. \A i \in Sends : flight'[i] = "unsent" <=> i > sent' BY <2>4 DEF TypeOK
    <2>7. loading' \in BOOLEAN /\ error' = error BY <1>3 DEF Finish, StopLoading
    <2>8. lastResponse' \in 0..MaxSends BY <1>3 DEF Finish
    <2>9. nextId' \in Nat \ {0} /\ selected' = selected BY <1>3 DEF Finish, TypeOK
    <2> QED BY <2>3, <2>4, <2>5, <2>6, <2>7, <2>8, <2>9 DEF TypeOK, HistoryEntry
  <1>4. ASSUME NEW n \in Sends, Fail(n) PROVE TypeOK'
    BY <1>4 DEF Fail, StopLoading, TypeOK
  <1>5. ASSUME NEW k \in Sends, SelectHistoryEntry(k) PROVE TypeOK'
    <2>1. history \in Seq(HistoryEntry) BY DEF TypeOK, HistoryEntry
    <2>2. history[k] \in HistoryEntry BY <1>5, <2>1, ElementOfSeq DEF SelectHistoryEntry
    <2>3. lastResponse' \in 0..MaxSends BY <1>5, <2>2 DEF SelectHistoryEntry, HistoryEntry
    <2> QED BY <1>5, <2>3 DEF SelectHistoryEntry, TypeOK
  <1>6. CASE ClearHistory
    <2>1. history' \in Seq(HistoryEntry) BY <1>6, EmptySeq DEF ClearHistory
    <2> QED BY <1>6, <2>1 DEF ClearHistory, DropSelection, TypeOK, HistoryEntry
  <1>7. CASE ClearLastResponse BY <1>7 DEF ClearLastResponse, TypeOK
  <1>8. CASE UNCHANGED tryVars BY <1>8 DEF tryVars, TypeOK
  <1> QED BY <1>1, <1>2, <1>3, <1>4, <1>5, <1>6, <1>7, <1>8 DEF Next

(* The service's state is well typed, and a request that was sent has a *)
(* place among those out or done.                                       *)
THEOREM TypeCorrect == Spec => []TypeOK
  <1>1. Init => TypeOK BY TypeInit
  <1>2. TypeOK /\ [Next]_tryVars => TypeOK' BY TypeNext
  <1> QED BY <1>1, <1>2, PTL DEF Spec
------------------------------------------------------------------------------
(* What holds of the history after one more entry at its front. *)
LEMMA FrontEntry ==
  ASSUME TypeOK, NEW n \in Sends, Record(Entry(n))
  PROVE  /\ Len(history) \in Nat /\ Len(history') = Len(history) + 1
         /\ history'[1] = Entry(n)
         /\ \A k \in 2..Len(history') : k - 1 \in 1..Len(history) /\ history'[k] = history[k - 1]
  <1>1. Entry(n) \in HistoryEntry BY DEF Entry, HistoryEntry, TypeOK
  <1>2. history \in Seq(HistoryEntry) BY DEF TypeOK, HistoryEntry
  <1> QED BY <1>1, <1>2, Prepended DEF Record

HistoryInv == EntriesPaired /\ NewestFirst /\ SelectionInHistory

LEMMA HistoryNext == ASSUME TypeOK, HistoryInv, [Next]_tryVars PROVE HistoryInv'
  <1> USE DEF HistoryInv, EntriesPaired, NewestFirst, SelectionInHistory
  <1>1. CASE UNCHANGED <<history, selected, nextId>> BY <1>1
  <1>2. ASSUME NEW n \in Sends, Finish(n) PROVE HistoryInv'
    <2>1. /\ Len(history) \in Nat /\ Len(history') = Len(history) + 1
          /\ history'[1] = Entry(n)
          /\ \A k \in 2..Len(history') : k - 1 \in 1..Len(history) /\ history'[k] = history[k - 1]
      BY <1>2, FrontEntry DEF Finish
    <2>2. nextId \in Nat /\ nextId' = nextId + 1 /\ selected' = selected /\ selected \in Nat
      BY <1>2 DEF Finish, TypeOK
    <2>3. \A k \in 1..Len(history) : history[k].id \in Nat
      <3>1. history \in Seq(HistoryEntry) BY DEF TypeOK, HistoryEntry
      <3>2. \A k \in 1..Len(history) : history[k] \in HistoryEntry BY <3>1, ElementOfSeq
      <3> QED BY <3>2 DEF HistoryEntry
    <2>4. history'[1].id = nextId /\ history'[1].request = history'[1].response
      BY <2>1 DEF Entry
    <2>5. \A k \in 1..Len(history') : k = 1 \/ k \in 2..Len(history') BY <2>1
    <2>6. EntriesPaired' BY <2>1, <2>4, <2>5
    <2>7. \A k \in 2..Len(history') : history'[k].id \in Nat /\ history'[k].id < nextId
      BY <2>1, <2>3
    <2>8. \A j, k \in 1..Len(history') : j < k => history'[j].id > history'[k].id
      <3> SUFFICES ASSUME NEW j \in 1..Len(history'), NEW k \in 1..Len(history'), j < k
                   PROVE  history'[j].id > history'[k].id
        OBVIOUS
      <3>1. k \in 2..Len(history') BY <2>1, <2>5
      <3>2. CASE j = 1 BY <2>2, <2>4, <2>7, <3>1, <3>2
      <3>3. CASE j \in 2..Len(history')
        <4>1. j - 1 < k - 1 BY <3>3
        <4> QED BY <2>1, <3>1, <3>3, <4>1
      <3> QED BY <2>5, <3>2, <3>3
    <2>9. \A k \in 1..Len(history') : history'[k].id < nextId'
      BY <2>2, <2>4, <2>5, <2>7
    <2>10. SelectionInHistory' BY <2>1, <2>2
    <2> QED BY <2>6, <2>8, <2>9, <2>10
  <1>3. ASSUME NEW k \in Sends, SelectHistoryEntry(k) PROVE HistoryInv'
    BY <1>3 DEF SelectHistoryEntry
  <1>4. CASE ClearHistory
    <2>1. Len(history') = 0 /\ selected' = 0 BY <1>4 DEF ClearHistory, DropSelection
    <2> QED BY <2>1
  <1>5. CASE Send \/ ClearLastResponse \/ UNCHANGED tryVars
    BY <1>1, <1>5 DEF Send, ClearLastResponse, tryVars
  <1>6. ASSUME NEW n \in Sends, Answer(n) \/ Fail(n) PROVE HistoryInv'
    BY <1>1, <1>6 DEF Answer, Fail
  <1> QED BY <1>2, <1>3, <1>4, <1>5, <1>6 DEF Next

LEMMA HistoryAlways == Spec => []HistoryInv
  <1>1. Init => HistoryInv
    BY DEF Init, HistoryInv, EntriesPaired, NewestFirst, SelectionInHistory
  <1>2. TypeOK /\ HistoryInv /\ [Next]_tryVars => HistoryInv' BY HistoryNext
  <1> QED BY <1>1, <1>2, TypeCorrect, PTL DEF Spec

(* In whatever order the answers come, every entry holds a request with its *)
(* own response.                                                             *)
THEOREM EntriesAlwaysPaired == Spec => []EntriesPaired
  <1>1. HistoryInv => EntriesPaired BY DEF HistoryInv
  <1> QED BY <1>1, HistoryAlways, PTL

(* The history lists the newest answer first, under ids that never repeat. *)
THEOREM HistoryOrdered == Spec => []NewestFirst
  <1>1. HistoryInv => NewestFirst BY DEF HistoryInv
  <1> QED BY <1>1, HistoryAlways, PTL

(* The selection never dangles, also when the history is cleared. *)
THEOREM SelectionNeverDangles == Spec => []SelectionInHistory
  <1>1. HistoryInv => SelectionInHistory BY DEF HistoryInv
  <1> QED BY <1>1, HistoryAlways, PTL
------------------------------------------------------------------------------
(* However many requests overlap, the loading flag is up only while one of *)
(* them is out.                                                              *)
THEOREM LoadingEnds == Spec => []LoadingHasFlight
  <1>1. Init => LoadingHasFlight BY DEF Init, LoadingHasFlight
  <1>2. ASSUME TypeOK, LoadingHasFlight, [Next]_tryVars PROVE LoadingHasFlight'
    <2> USE DEF LoadingHasFlight, InFlight
    <2>1. CASE Send
      <3>1. sent' \in Sends /\ flight'[sent'] = "out"
        BY <1>2, <2>1, SendsAssumption DEF Send, TypeOK, Sends
      <3> QED BY <3>1
    <2>2. ASSUME NEW n \in Sends, Answer(n) PROVE LoadingHasFlight'
      <3>1. flight'[n] \in {"answered", "failed"} BY <1>2, <2>2 DEF Answer, TypeOK
      <3> QED BY <3>1
    <2>3. ASSUME NEW n \in Sends, Finish(n) \/ Fail(n) PROVE LoadingHasFlight'
      BY <2>3 DEF Finish, Fail, StopLoading
    <2>4. CASE UNCHANGED <<loading, flight>> BY <1>2, <2>4
    <2> QED BY <1>2, <2>1, <2>2, <2>3, <2>4
            DEF Next, SelectHistoryEntry, ClearHistory, ClearLastResponse, tryVars
  <1> QED BY <1>1, <1>2, TypeCorrect, PTL DEF Spec
------------------------------------------------------------------------------
(* The form: its inputs are not the service's business. *)

ParamStep == endpoint # None /\ \E p \in endpoint.parameters :
                \/ ToggleParameter(p)
                \/ \E t \in p.texts \cup {NoText} : UpdatePathParam(p, t) \/ UpdateParam(p, t)

FieldStep == endpoint # None /\ \E f \in endpoint.fields :
                \/ ToggleField(f)
                \/ AddArrayItem(f)
                \/ \E i \in 1..MaxItems : RemoveArrayItem(f, i)
                \/ \E t \in f.texts : UpdateValue(f, t) \/ \E i \in 1..MaxItems : UpdateArrayItem(f, i, t)

LEMMA FormKinds ==
    ASSUME [FormNext]_vars
    PROVE  \/ \E e \in Endpoints : Open(e)
           \/ \E e \in Endpoints : Show(e)
           \/ Close
           \/ \E u \in Urls : TypeUrl(u)
           \/ ParamStep
           \/ FieldStep
           \/ [Next]_tryVars /\ UNCHANGED formVars
BY DEF FormNext, FormStep, ParamStep, FieldStep, SendForm, Elsewhere, Next, vars

LEMMA ParamStepEffect ==
    ASSUME ParamStep \/ \E u \in Urls : TypeUrl(u)
    PROVE  endpoint # None /\ UNCHANGED <<tryVars, endpoint, served, body, schemaVars>>
BY DEF ParamStep, TypeUrl, ToggleParameter, UpdatePathParam, UpdateParam, EditParams, Edit

LEMMA FieldStepEffect ==
    ASSUME FieldStep
    PROVE  endpoint # None /\ UNCHANGED <<tryVars, endpoint, served, paramVars>>
BY DEF FieldStep, ToggleField, AddArrayItem, RemoveArrayItem, UpdateValue, UpdateArrayItem,
       EditArray, EditField, Edit

LEMMA ServiceStep == [FormNext]_vars => [Next]_tryVars
<1> SUFFICES ASSUME [FormNext]_vars PROVE [Next]_tryVars
  OBVIOUS
<1>1. CASE (\E e \in Endpoints : Open(e) \/ Show(e)) \/ Close
  BY <1>1 DEF Open, Show, Close
<1>2. CASE ParamStep \/ \E u \in Urls : TypeUrl(u)
  BY <1>2, ParamStepEffect
<1>3. CASE FieldStep
  BY <1>3, FieldStepEffect
<1> QED BY <1>1, <1>2, <1>3, FormKinds

(* The form leaves the service to itself: whatever holds of the service, with *)
(* callers that send when they like, holds of it behind the form.             *)
THEOREM FormUsesService == FormSpec => Spec
<1>1. FormInit => Init
  BY DEF FormInit
<1> QED BY <1>1, ServiceStep, PTL DEF FormSpec, Spec

(* Behind a form that serves one endpoint after the other the history stays  *)
(* what the service promises: its entries paired and in order, its selection *)
(* one of them, its loading flag up only while a request is out.             *)
THEOREM FormKeepsHistory ==
    FormSpec => [](EntriesPaired /\ NewestFirst /\ SelectionInHistory /\ LoadingHasFlight)
BY FormUsesService, EntriesAlwaysPaired, HistoryOrdered, SelectionNeverDangles, LoadingEnds, PTL
------------------------------------------------------------------------------
(* The form's types. *)

ParamsFit ==
    /\ pathParams \in Seq(Entries)
    /\ \A i, j \in DOMAIN pathParams : pathParams[i].name = pathParams[j].name => i = j
    /\ params \in [{"query", "header"} -> [Names -> STRING]]
    /\ enabled \subseteq Names
    /\ urlOverride \in Urls \cup {None}

PaneFits ==
    /\ endpoint \in Endpoints \cup {None}
    /\ served \subseteq Endpoints /\ (endpoint = None <=> served = {})
    /\ endpoint # None => endpoint \in served

LEMMA Blank == NoText \in STRING
BY TextAssumption

LEMMA ParametersFit ==
    ASSUME NEW e \in Endpoints, NEW p \in e.parameters
    PROVE  p.name \in Names /\ p.in \in {"path", "query", "header"} /\ p.texts \subseteq STRING
BY FormAssumption DEF Names

LEMMA ParamsInit == FormInit => ParamsFit /\ PaneFits
<1> SUFFICES ASSUME FormInit PROVE ParamsFit /\ PaneFits
  OBVIOUS
<1>1. pathParams = <<>> /\ pathParams \in Seq(Entries)
  BY EmptySeq DEF FormInit
<1>2. params \in [{"query", "header"} -> [Names -> STRING]]
  BY Blank DEF FormInit, NoTexts
<1> QED BY <1>1, <1>2 DEF FormInit, ParamsFit, PaneFits

LEMMA PaneNext == PaneFits /\ [FormNext]_vars => PaneFits'
<1> SUFFICES ASSUME PaneFits, [FormNext]_vars PROVE PaneFits'
  OBVIOUS
<1>1. ASSUME NEW e \in Endpoints, Open(e) \/ Show(e) PROVE PaneFits'
  <2>1. endpoint' = e /\ (served' = {e} \/ served' = served \cup {e})
    BY <1>1 DEF Open, Show
  <2> QED BY <2>1, FormAssumption DEF PaneFits
<1>2. CASE Close
  BY <1>2 DEF Close, PaneFits
<1>3. CASE UNCHANGED <<endpoint, served>>
  BY <1>3 DEF PaneFits
<1> QED BY <1>1, <1>2, <1>3, FormKinds, ParamStepEffect, FieldStepEffect DEF formVars

LEMMA EntryPut ==
    ASSUME ParamsFit, NEW p, p.name \in Names, NEW t \in STRING, UpdatePathParam(p, t)
    PROVE  ParamsFit'
<1> DEFINE entry == [name |-> p.name, value |-> t]
           there == PathEntries(p.name)
<1>1. entry \in Entries
  BY DEF Entries
<1>2. /\ pathParams' = IF there = {} THEN Append(pathParams, entry)
                       ELSE [i \in DOMAIN pathParams |-> IF i \in there THEN entry ELSE pathParams[i]]
      /\ UNCHANGED <<params, enabled, urlOverride>>
  BY DEF UpdatePathParam
<1>3. /\ Len(pathParams) \in Nat /\ DOMAIN pathParams = 1..Len(pathParams)
      /\ \A i \in DOMAIN pathParams : pathParams[i] \in Entries
  BY DEF ParamsFit
<1>4. there = {i \in DOMAIN pathParams : pathParams[i].name = p.name}
  BY DEF PathEntries
<1>5. entry.name = p.name
  OBVIOUS
<1> HIDE DEF entry, there
<1>6. CASE there = {}
  <2>1. /\ pathParams' \in Seq(Entries) /\ Len(pathParams') = Len(pathParams) + 1
        /\ \A i \in 1..Len(pathParams) : pathParams'[i] = pathParams[i]
        /\ pathParams'[Len(pathParams) + 1] = entry
    BY <1>1, <1>2, <1>6, AppendProperties DEF ParamsFit
  <2>2. DOMAIN pathParams' = 1..(Len(pathParams) + 1)
    BY <2>1
  <2>3. \A i \in DOMAIN pathParams' : i \in 1..Len(pathParams) \/ i = Len(pathParams) + 1
    BY <1>3, <2>2
  <2>4. \A i, j \in DOMAIN pathParams' : pathParams'[i].name = pathParams'[j].name => i = j
    BY <1>3, <1>4, <1>5, <1>6, <2>1, <2>3 DEF ParamsFit
  <2> QED BY <1>2, <2>1, <2>4 DEF ParamsFit
<1>7. CASE there # {}
  <2>1. pathParams' = [i \in 1..Len(pathParams) |-> IF i \in there THEN entry ELSE pathParams[i]]
    BY <1>2, <1>3, <1>7
  <2>2. pathParams' \in Seq(Entries) /\ DOMAIN pathParams' = DOMAIN pathParams
    BY <1>1, <1>3, <2>1
  <2>3. \A i \in DOMAIN pathParams' : pathParams'[i].name = pathParams[i].name
    BY <1>3, <1>4, <1>5, <2>1, <2>2
  <2>4. \A i, j \in DOMAIN pathParams' : pathParams'[i].name = pathParams'[j].name => i = j
    BY <2>2, <2>3 DEF ParamsFit
  <2> QED BY <1>2, <2>2, <2>4 DEF ParamsFit
<1> QED BY <1>6, <1>7

LEMMA ParamsNext == PaneFits /\ ParamsFit /\ [FormNext]_vars => ParamsFit'
<1> SUFFICES ASSUME PaneFits, ParamsFit, [FormNext]_vars PROVE ParamsFit'
  OBVIOUS
<1>1. CASE Close
  <2>1. pathParams' = <<>> /\ pathParams' \in Seq(Entries)
    BY <1>1, EmptySeq DEF Close
  <2>2. params' \in [{"query", "header"} -> [Names -> STRING]]
    BY <1>1, Blank DEF Close, NoTexts
  <2> QED BY <1>1, <2>1, <2>2 DEF Close, ParamsFit
<1>2. CASE UNCHANGED paramVars
  BY <1>2 DEF paramVars, ParamsFit
<1>3. ASSUME NEW u \in Urls, TypeUrl(u) PROVE ParamsFit'
  BY <1>3 DEF TypeUrl, ParamsFit
<1>4. CASE ParamStep
  <2>1. PICK p \in endpoint.parameters :
           \/ ToggleParameter(p)
           \/ \E t \in p.texts \cup {NoText} : UpdatePathParam(p, t) \/ UpdateParam(p, t)
    BY <1>4 DEF ParamStep
  <2>2. p.name \in Names /\ p.in \in {"path", "query", "header"} /\ p.texts \subseteq STRING
    BY <1>4, ParametersFit DEF ParamStep, PaneFits
  <2>3. CASE ToggleParameter(p)
    BY <2>2, <2>3 DEF ToggleParameter, SymDiff, ParamsFit
  <2>4. ASSUME NEW t \in p.texts \cup {NoText}, UpdatePathParam(p, t) PROVE ParamsFit'
    BY <2>2, <2>4, Blank, EntryPut
  <2>5. ASSUME NEW t \in p.texts \cup {NoText}, UpdateParam(p, t) PROVE ParamsFit'
    <3>1. t \in STRING /\ p.in \in {"query", "header"}
      BY <2>2, <2>5, Blank DEF UpdateParam
    <3>2. params' \in [{"query", "header"} -> [Names -> STRING]]
      BY <2>2, <2>5, <3>1 DEF UpdateParam, ParamsFit
    <3> QED BY <2>2, <2>5, <3>2 DEF UpdateParam, ParamsFit
  <2> QED BY <2>1, <2>3, <2>4, <2>5
<1> QED BY <1>1, <1>2, <1>3, <1>4, FormKinds, FieldStepEffect
        DEF Open, Show, formVars
------------------------------------------------------------------------------
(* The schema form's types. *)

ShownFits == endpoint # None => \A f \in endpoint.fields :
                IF f.array THEN /\ shown[f.name] \in Seq(STRING)
                                /\ Len(shown[f.name]) = Len(arrayValues[f.name])
                           ELSE shown[f.name] \in STRING

SchemaFits ==
    /\ \A v \in {body, value} : DOMAIN v \subseteq FieldNames
    /\ arrayValues \in [Arrays -> Seq(STRING)]
    /\ enabledFields \subseteq FieldNames
    /\ DOMAIN shown = FieldNames
    /\ ShownFits
    /\ unsent \cup shifted \subseteq FieldNames

LEMMA FieldsFit ==
    ASSUME NEW e \in Endpoints, NEW f \in e.fields
    PROVE  /\ f.name \in FieldNames /\ f.array \in BOOLEAN /\ f.texts \subseteq STRING
           /\ f.array => f.name \in Arrays
           /\ f.array <=> f.name \in ArraysOf(e)
           /\ \A g \in e.fields : f.name = g.name => f = g
<1>1. f \in Fields
  BY DEF Fields
<1>2. f.array \in BOOLEAN /\ f.texts \subseteq STRING /\ \A g \in e.fields : f.name = g.name => f = g
  BY FormAssumption
<1> QED BY <1>1, <1>2 DEF FieldNames, Arrays, ArraysOf

LEMMA ArraysKnown == ASSUME NEW e \in Endpoints PROVE ArraysOf(e) \subseteq Arrays
BY FieldsFit DEF ArraysOf

(* A new input fits its field. *)
LEMMA NewInputsFit ==
    ASSUME arrayValues \in [Arrays -> Seq(STRING)], NEW e \in Endpoints, NEW f \in e.fields
    PROVE  /\ DOMAIN NewInputs(e) = FieldNames
           /\ IF f.array THEN /\ NewInputs(e)[f.name] \in Seq(STRING)
                              /\ Len(NewInputs(e)[f.name]) = Len(arrayValues[f.name])
                              /\ NewInputs(e)[f.name] = [i \in 1..Len(arrayValues[f.name]) |-> NoText]
              ELSE NewInputs(e)[f.name] = NoText /\ NewInputs(e)[f.name] \in STRING
<1> DEFINE n == f.name
<1>1. n \in FieldNames /\ (f.array <=> n \in ArraysOf(e)) /\ (f.array => n \in Arrays)
  BY FieldsFit
<1>2. NewInputs(e)[n] = IF f.array THEN [i \in DOMAIN arrayValues[n] |-> NoText] ELSE NoText
  BY <1>1 DEF NewInputs
<1>3. CASE f.array
  <2>1. arrayValues[n] \in Seq(STRING)
    BY <1>1, <1>3
  <2>2. Len(arrayValues[n]) \in Nat /\ DOMAIN arrayValues[n] = 1..Len(arrayValues[n])
    BY <2>1
  <2> DEFINE len == Len(arrayValues[n])
             blank == [i \in 1..len |-> NoText]
  <2>3. NewInputs(e)[n] = blank
    BY <1>2, <1>3, <2>2
  <2>4. blank \in Seq(STRING) /\ Len(blank) = len
    <3>1. len \in Nat
      BY <2>2
    <3> HIDE DEF len
    <3> QED BY <3>1, Blank
  <2> QED BY <1>3, <2>3, <2>4 DEF NewInputs
<1>4. CASE ~f.array
  BY <1>2, <1>4, Blank DEF NewInputs
<1> QED BY <1>3, <1>4

LEMMA SchemaInit == FormInit => SchemaFits
<1> SUFFICES ASSUME FormInit PROVE SchemaFits
  OBVIOUS
<1>1. arrayValues \in [Arrays -> Seq(STRING)]
  BY EmptySeq DEF FormInit, NoItems
<1> QED BY <1>1 DEF FormInit, SchemaFits, ShownFits, NoInputs

LEMMA FreshFits ==
    ASSUME FreshSchemaForm, NEW e \in Endpoints \cup {None}, endpoint' = e,
           \/ e \in Endpoints /\ shown' = NewInputs(e)'
           \/ e = None /\ DOMAIN shown' = FieldNames,
           DOMAIN body' \subseteq FieldNames
    PROVE  SchemaFits'
<1>1. arrayValues' \in [Arrays -> Seq(STRING)]
  BY EmptySeq DEF FreshSchemaForm, NoItems
<1>2. DOMAIN shown' = FieldNames
  BY DEF NewInputs
<1>3. ASSUME e # None, NEW f \in e.fields
      PROVE  IF f.array THEN /\ shown'[f.name] \in Seq(STRING)
                             /\ Len(shown'[f.name]) = Len(arrayValues'[f.name])
                        ELSE shown'[f.name] \in STRING
  <2>1. f.name \in FieldNames /\ (f.array <=> f.name \in ArraysOf(e))
        /\ (f.array => f.name \in Arrays)
    BY <1>3, FieldsFit
  <2>2. shown'[f.name] = IF f.array THEN [i \in DOMAIN arrayValues'[f.name] |-> NoText] ELSE NoText
    BY <1>3, <2>1 DEF NewInputs
  <2>3. f.array => arrayValues'[f.name] = <<>>
    BY <2>1 DEF FreshSchemaForm, NoItems
  <2>4. [i \in DOMAIN <<>> |-> NoText] = <<>> /\ <<>> \in Seq(STRING)
    OBVIOUS
  <2> QED BY <2>2, <2>3, <2>4, Blank
<1> QED BY <1>1, <1>2, <1>3 DEF FreshSchemaForm, SchemaFits, ShownFits

LEMMA Removed ==
    ASSUME NEW S, NEW s \in Seq(S), NEW i \in 1..Len(s)
    PROVE  /\ RemoveAt(s, i) \in Seq(S) /\ Len(RemoveAt(s, i)) = Len(s) - 1
           /\ Front(s) \in Seq(S) /\ Len(Front(s)) = Len(s) - 1
           /\ i = Len(s) => RemoveAt(s, i) = Front(s)
<1> DEFINE before == SubSeq(s, 1, i - 1)
           after == SubSeq(s, i + 1, Len(s))
<1>1. Len(s) \in Nat /\ i \in Nat /\ i >= 1 /\ i <= Len(s)
  OBVIOUS
<1>2. before \in Seq(S) /\ Len(before) = i - 1
  BY <1>1, SubSeqProperties
<1>3. after \in Seq(S) /\ Len(after) = Len(s) - i
  <2>1. \A j \in (i+1)..Len(s) : s[j] \in S
    BY <1>1
  <2>2. i + 1 \in Int /\ Len(s) \in Int
    BY <1>1
  <2> QED BY <1>1, <2>1, <2>2, SubSeqProperties
<1>4. Front(s) \in Seq(S) /\ Len(Front(s)) = Len(s) - 1
  <2> DEFINE n == Len(s) - 1
  <2>1. n \in Nat /\ n \in Int /\ 1 \in Int /\ \A j \in 1..n : s[j] \in S
    BY <1>1
  <2>2. Front(s) = SubSeq(s, 1, n)
    BY DEF Front
  <2> HIDE DEF n
  <2>3. SubSeq(s, 1, n) \in Seq(S) /\ Len(SubSeq(s, 1, n)) = IF 1 <= n THEN n - 1 + 1 ELSE 0
    BY <2>1, SubSeqProperties
  <2>4. Len(SubSeq(s, 1, n)) = n
    BY <2>1, <2>3
  <2> QED BY <2>2, <2>3, <2>4 DEF n
<1>5. i = Len(s) => after = <<>> /\ before = Front(s)
  BY <1>1, SubSeqEmpty DEF Front
<1>6. RemoveAt(s, i) = before \o after
  BY DEF RemoveAt
<1> HIDE DEF before, after
<1>7. before \o after \in Seq(S) /\ Len(before \o after) = Len(s) - 1
  <2>1. /\ before \o after \in Seq(S)
        /\ Len(before \o after) = Len(before) + Len(after)
    BY ONLY <1>2, <1>3, ConcatProperties
  <2> QED BY <1>1, <1>2, <1>3, <2>1
<1>8. i = Len(s) => before \o after = before
  BY <1>2, <1>5, ConcatEmptySeq
<1>9. i = Len(s) => RemoveAt(s, i) = Front(s)
  BY <1>5, <1>6, <1>8
<1>10. RemoveAt(s, i) \in Seq(S) /\ Len(RemoveAt(s, i)) = Len(s) - 1
  BY <1>6, <1>7
<1> QED BY <1>4, <1>9, <1>10

(* A step on the arrays of one name. *)
LEMMA ArrayFits ==
    ASSUME SchemaFits, endpoint \in Endpoints, NEW f \in endpoint.fields, f.array,
           NEW items \in Seq(STRING), NEW inputs \in Seq(STRING), Len(items) = Len(inputs),
           arrayValues' = [arrayValues EXCEPT ![f.name] = items],
           shown' = [shown EXCEPT ![f.name] = inputs],
           \A v \in {body', value'} : DOMAIN v \subseteq FieldNames,
           unsent' \subseteq unsent \cup {f.name}, shifted' \subseteq shifted \cup {f.name},
           UNCHANGED <<endpoint, enabledFields>>
    PROVE  SchemaFits'
<1>1. f.name \in FieldNames /\ f.name \in Arrays
  BY FieldsFit
<1>2. arrayValues' \in [Arrays -> Seq(STRING)] /\ DOMAIN shown' = FieldNames
  BY <1>1 DEF SchemaFits
<1>3. ASSUME NEW g \in endpoint.fields
      PROVE  IF g.array THEN /\ shown'[g.name] \in Seq(STRING)
                             /\ Len(shown'[g.name]) = Len(arrayValues'[g.name])
                        ELSE shown'[g.name] \in STRING
  <2>1. g.name \in FieldNames /\ (g.name = f.name => g = f) /\ (g.array => g.name \in Arrays)
    BY FieldsFit
  <2>2. CASE g = f
    BY <1>1, <2>2 DEF SchemaFits
  <2>3. CASE g # f
    <3>1. shown'[g.name] = shown[g.name] /\ (g.array => arrayValues'[g.name] = arrayValues[g.name])
      BY <2>1, <2>3 DEF SchemaFits
    <3> QED BY <3>1, FormAssumption DEF SchemaFits, ShownFits
  <2> QED BY <2>2, <2>3
<1> QED BY <1>1, <1>2, <1>3 DEF SchemaFits, ShownFits

(* A step that leaves the arrays alone. *)
LEMMA TextFits ==
    ASSUME SchemaFits, endpoint \in Endpoints, NEW f \in endpoint.fields,
           \/ UNCHANGED shown
           \/ ~f.array /\ \E t \in STRING : shown' = [shown EXCEPT ![f.name] = t],
           \A v \in {body', value'} : DOMAIN v \subseteq FieldNames,
           enabledFields' \subseteq FieldNames,
           unsent' \subseteq unsent \cup {f.name},
           UNCHANGED <<endpoint, arrayValues, shifted>>
    PROVE  SchemaFits'
<1>1. f.name \in FieldNames
  BY FieldsFit
<1>2. DOMAIN shown' = FieldNames
  BY DEF SchemaFits
<1>3. ASSUME NEW g \in endpoint.fields
      PROVE  IF g.array THEN /\ shown'[g.name] \in Seq(STRING)
                             /\ Len(shown'[g.name]) = Len(arrayValues'[g.name])
                        ELSE shown'[g.name] \in STRING
  <2>1. g.name \in FieldNames /\ (g.name = f.name => g = f)
    BY FieldsFit
  <2>2. IF g.array THEN shown'[g.name] = shown[g.name] ELSE shown'[g.name] \in STRING
    BY <2>1, FormAssumption DEF SchemaFits, ShownFits
  <2> QED BY <2>2, FormAssumption DEF SchemaFits, ShownFits
<1> QED BY <1>1, <1>2, <1>3 DEF SchemaFits, ShownFits

LEMMA ShowFits ==
    ASSUME SchemaFits, PaneFits, NEW e \in Endpoints, Show(e)
    PROVE  SchemaFits'
<1>1. endpoint \in Endpoints /\ endpoint' = e /\ body' = body
  BY DEF Show, PaneFits
<1>2. CASE FreshSchemaForm /\ shown' = NewInputs(e)'
  <2>1. endpoint' = e /\ shown' = NewInputs(e)' /\ DOMAIN body' \subseteq FieldNames
    BY <1>1, <1>2 DEF SchemaFits
  <2> QED BY <1>2, <2>1, FreshFits
<1>3. CASE /\ shown' = [n \in FieldNames |-> IF n \in Kept(e) THEN shown[n] ELSE NewInputs(e)[n]]
           /\ UNCHANGED <<value, arrayValues, enabledFields, unsent, shifted>>
  <2>1. ASSUME NEW f \in e.fields
        PROVE  IF f.array THEN /\ shown'[f.name] \in Seq(STRING)
                               /\ Len(shown'[f.name]) = Len(arrayValues'[f.name])
                          ELSE shown'[f.name] \in STRING
    <3>1. f.name \in FieldNames /\ \A g \in e.fields : g.name = f.name => g = f
      BY FieldsFit
    <3>2. CASE f.name \in Kept(e)
      <4>1. PICK h \in endpoint.fields : h.name = f.name /\ h.array = f.array
        BY <3>1, <3>2 DEF Kept
      <4>2. shown'[f.name] = shown[h.name]
        BY <1>3, <3>1, <3>2, <4>1
      <4> QED BY <1>1, <1>3, <4>1, <4>2, FormAssumption DEF SchemaFits, ShownFits
    <3>3. CASE f.name \notin Kept(e)
      <4>1. shown'[f.name] = NewInputs(e)[f.name]
        BY <1>3, <3>1, <3>3
      <4> QED BY <1>3, <4>1, NewInputsFit DEF SchemaFits
    <3> QED BY <3>2, <3>3
  <2>2. DOMAIN shown' = FieldNames
    BY <1>3
  <2> QED BY <1>1, <1>3, <2>1, <2>2 DEF SchemaFits, ShownFits
<1> QED BY <1>2, <1>3 DEF Show

LEMMA OpenFits == ASSUME SchemaFits, NEW e \in Endpoints, Open(e) PROVE SchemaFits'
<1>1. /\ endpoint' = e /\ shown' = NewInputs(e)
      /\ UNCHANGED <<body, value, arrayValues, enabledFields, unsent, shifted>>
  BY DEF Open
<1>2. ASSUME NEW f \in e.fields
      PROVE  /\ DOMAIN NewInputs(e) = FieldNames
             /\ IF f.array THEN /\ shown'[f.name] \in Seq(STRING)
                                /\ Len(shown'[f.name]) = Len(arrayValues'[f.name])
                           ELSE shown'[f.name] \in STRING
  BY <1>1, NewInputsFit DEF SchemaFits
<1>3. DOMAIN shown' = FieldNames
  BY <1>1 DEF NewInputs
<1> QED BY <1>1, <1>2, <1>3 DEF SchemaFits, ShownFits

LEMMA CloseFits == ASSUME Close PROVE SchemaFits'
<1>1. DOMAIN body' \subseteq FieldNames /\ endpoint' = None /\ DOMAIN shown' = FieldNames
  BY DEF Close, NoInputs
<1> QED BY <1>1, FreshFits DEF Close

LEMMA FieldStepFits ==
    ASSUME SchemaFits, PaneFits, FieldStep
    PROVE  SchemaFits'
<1>1. PICK f \in endpoint.fields :
         \/ ToggleField(f)
         \/ AddArrayItem(f)
         \/ \E i \in 1..MaxItems : RemoveArrayItem(f, i)
         \/ \E t \in f.texts : UpdateValue(f, t) \/ \E i \in 1..MaxItems : UpdateArrayItem(f, i, t)
  BY DEF FieldStep
<1>2. endpoint \in Endpoints /\ endpoint' = endpoint
  BY FieldStepEffect DEF PaneFits
<1>3. /\ f.name \in FieldNames /\ f.texts \subseteq STRING /\ (f.array => f.name \in Arrays)
      /\ DOMAIN body \subseteq FieldNames /\ DOMAIN value \subseteq FieldNames
  BY <1>2, FieldsFit DEF SchemaFits
<1>4. ASSUME NEW t, Emit(Put(value, f.name, t))
      PROVE  \A v \in {body', value'} : DOMAIN v \subseteq FieldNames
  BY <1>3, <1>4 DEF Emit, Put
<1>5. CASE ToggleField(f)
  <2>1. enabledFields' \subseteq FieldNames
    BY <1>3, <1>5 DEF ToggleField, SymDiff, SchemaFits
  <2>2. \A v \in {body', value'} : DOMAIN v \subseteq FieldNames
    BY <1>3, <1>5 DEF ToggleField, DropValue, Emit, Restrict
  <2>3. unsent' \subseteq unsent \cup {f.name} /\ UNCHANGED <<arrayValues, shown, shifted>>
    BY <1>5 DEF ToggleField
  <2> QED BY <1>2, <2>1, <2>2, <2>3, TextFits
<1>6. ASSUME NEW t \in f.texts, UpdateValue(f, t) PROVE SchemaFits'
  <2>1. enabledFields' \subseteq FieldNames
    BY <1>3, <1>6 DEF UpdateValue, SchemaFits
  <2>2. \A v \in {body', value'} : DOMAIN v \subseteq FieldNames
    BY <1>4, <1>6 DEF UpdateValue
  <2>3. /\ ~f.array /\ \E s \in STRING : shown' = [shown EXCEPT ![f.name] = s]
        /\ unsent' \subseteq unsent \cup {f.name} /\ UNCHANGED <<arrayValues, shifted>>
    BY <1>3, <1>6 DEF UpdateValue
  <2> QED BY <1>2, <2>1, <2>2, <2>3, TextFits
<1>7. CASE f.array
  <2> DEFINE items == arrayValues[f.name]
             inputs == shown[f.name]
  <2>1. items \in Seq(STRING) /\ inputs \in Seq(STRING) /\ Len(items) = Len(inputs)
    BY <1>2, <1>3, <1>7, FormAssumption DEF SchemaFits, ShownFits
  <2>2. CASE AddArrayItem(f)
    <3>1. /\ arrayValues' = [arrayValues EXCEPT ![f.name] = Append(items, NoText)]
          /\ shown' = [shown EXCEPT ![f.name] = Append(inputs, NoText)]
          /\ unsent' = unsent \cup {f.name}
          /\ UNCHANGED <<body, value, shifted, enabledFields>>
      BY <1>3, <1>7, <2>2 DEF AddArrayItem, EditArray, SchemaFits
    <3> HIDE DEF items, inputs
    <3>2. /\ Append(items, NoText) \in Seq(STRING) /\ Append(inputs, NoText) \in Seq(STRING)
          /\ Len(Append(items, NoText)) = Len(Append(inputs, NoText))
      BY <2>1, Blank, AppendProperties
    <3>3. \A v \in {body', value'} : DOMAIN v \subseteq FieldNames
      BY <1>3, <3>1
    <3> QED BY <1>2, <1>7, <3>1, <3>2, <3>3, ArrayFits
  <2>3. ASSUME NEW i \in 1..MaxItems, RemoveArrayItem(f, i) PROVE SchemaFits'
    <3>1. /\ i \in DOMAIN items
          /\ arrayValues' = [arrayValues EXCEPT ![f.name] = RemoveAt(items, i)]
          /\ shown' = [shown EXCEPT ![f.name] = Front(inputs)]
          /\ unsent' = unsent \cup {f.name} /\ shifted' \subseteq shifted \cup {f.name}
          /\ UNCHANGED <<body, value, enabledFields>>
      BY <1>3, <1>7, <2>3 DEF RemoveArrayItem, EditArray, SchemaFits
    <3> HIDE DEF items, inputs
    <3>2. i \in 1..Len(items) /\ i \in 1..Len(inputs)
      BY <2>1, <3>1
    <3>3. RemoveAt(items, i) \in Seq(STRING) /\ Len(RemoveAt(items, i)) = Len(items) - 1
      BY <2>1, <3>2, Removed
    <3>5. Front(inputs) \in Seq(STRING) /\ Len(Front(inputs)) = Len(inputs) - 1
      BY <2>1, <3>2, Removed
    <3>4. \A v \in {body', value'} : DOMAIN v \subseteq FieldNames
      BY <1>3, <3>1
    <3> QED BY <1>2, <1>7, <2>1, <3>1, <3>3, <3>4, <3>5, ArrayFits
  <2>4. ASSUME NEW t \in f.texts, NEW i \in 1..MaxItems, UpdateArrayItem(f, i, t) PROVE SchemaFits'
    <3>1. /\ i \in DOMAIN items
          /\ arrayValues' = [arrayValues EXCEPT ![f.name] = [items EXCEPT ![i] = t]]
          /\ shown' = [shown EXCEPT ![f.name] = [inputs EXCEPT ![i] = t]]
          /\ unsent' = unsent \ {f.name} /\ UNCHANGED <<shifted, enabledFields>>
      BY <1>3, <1>7, <2>4 DEF UpdateArrayItem, SchemaFits
    <3>2. \A v \in {body', value'} : DOMAIN v \subseteq FieldNames
      BY <1>4, <2>4 DEF UpdateArrayItem
    <3> HIDE DEF items, inputs
    <3>3. i \in 1..Len(items) /\ i \in 1..Len(inputs) /\ t \in STRING
      BY <1>3, <2>1, <3>1
    <3>4. /\ [items EXCEPT ![i] = t] \in Seq(STRING) /\ [inputs EXCEPT ![i] = t] \in Seq(STRING)
          /\ Len([items EXCEPT ![i] = t]) = Len([inputs EXCEPT ![i] = t])
      BY <2>1, <3>3, ExceptSeq
    <3> QED BY <1>2, <1>7, <3>1, <3>2, <3>4, ArrayFits
  <2> QED BY <1>1, <1>5, <1>6, <2>2, <2>3, <2>4
<1>8. CASE ~f.array
  BY <1>1, <1>5, <1>6, <1>8 DEF AddArrayItem, RemoveArrayItem, UpdateArrayItem, EditArray
<1> QED BY <1>7, <1>8

LEMMA SchemaNext == PaneFits /\ SchemaFits /\ [FormNext]_vars => SchemaFits'
<1> SUFFICES ASSUME PaneFits, SchemaFits, [FormNext]_vars PROVE SchemaFits'
  OBVIOUS
<1>1. CASE UNCHANGED <<endpoint, body, schemaVars>>
  BY <1>1 DEF schemaVars, SchemaFits, ShownFits
<1> QED BY <1>1, FormKinds, ParamStepEffect, OpenFits, ShowFits, CloseFits, FieldStepFits
        DEF formVars

FormBase == TypeOK /\ ParamsFit /\ PaneFits /\ SchemaFits

LEMMA FormBaseInit == FormInit => FormBase
BY TypeInit, ParamsInit, SchemaInit DEF FormInit, FormBase

LEMMA FormBaseNext == FormBase /\ [FormNext]_vars => FormBase'
BY TypeNext, ServiceStep, ParamsNext, PaneNext, SchemaNext DEF FormBase

LEMMA FormBaseAlways == FormSpec => []FormBase
BY FormBaseInit, FormBaseNext, PTL DEF FormSpec

(* The form's state is well typed, whatever endpoints of whatever documents *)
(* it is used for in turn: each field has the input it needs, and an array  *)
(* has one for each of the items the form holds.                            *)
THEOREM FormTypeCorrect == FormSpec => []FormTypeOK
<1>1. FormBase => FormTypeOK
  BY DEF FormBase, FormTypeOK, ParamsFit, PaneFits, SchemaFits, ShownFits
<1> QED BY <1>1, FormBaseAlways, PTL
------------------------------------------------------------------------------
(* What the form has and shows, while the pane has shown one endpoint only. *)

Untouched ==
    /\ body = <<>> /\ value = <<>> /\ arrayValues = NoItems
    /\ enabledFields = {} /\ unsent = {} /\ shifted = {}

FieldAsShown(f) ==
    /\ ~Checked(f) /\ f.name \in DOMAIN body => f.array /\ f.name \notin unsent
    /\ f.name \notin unsent \cup shifted => Sent(f.name) = shown[f.name]
    /\ f.array /\ f.name \notin shifted => shown[f.name] = arrayValues[f.name]

OneEndpoint ==
    /\ value = body
    /\ DOMAIN body \subseteq {f.name : f \in endpoint.fields}
    /\ \A f \in endpoint.fields : FieldAsShown(f)

BodyInv ==
    /\ endpoint = None => Untouched
    /\ endpoint # None /\ served = {endpoint} => OneEndpoint

LEMMA BodyInit == FormInit => BodyInv
BY DEF FormInit, BodyInv, Untouched

LEMMA OpenBody ==
    ASSUME PaneFits, SchemaFits, BodyInv, NEW e \in Endpoints, Open(e)
    PROVE  BodyInv'
<1>1. Untouched /\ UNCHANGED <<body, value, arrayValues, enabledFields, unsent, shifted>>
  BY DEF Open, BodyInv
<1>2. endpoint' = e /\ e # None /\ shown' = NewInputs(e)
  BY FormAssumption DEF Open
<1>3. ASSUME NEW f \in e.fields PROVE FieldAsShown(f)'
  <2>1. f.name \notin DOMAIN body'
    BY <1>1 DEF Untouched
  <2>2. Sent(f.name)' = shown'[f.name]
    BY <1>1, <1>2, <2>1 DEF Sent, NewInputs
  <2>3. ASSUME f.array PROVE shown'[f.name] = arrayValues'[f.name]
    <3>1. arrayValues[f.name] = <<>>
      BY <1>1, <2>3, FieldsFit DEF Untouched, NoItems
    <3>2. shown'[f.name] = [i \in DOMAIN arrayValues[f.name] |-> NoText]
      BY <1>2, <2>3, FieldsFit DEF NewInputs
    <3>3. [i \in DOMAIN <<>> |-> NoText] = <<>>
      OBVIOUS
    <3> QED BY <1>1, <3>1, <3>2, <3>3
  <2> QED BY <2>1, <2>2, <2>3 DEF FieldAsShown
<1>4. OneEndpoint'
  BY <1>1, <1>2, <1>3 DEF OneEndpoint, Untouched
<1> QED BY <1>2, <1>4 DEF BodyInv

(* With another endpoint, it is no longer one only. *)
LEMMA ShowBody ==
    ASSUME PaneFits, NEW e \in Endpoints, Show(e)
    PROVE  BodyInv'
<1>1. endpoint \in served /\ endpoint # e /\ endpoint' = e /\ served' = served \cup {e} /\ e # None
  BY FormAssumption DEF Show, PaneFits
<1> QED BY <1>1 DEF BodyInv

LEMMA CloseBody == ASSUME Close PROVE BodyInv'
BY DEF Close, FreshSchemaForm, BodyInv, Untouched

(* A step on one field leaves what the others have and show alone. *)
LEMMA OthersAsShown ==
    ASSUME PaneFits, SchemaFits, OneEndpoint, endpoint \in Endpoints, endpoint' = endpoint,
           NEW f \in endpoint.fields, NEW g \in endpoint.fields, g # f,
           g.name \in DOMAIN body' <=> g.name \in DOMAIN body,
           g.name \in DOMAIN body => body'[g.name] = body[g.name],
           shown'[g.name] = shown[g.name],
           g.array => arrayValues'[g.name] = arrayValues[g.name],
           g.name \in enabledFields' <=> g.name \in enabledFields,
           g.name \in unsent' <=> g.name \in unsent,
           g.name \in shifted' <=> g.name \in shifted
    PROVE  FieldAsShown(g)'
<1>1. FieldAsShown(g) /\ (g.array <=> g.name \in ArraysOf(endpoint)) /\ g.name \in FieldNames
  BY FieldsFit DEF OneEndpoint
<1>2. NewInputs(endpoint)[g.name] = NewInputs(endpoint)'[g.name]
  BY <1>1 DEF NewInputs
<1>3. Sent(g.name)' = Sent(g.name)
  BY <1>2 DEF Sent
<1>4. Checked(g)' <=> Checked(g)
  BY DEF Checked
<1> QED BY <1>1, <1>3, <1>4 DEF FieldAsShown

LEMMA ToggleFieldBody ==
    ASSUME PaneFits, SchemaFits, OneEndpoint, endpoint \in Endpoints,
           NEW f \in endpoint.fields, ToggleField(f)
    PROVE  OneEndpoint'
<1>1. endpoint' = endpoint /\ UNCHANGED <<arrayValues, shown, shifted>>
  BY DEF ToggleField, EditField, Edit
<1>2. /\ value' = body' /\ DOMAIN body' = IF Checked(f) THEN DOMAIN body \ {f.name} ELSE DOMAIN body
      /\ \A n \in DOMAIN body' : body'[n] = body[n]
      /\ unsent' = IF Checked(f) THEN unsent \cup {f.name} ELSE unsent
  BY DEF ToggleField, DropValue, Emit, Restrict, OneEndpoint
<1>3. /\ ~f.required
      /\ \A n : n \in enabledFields' <=> IF n = f.name THEN n \notin enabledFields ELSE n \in enabledFields
  BY DEF ToggleField, SymDiff
<1>4. FieldAsShown(f)'
  <2>1. FieldAsShown(f) /\ (Checked(f)' <=> ~Checked(f))
    BY <1>3 DEF OneEndpoint, Checked
  <2>2. NewInputs(endpoint)' = NewInputs(endpoint)
    BY <1>1 DEF NewInputs
  <2>3. CASE Checked(f)
    BY <1>1, <1>2, <2>1, <2>3 DEF FieldAsShown
  <2>4. CASE ~Checked(f)
    BY <1>1, <1>2, <2>1, <2>2, <2>4 DEF FieldAsShown, Sent
  <2> QED BY <2>3, <2>4
<1>5. ASSUME NEW g \in endpoint.fields, g # f PROVE FieldAsShown(g)'
  <2>1. g.name # f.name
    BY <1>5, FieldsFit
  <2> QED BY <1>1, <1>2, <1>3, <1>5, <2>1, OthersAsShown
<1> QED BY <1>1, <1>2, <1>4, <1>5 DEF OneEndpoint

LEMMA UpdateValueBody ==
    ASSUME PaneFits, SchemaFits, OneEndpoint, endpoint \in Endpoints,
           NEW f \in endpoint.fields, NEW t, UpdateValue(f, t)
    PROVE  OneEndpoint'
<1>1. endpoint' = endpoint /\ ~f.array /\ UNCHANGED <<arrayValues, shifted>>
  BY DEF UpdateValue, EditField, Edit
<1>2. /\ value' = body' /\ DOMAIN body' = DOMAIN body \cup {f.name} /\ body'[f.name] = t
      /\ \A n \in DOMAIN body : n # f.name => body'[n] = body[n]
  BY DEF UpdateValue, Emit, Put, OneEndpoint
<1>3. /\ unsent' = unsent \ {f.name}
      /\ enabledFields' = IF f.required THEN enabledFields ELSE enabledFields \cup {f.name}
  BY DEF UpdateValue
<1>4. /\ f.name \in FieldNames
      /\ shown' = [shown EXCEPT ![f.name] = t] /\ shown'[f.name] = t
      /\ \A n : n # f.name => shown'[n] = shown[n]
  BY FieldsFit DEF UpdateValue, SchemaFits
<1>5. FieldAsShown(f)'
  <2>1. Sent(f.name)' = t
    BY <1>2 DEF Sent
  <2>2. Checked(f)'
    BY <1>3 DEF Checked
  <2> QED BY <1>1, <1>4, <2>1, <2>2 DEF FieldAsShown
<1>6. ASSUME NEW g \in endpoint.fields, g # f PROVE FieldAsShown(g)'
  <2>1. g.name # f.name
    BY <1>6, FieldsFit
  <2> QED BY <1>1, <1>2, <1>3, <1>4, <1>6, <2>1, OthersAsShown
<1> QED BY <1>1, <1>2, <1>5, <1>6 DEF OneEndpoint

(* What the steps on an array have in common: the other fields. *)
LEMMA ArrayStep ==
    ASSUME PaneFits, SchemaFits, OneEndpoint, endpoint \in Endpoints, endpoint' = endpoint,
           NEW f \in endpoint.fields, f.array,
           Checked(f) \/ f.name \notin unsent',
           NEW items, arrayValues' = [arrayValues EXCEPT ![f.name] = items],
           NEW inputs, shown' = [shown EXCEPT ![f.name] = inputs],
           UNCHANGED enabledFields, value' = body',
           \/ UNCHANGED body
           \/ body' = Put(body, f.name, items),
           \A n : n # f.name => (n \in unsent' <=> n \in unsent) /\ (n \in shifted' <=> n \in shifted),
           f.name \notin shifted' => inputs = items,
           f.name \notin unsent' \cup shifted' => body' = Put(body, f.name, items)
    PROVE  OneEndpoint'
<1>1. f.name \in FieldNames /\ f.name \in Arrays
  BY FieldsFit
<1>2. /\ shown'[f.name] = inputs /\ arrayValues'[f.name] = items
      /\ \A n : n # f.name => shown'[n] = shown[n]
      /\ \A n \in Arrays : n # f.name => arrayValues'[n] = arrayValues[n]
  BY <1>1 DEF SchemaFits
<1>3. FieldAsShown(f)'
  <2>1. Checked(f)' \/ f.name \notin unsent'
    BY DEF Checked
  <2>2. ASSUME f.name \notin unsent' \cup shifted' PROVE Sent(f.name)' = shown'[f.name]
    BY <1>2, <2>2 DEF Put, Sent
  <2> QED BY <1>2, <2>1, <2>2 DEF FieldAsShown
<1>4. ASSUME NEW g \in endpoint.fields, g # f PROVE FieldAsShown(g)'
  <2>1. g.name # f.name /\ (g.array => g.name \in Arrays)
    BY <1>4, FieldsFit
  <2>2. /\ g.name \in DOMAIN body' <=> g.name \in DOMAIN body
        /\ g.name \in DOMAIN body => body'[g.name] = body[g.name]
    BY <2>1 DEF Put
  <2>3. /\ shown'[g.name] = shown[g.name]
        /\ g.array => arrayValues'[g.name] = arrayValues[g.name]
        /\ g.name \in enabledFields' <=> g.name \in enabledFields
        /\ g.name \in unsent' <=> g.name \in unsent
        /\ g.name \in shifted' <=> g.name \in shifted
    BY <1>2, <2>1
  <2> QED BY <1>4, <2>2, <2>3, OthersAsShown
<1>5. DOMAIN body' \subseteq {g.name : g \in endpoint.fields}
  BY DEF OneEndpoint, Put
<1> QED BY <1>3, <1>4, <1>5 DEF OneEndpoint

LEMMA AddArrayItemBody ==
    ASSUME PaneFits, SchemaFits, OneEndpoint, endpoint \in Endpoints,
           NEW f \in endpoint.fields, AddArrayItem(f)
    PROVE  OneEndpoint'
<1> DEFINE items == Append(arrayValues[f.name], NoText)
           inputs == Append(shown[f.name], NoText)
<1>1. /\ endpoint' = endpoint /\ f.array /\ Checked(f) /\ UNCHANGED <<enabledFields, body, shifted>>
      /\ value' = body' /\ unsent' = unsent \cup {f.name}
  BY DEF AddArrayItem, EditArray, EditField, Edit, OneEndpoint
<1>2. f.name \in FieldNames /\ f.name \in Arrays
  BY <1>1, FieldsFit
<1>3. arrayValues' = [arrayValues EXCEPT ![f.name] = items] /\ shown' = [shown EXCEPT ![f.name] = inputs]
  BY <1>2 DEF AddArrayItem, SchemaFits
<1>4. f.name \notin shifted' => inputs = items
  BY <1>1 DEF OneEndpoint, FieldAsShown
<1> HIDE DEF items, inputs
<1> QED BY <1>1, <1>3, <1>4, ArrayStep

LEMMA RemoveArrayItemBody ==
    ASSUME PaneFits, SchemaFits, OneEndpoint, endpoint \in Endpoints,
           NEW f \in endpoint.fields, NEW i, RemoveArrayItem(f, i)
    PROVE  OneEndpoint'
<1> DEFINE items == RemoveAt(arrayValues[f.name], i)
           inputs == Front(shown[f.name])
<1>1. /\ endpoint' = endpoint /\ f.array /\ Checked(f) /\ UNCHANGED <<enabledFields, body>>
      /\ value' = body' /\ unsent' = unsent \cup {f.name}
      /\ shifted' = IF i < Len(arrayValues[f.name]) THEN shifted \cup {f.name} ELSE shifted
  BY DEF RemoveArrayItem, EditArray, EditField, Edit, OneEndpoint
<1>2. f.name \in FieldNames /\ f.name \in Arrays
  BY <1>1, FieldsFit
<1>3. arrayValues' = [arrayValues EXCEPT ![f.name] = items] /\ shown' = [shown EXCEPT ![f.name] = inputs]
  BY <1>2 DEF RemoveArrayItem, SchemaFits
<1>4. arrayValues[f.name] \in Seq(STRING) /\ i \in DOMAIN arrayValues[f.name]
  BY <1>2 DEF SchemaFits, RemoveArrayItem
<1>5. i \in 1..Len(arrayValues[f.name])
  BY <1>4
<1>6. ASSUME f.name \notin shifted' PROVE inputs = items
  <2>1. f.name \notin shifted /\ i = Len(arrayValues[f.name])
    BY <1>1, <1>4, <1>5, <1>6
  <2>2. shown[f.name] = arrayValues[f.name]
    BY <1>1, <2>1 DEF OneEndpoint, FieldAsShown
  <2> QED BY <1>4, <1>5, <2>1, <2>2, Removed
<1> HIDE DEF items, inputs
<1> QED BY <1>1, <1>3, <1>6, ArrayStep

LEMMA UpdateArrayItemBody ==
    ASSUME PaneFits, SchemaFits, OneEndpoint, endpoint \in Endpoints,
           NEW f \in endpoint.fields, NEW i, NEW t, UpdateArrayItem(f, i, t)
    PROVE  OneEndpoint'
<1> DEFINE items == [arrayValues[f.name] EXCEPT ![i] = t]
           inputs == [shown[f.name] EXCEPT ![i] = t]
<1>1. /\ endpoint' = endpoint /\ f.array /\ UNCHANGED <<enabledFields, shifted>>
      /\ value' = body' /\ unsent' = unsent \ {f.name}
      /\ body' = Put(body, f.name, arrayValues'[f.name])
  BY DEF UpdateArrayItem, EditField, Edit, Emit, OneEndpoint
<1>2. f.name \in FieldNames /\ f.name \in Arrays
  BY <1>1, FieldsFit
<1>3. arrayValues' = [arrayValues EXCEPT ![f.name] = items] /\ shown' = [shown EXCEPT ![f.name] = inputs]
  BY <1>2 DEF UpdateArrayItem, SchemaFits
<1>4. arrayValues'[f.name] = items
  BY <1>2, <1>3 DEF SchemaFits
<1>5. f.name \notin shifted' => inputs = items
  BY <1>1 DEF OneEndpoint, FieldAsShown
<1> HIDE DEF items, inputs
<1> QED BY <1>1, <1>3, <1>4, <1>5, ArrayStep

LEMMA FieldStepBody ==
    ASSUME PaneFits, SchemaFits, BodyInv, FieldStep
    PROVE  BodyInv'
<1>1. /\ endpoint # None /\ endpoint \in Endpoints /\ UNCHANGED <<endpoint, served>>
  BY FieldStepEffect DEF PaneFits
<1>2. ASSUME OneEndpoint PROVE OneEndpoint'
  <2>1. PICK f \in endpoint.fields :
           \/ ToggleField(f)
           \/ AddArrayItem(f)
           \/ \E i \in 1..MaxItems : RemoveArrayItem(f, i)
           \/ \E t \in f.texts : UpdateValue(f, t) \/ \E i \in 1..MaxItems : UpdateArrayItem(f, i, t)
    BY DEF FieldStep
  <2> QED BY <1>1, <1>2, <2>1, ToggleFieldBody, AddArrayItemBody, RemoveArrayItemBody,
             UpdateValueBody, UpdateArrayItemBody
<1> QED BY <1>1, <1>2 DEF BodyInv

LEMMA BodyNext == FormBase /\ BodyInv /\ [FormNext]_vars => BodyInv'
<1> SUFFICES ASSUME PaneFits, SchemaFits, BodyInv, [FormNext]_vars PROVE BodyInv'
  BY DEF FormBase
<1>1. CASE UNCHANGED <<endpoint, served, body, schemaVars>>
  <2>1. Untouched' <=> Untouched
    BY <1>1 DEF schemaVars, Untouched
  <2>2. OneEndpoint' <=> OneEndpoint
    BY <1>1 DEF schemaVars, OneEndpoint, FieldAsShown, Checked, Sent, NewInputs
  <2> QED BY <1>1, <2>1, <2>2 DEF BodyInv
<1> QED BY <1>1, FormKinds, ParamStepEffect, OpenBody, ShowBody, CloseBody, FieldStepBody
        DEF formVars

(* While one endpoint is shown, the body has the fields that are switched on *)
(* with what their inputs show, but for those the form keeps to itself, and  *)
(* of those that are off only an array whose item was changed since, from    *)
(* the keyboard: true however many fields and items there are, and whatever  *)
(* is typed.                                                                 *)
THEOREM BodyMatchesInputs == FormSpec => []BodyAsShown
<1>1. BodyInv => BodyAsShown
  BY DEF BodyInv, OneEndpoint, FieldAsShown, BodyAsShown
<1>2. FormSpec => []BodyInv
  BY BodyInit, BodyNext, FormBaseAlways, PTL DEF FormSpec
<1> QED BY <1>1, <1>2, PTL
------------------------------------------------------------------------------
(* The path is filled from one entry after the other. *)

LEMMA NatSetInduction ==
    ASSUME NEW T \in SUBSET Nat, 0 \in T, \A n \in T : n + 1 \in T
    PROVE  T = Nat
<1> DEFINE Rel == OpToRel(<, Nat)
<1> SUFFICES ASSUME Nat \ T # {} PROVE FALSE
  OBVIOUS
<1>1. IsWellFoundedOn(Rel, Nat)
  BY NatLessThanWellFounded
<1>2. \A m, n \in Nat : m < n => <<m, n>> \in Rel
  BY DEF OpToRel
<1> HIDE DEF Rel
<1>3. PICK n \in Nat \ T : \A m \in Nat \ T : ~(<<m, n>> \in Rel)
  BY <1>1, WFMin
<1>4. n # 0 /\ n - 1 \in Nat /\ n - 1 < n
  OBVIOUS
<1>5. n - 1 \in T
  BY <1>2, <1>3, <1>4
<1> QED BY <1>3, <1>4, <1>5

LEMMA LeastNatural ==
    ASSUME NEW S \in SUBSET Nat, S # {}
    PROVE  Min(S) \in S /\ \A i \in S : Min(S) <= i
<1> DEFINE Rel == OpToRel(<, Nat)
<1>1. IsWellFoundedOn(Rel, Nat)
  BY NatLessThanWellFounded
<1>2. \A m, n \in Nat : m < n => <<m, n>> \in Rel
  BY DEF OpToRel
<1> HIDE DEF Rel
<1>3. PICK n \in S : \A m \in S : ~(<<m, n>> \in Rel)
  BY <1>1, WFMin
<1>4. ASSUME NEW m \in S PROVE n <= m
  <2>1. m \in Nat /\ n \in Nat
    OBVIOUS
  <2>2. ~(m < n)
    BY <1>2, <1>3, <2>1
  <2> QED BY <2>1, <2>2
<1> QED BY <1>3, <1>4 DEF Min

FilledWith(path, entries) == FoldLeft(Filled, path, entries)

(* What FoldLeft computes over the sets of places, largest place first. *)
FilledFrom(path, entries, S, f) ==
    f = [s \in SUBSET S |-> IF s = {} THEN path
                            ELSE Filled(f[s \ {Max(s)}], entries[Max(s)])]

LEMMA FoldIs ==
    ASSUME NEW path, NEW entries
    PROVE  FilledWith(path, entries)
             = (CHOOSE f : FilledFrom(path, entries, DOMAIN entries, f))[DOMAIN entries]
BY DEF FilledWith, FoldLeft, MapThenFoldSet, FilledFrom

LEMMA GreatestPlace ==
    ASSUME NEW n \in Nat, NEW s \in SUBSET (1..(n + 1)), n + 1 \in s
    PROVE  Max(s) = n + 1
<1>1. \A i \in s : n + 1 >= i
  OBVIOUS
<1>2. \A x \in s : (\A y \in s : x >= y) => x = n + 1
  <2> SUFFICES ASSUME NEW x \in s, \A y \in s : x >= y PROVE x = n + 1
    OBVIOUS
  <2>1. x >= n + 1 /\ n + 1 >= x /\ x \in Nat
    BY <1>1
  <2> QED BY <2>1
<1> QED BY <1>1, <1>2 DEF Max

LEMMA FilledExists ==
    ASSUME NEW path, NEW entries, NEW len \in Nat
    PROVE  \E f : FilledFrom(path, entries, 1..len, f)
<1> DEFINE T == {n \in Nat : \E f : FilledFrom(path, entries, 1..n, f)}
<1>1. 0 \in T
  <2> DEFINE f == [s \in SUBSET (1..0) |-> path]
  <2>1. FilledFrom(path, entries, 1..0, f)
    <3>1. \A s \in SUBSET (1..0) : s = {}
      OBVIOUS
    <3> QED BY <3>1 DEF FilledFrom
  <2> QED BY <2>1
<1>2. ASSUME NEW n \in T PROVE n + 1 \in T
  <2>1. PICK f : FilledFrom(path, entries, 1..n, f)
    OBVIOUS
  <2> DEFINE G(s) == IF n + 1 \in s THEN Filled(f[s \ {n + 1}], entries[n + 1]) ELSE f[s]
             g == [s \in SUBSET (1..(n + 1)) |-> G(s)]
  <2>2. n \in Nat /\ n + 1 \in Nat
    OBVIOUS
  <2>3. ASSUME NEW s \in SUBSET (1..(n + 1))
        PROVE  g[s] = IF s = {} THEN path ELSE Filled(g[s \ {Max(s)}], entries[Max(s)])
    <3>1. CASE n + 1 \in s
      <4>1. Max(s) = n + 1 /\ s # {}
        BY <2>2, <3>1, GreatestPlace
      <4>2. s \ {n + 1} \in SUBSET (1..(n + 1)) /\ n + 1 \notin s \ {n + 1}
        OBVIOUS
      <4>3. g[s \ {n + 1}] = f[s \ {n + 1}]
        BY <4>2
      <4>4. g[s] = Filled(f[s \ {n + 1}], entries[n + 1])
        BY <2>3, <3>1
      <4> HIDE DEF g
      <4> QED BY <4>1, <4>3, <4>4
    <3>2. CASE n + 1 \notin s
      <4>1. s \in SUBSET (1..n) /\ s \ {Max(s)} \in SUBSET (1..(n + 1))
            /\ n + 1 \notin s \ {Max(s)}
        <5>1. ASSUME NEW i \in s PROVE i \in 1..n
          <6>1. i \in 1..(n + 1) /\ i # n + 1
            BY <3>2
          <6> QED BY <2>2, <6>1
        <5> QED BY <3>2, <5>1
      <4>2. g[s] = f[s] /\ g[s \ {Max(s)}] = f[s \ {Max(s)}]
        BY <2>3, <3>2, <4>1
      <4>3. f[s] = IF s = {} THEN path ELSE Filled(f[s \ {Max(s)}], entries[Max(s)])
        BY <2>1, <4>1 DEF FilledFrom
      <4> HIDE DEF g
      <4> QED BY <4>2, <4>3
    <3> QED BY <3>1, <3>2
  <2>4. g = [s \in SUBSET (1..(n + 1)) |-> g[s]]
    OBVIOUS
  <2>5. FilledFrom(path, entries, 1..(n + 1), g)
    <3> HIDE DEF g
    <3> QED BY <2>3, <2>4 DEF FilledFrom
  <2> HIDE DEF g
  <2> QED BY <2>2, <2>5
<1>3. T = Nat
  <2> HIDE DEF T
  <2>1. T \subseteq Nat
    BY DEF T
  <2> QED BY <1>1, <1>2, <2>1, NatSetInduction
<1> QED BY <1>3

LEMMA FillRuns ==
    ASSUME NEW path, NEW entries, Len(entries) \in Nat, DOMAIN entries = 1..Len(entries)
    PROVE  \E h : /\ h[0] = path
                  /\ \A k \in 1..Len(entries) : h[k] = Filled(h[k - 1], entries[k])
                  /\ FilledWith(path, entries) = h[Len(entries)]
<1> DEFINE len == Len(entries)
           f == CHOOSE f : FilledFrom(path, entries, 1..len, f)
           h == [k \in 0..len |-> f[1..k]]
<1>1. FilledFrom(path, entries, 1..len, f)
  BY FilledExists
<1>2. FilledWith(path, entries) = f[1..len]
  BY FoldIs
<1>3. len \in Nat
  OBVIOUS
<1> HIDE DEF f, len
<1>4. h[0] = path
  <2>1. 1..0 = {} /\ h[0] = f[{}]
    BY <1>3
  <2>2. f[{}] = path
    BY <1>1 DEF FilledFrom
  <2> QED BY <2>1, <2>2
<1>5. ASSUME NEW k \in 1..len PROVE h[k] = Filled(h[k - 1], entries[k])
  <2>1. k - 1 \in Nat /\ k \in 0..len /\ k - 1 \in 0..len /\ (k - 1) + 1 = k
    BY <1>3
  <2>2. 1..k \in SUBSET (1..len) /\ k \in 1..k /\ 1..k # {} /\ (1..k) \ {k} = 1..(k - 1)
    BY <1>3
  <2>3. Max(1..k) = k
    BY <2>1, <2>2, GreatestPlace
  <2>4. f[1..k] = Filled(f[(1..k) \ {Max(1..k)}], entries[Max(1..k)])
    BY <1>1, <2>2 DEF FilledFrom
  <2> QED BY <2>1, <2>2, <2>3, <2>4
<1>6. h[len] = f[1..len]
  BY <1>3
<1> HIDE DEF h
<1> QED BY <1>2, <1>4, <1>5, <1>6 DEF len
------------------------------------------------------------------------------
(* Each placeholder of a path is filled with the text typed for it. *)

PathPieces == [text : STRING, encoded : BOOLEAN]

(* The text among the first k entries that has been put in for a name. *)
Supplied(entries, k, name, text) ==
    \E j \in 1..k : entries[j].name = name /\ entries[j].value = text /\ text # NoText

LEMMA PiecesDiffer ==
    /\ \A text, name : Encoded(text) # Placeholder(name)
    /\ \A text : Encoded(text).encoded = TRUE
BY DEF Encoded, Placeholder

(* One entry: its placeholder's first place, and no other, is filled. *)
LEMMA FillOne ==
    ASSUME NEW path, DOMAIN path \subseteq Nat, NEW entry
    PROVE  /\ DOMAIN Filled(path, entry) = DOMAIN path
           /\ entry.value = NoText => Filled(path, entry) = path
           /\ \A i \in DOMAIN path :
                 /\ path[i] # Placeholder(entry.name) => Filled(path, entry)[i] = path[i]
                 /\ Filled(path, entry)[i] \in {path[i], Encoded(entry.value)}
                 /\ entry.value # NoText /\ First(Placeholder(entry.name), path, i) =>
                       Filled(path, entry)[i] = Encoded(entry.value)
<1> DEFINE places == {i \in DOMAIN path : path[i] = Placeholder(entry.name)}
<1>1. CASE entry.value = NoText \/ places = {}
  <2>1. Filled(path, entry) = path
    BY <1>1 DEF Filled
  <2>2. ASSUME NEW i \in DOMAIN path, entry.value # NoText, First(Placeholder(entry.name), path, i)
        PROVE  FALSE
    BY <1>1, <2>2 DEF First
  <2> QED BY <2>1, <2>2
<1>2. CASE entry.value # NoText /\ places # {}
  <2>1. Filled(path, entry) = [path EXCEPT ![Min(places)] = Encoded(entry.value)]
    BY <1>2 DEF Filled
  <2>2. places \in SUBSET Nat
    OBVIOUS
  <2>3. Min(places) \in places /\ \A i \in places : Min(places) <= i
    <3> HIDE DEF places
    <3> QED BY <1>2, <2>2, LeastNatural
  <2>4. ASSUME NEW i \in DOMAIN path, First(Placeholder(entry.name), path, i)
        PROVE  i = Min(places)
    <3>1. i \in places /\ i \in Nat /\ Min(places) \in Nat
      BY <2>3, <2>4 DEF First
    <3>2. i <= Min(places)
      BY <2>3, <2>4 DEF First
    <3>3. Min(places) <= i
      BY <2>3, <3>1
    <3> HIDE DEF places
    <3> QED BY <3>1, <3>2, <3>3
  <2>5. Min(places) \in DOMAIN path /\ path[Min(places)] = Placeholder(entry.name)
    BY <2>3
  <2> HIDE DEF places
  <2> QED BY <1>2, <2>1, <2>4, <2>5
<1> QED BY <1>1, <1>2

(* All of them, in whatever order they were typed. *)
LEMMA FillAll ==
    ASSUME NEW path \in Seq(PathPieces), NEW entries \in Seq(Entries),
           \A i, j \in DOMAIN entries : entries[i].name = entries[j].name => i = j,
           NEW h, h[0] = path,
           \A k \in 1..Len(entries) : h[k] = Filled(h[k - 1], entries[k])
    PROVE  \A m \in Names, i \in DOMAIN path : \A text :
              First(Placeholder(m), path, i) /\ Supplied(entries, Len(entries), m, text) =>
                 h[Len(entries)][i] = Encoded(text)
<1> SUFFICES ASSUME NEW m \in Names, NEW i \in DOMAIN path, First(Placeholder(m), path, i)
             PROVE  \A text : Supplied(entries, Len(entries), m, text) =>
                                 h[Len(entries)][i] = Encoded(text)
  OBVIOUS
<1> DEFINE len == Len(entries)
           P(k) == /\ DOMAIN h[k] = DOMAIN path
                   /\ \A text : Supplied(entries, k, m, text) => h[k][i] = Encoded(text)
                   /\ (\A text : ~Supplied(entries, k, m, text)) => First(Placeholder(m), h[k], i)
           T == {k \in Nat : k <= len => P(k)}
<1>1. len \in Nat /\ DOMAIN entries = 1..len
  OBVIOUS
<1>2. DOMAIN path \subseteq Nat
  OBVIOUS
<1>3. 0 \in T
  <2>1. \A text : ~Supplied(entries, 0, m, text)
    BY DEF Supplied
  <2> QED BY <2>1
<1>4. ASSUME NEW k \in T PROVE k + 1 \in T
  <2> SUFFICES ASSUME k + 1 <= len PROVE P(k + 1)
    OBVIOUS
  <2>1. k \in Nat /\ k + 1 \in 1..len /\ (k + 1) - 1 = k /\ k <= len
    BY <1>1
  <2>2. P(k)
    BY <2>1
  <2> DEFINE entry == entries[k + 1]
  <2>3. h[k + 1] = Filled(h[k], entry)
    BY <2>1
  <2>4. entry \in Entries /\ entry.name \in Names
    <3>1. entry \in Entries
      BY <1>1, <2>1
    <3> HIDE DEF entry
    <3> QED BY <3>1 DEF Entries
  <2>5. \A text : Supplied(entries, k + 1, m, text) <=>
            Supplied(entries, k, m, text) \/ (entry.name = m /\ entry.value = text /\ text # NoText)
    <3>1. 1..(k + 1) = 1..k \cup {k + 1}
      BY <2>1
    <3> HIDE DEF P
    <3> QED BY <3>1 DEF Supplied
  <2>6. entry.name = m => \A text : ~Supplied(entries, k, m, text)
    <3>1. \A j \in 1..k : j \in 1..len /\ j # k + 1
      BY <1>1, <2>1
    <3> QED BY <1>1, <2>1, <3>1 DEF Supplied
  <2> HIDE DEF entry
  <2>7. /\ DOMAIN h[k + 1] = DOMAIN h[k]
        /\ entry.value = NoText => h[k + 1] = h[k]
        /\ \A j \in DOMAIN path :
              /\ h[k][j] # Placeholder(entry.name) => h[k + 1][j] = h[k][j]
              /\ h[k + 1][j] \in {h[k][j], Encoded(entry.value)}
              /\ entry.value # NoText /\ First(Placeholder(entry.name), h[k], j) =>
                    h[k + 1][j] = Encoded(entry.value)
    <3> DEFINE cur == h[k]
    <3>1. DOMAIN cur = DOMAIN path
      BY <2>2
    <3>2. h[k + 1] = Filled(cur, entry)
      BY <2>3
    <3> HIDE DEF cur
    <3>3. DOMAIN cur \subseteq Nat
      BY <1>2, <3>1
    <3>4. /\ DOMAIN Filled(cur, entry) = DOMAIN cur
          /\ entry.value = NoText => Filled(cur, entry) = cur
          /\ \A j \in DOMAIN cur :
                /\ cur[j] # Placeholder(entry.name) => Filled(cur, entry)[j] = cur[j]
                /\ Filled(cur, entry)[j] \in {cur[j], Encoded(entry.value)}
                /\ entry.value # NoText /\ First(Placeholder(entry.name), cur, j) =>
                      Filled(cur, entry)[j] = Encoded(entry.value)
      BY ONLY <3>3, FillOne
    <3> QED BY <3>1, <3>2, <3>4 DEF cur
  <2>8. ASSUME NEW text, Supplied(entries, k + 1, m, text) PROVE h[k + 1][i] = Encoded(text)
    <3>1. CASE Supplied(entries, k, m, text)
      BY <2>2, <2>7, <3>1, PiecesDiffer
    <3>2. CASE entry.name = m /\ entry.value = text /\ text # NoText
      <4>1. First(Placeholder(m), h[k], i)
        BY <2>2, <2>6, <3>2
      <4> QED BY <2>7, <3>2, <4>1
    <3> QED BY <2>5, <2>8, <3>1, <3>2
  <2>9. ASSUME \A text : ~Supplied(entries, k + 1, m, text) PROVE First(Placeholder(m), h[k + 1], i)
    <3>1. First(Placeholder(m), h[k], i)
      BY <2>2, <2>5, <2>9
    <3>2. CASE entry.value = NoText
      BY <2>7, <3>1, <3>2
    <3>3. CASE entry.value # NoText
      <4>1. entry.name # m
        BY <2>5, <2>9, <3>3
      <4>2. Placeholder(entry.name) # Placeholder(m)
        BY <2>4, <4>1, TextAssumption
      <4>3. h[k + 1][i] = Placeholder(m)
        BY <2>7, <3>1, <4>2 DEF First
      <4>4. \A j \in DOMAIN path : h[k + 1][j] = Placeholder(m) => h[k][j] = Placeholder(m)
        BY <2>7, PiecesDiffer
      <4> QED BY <2>2, <2>7, <3>1, <4>3, <4>4 DEF First
    <3> QED BY <3>2, <3>3
  <2> QED BY <2>2, <2>7, <2>8, <2>9
<1>5. T = Nat
  <2> HIDE DEF T
  <2>1. T \subseteq Nat
    BY DEF T
  <2> QED BY <1>3, <1>4, <2>1, NatSetInduction
<1>6. P(len)
  BY <1>1, <1>5
<1> QED BY <1>6

LEMMA FillsEach ==
    ASSUME NEW path \in Seq(PathPieces), NEW entries \in Seq(Entries),
           \A i, j \in DOMAIN entries : entries[i].name = entries[j].name => i = j
    PROVE  /\ DOMAIN FilledWith(path, entries) = DOMAIN path
           /\ \A m \in Names, i \in DOMAIN path : \A text :
                 First(Placeholder(m), path, i) /\ Supplied(entries, Len(entries), m, text) =>
                    FilledWith(path, entries)[i] = Encoded(text)
<1>1. Len(entries) \in Nat /\ DOMAIN entries = 1..Len(entries) /\ DOMAIN path \subseteq Nat
  OBVIOUS
<1>2. PICK h : /\ h[0] = path
               /\ \A k \in 1..Len(entries) : h[k] = Filled(h[k - 1], entries[k])
               /\ FilledWith(path, entries) = h[Len(entries)]
  BY <1>1, FillRuns
<1>3. DOMAIN h[Len(entries)] = DOMAIN path
  <2> DEFINE T == {k \in Nat : k <= Len(entries) => DOMAIN h[k] = DOMAIN path}
  <2>1. 0 \in T
    BY <1>2
  <2>2. ASSUME NEW k \in T PROVE k + 1 \in T
    <3> SUFFICES ASSUME k + 1 <= Len(entries) PROVE DOMAIN h[k + 1] = DOMAIN path
      OBVIOUS
    <3>1. k + 1 \in 1..Len(entries) /\ (k + 1) - 1 = k /\ k <= Len(entries)
      BY <1>1
    <3>2. h[k + 1] = Filled(h[k], entries[k + 1]) /\ DOMAIN h[k] = DOMAIN path
      BY <1>2, <3>1
    <3>3. DOMAIN h[k] \subseteq Nat
      BY <1>1, <3>2
    <3>4. DOMAIN Filled(h[k], entries[k + 1]) = DOMAIN h[k]
      BY ONLY <3>3, FillOne
    <3> QED BY <3>2, <3>4
  <2>3. T = Nat
    <3> HIDE DEF T
    <3>1. T \subseteq Nat
      BY DEF T
    <3> QED BY <2>1, <2>2, <3>1, NatSetInduction
  <2> QED BY <1>1, <2>3
<1>4. \A m \in Names, i \in DOMAIN path : \A text :
         First(Placeholder(m), path, i) /\ Supplied(entries, Len(entries), m, text) =>
            h[Len(entries)][i] = Encoded(text)
  <2>1. /\ h[0] = path
        /\ \A k \in 1..Len(entries) : h[k] = Filled(h[k - 1], entries[k])
        /\ \A a, b \in DOMAIN entries : entries[a].name = entries[b].name => a = b
    BY <1>2
  <2>2. path \in Seq(PathPieces) /\ entries \in Seq(Entries)
    OBVIOUS
  <2> QED BY ONLY <2>1, <2>2, FillAll
<1>5. FilledWith(path, entries) = h[Len(entries)]
  BY <1>2
<1>6. DOMAIN FilledWith(path, entries) = DOMAIN path
  BY <1>3, <1>5
<1> QED BY <1>4, <1>5, <1>6

(* Nothing but the entries' texts comes into a path, each for its own name. *)
LEMMA FillsNoOther ==
    ASSUME NEW path \in Seq(PathPieces), NEW entries \in Seq(Entries)
    PROVE  \A i \in DOMAIN path :
              FilledWith(path, entries)[i] # path[i] =>
                 \E j \in DOMAIN entries :
                    /\ path[i] = Placeholder(entries[j].name)
                    /\ FilledWith(path, entries)[i] = Encoded(entries[j].value)
<1> DEFINE len == Len(entries)
<1>1. len \in Nat /\ DOMAIN entries = 1..len /\ DOMAIN path \subseteq Nat
  OBVIOUS
<1>2. PICK h : /\ h[0] = path
               /\ \A k \in 1..len : h[k] = Filled(h[k - 1], entries[k])
               /\ FilledWith(path, entries) = h[len]
  BY <1>1, FillRuns
<1> DEFINE From(k, i) == \E j \in 1..k : /\ path[i] = Placeholder(entries[j].name)
                                         /\ h[k][i] = Encoded(entries[j].value)
           P(k) == /\ DOMAIN h[k] = DOMAIN path
                   /\ \A i \in DOMAIN path : h[k][i] = path[i] \/ From(k, i)
           T == {k \in Nat : k <= len => P(k)}
<1>3. 0 \in T
  BY <1>2
<1>4. ASSUME NEW k \in T PROVE k + 1 \in T
  <2> SUFFICES ASSUME k + 1 <= len PROVE P(k + 1)
    OBVIOUS
  <2>1. k \in Nat /\ k + 1 \in 1..len /\ (k + 1) - 1 = k /\ k <= len
    BY <1>1
  <2> DEFINE cur == h[k]
             entry == entries[k + 1]
  <2>2. DOMAIN cur = DOMAIN path /\ \A i \in DOMAIN path : cur[i] = path[i] \/ From(k, i)
    BY <2>1
  <2>3. h[k + 1] = Filled(cur, entry)
    BY <1>2, <2>1
  <2>4. /\ DOMAIN Filled(cur, entry) = DOMAIN cur
        /\ \A i \in DOMAIN cur :
              /\ cur[i] # Placeholder(entry.name) => Filled(cur, entry)[i] = cur[i]
              /\ Filled(cur, entry)[i] \in {cur[i], Encoded(entry.value)}
    <3>1. DOMAIN cur \subseteq Nat
      BY <1>1, <2>2
    <3> HIDE DEF cur, entry
    <3> QED BY ONLY <3>1, FillOne
  <2>5. ASSUME NEW i \in DOMAIN path PROVE h[k + 1][i] = path[i] \/ From(k + 1, i)
    <3>1. CASE h[k + 1][i] = cur[i] /\ cur[i] = path[i]
      BY <3>1
    <3>2. CASE h[k + 1][i] = cur[i] /\ From(k, i)
      BY <2>1, <3>2
    <3>3. CASE h[k + 1][i] # cur[i]
      <4>1. cur[i] = Placeholder(entry.name) /\ h[k + 1][i] = Encoded(entry.value)
        BY <2>2, <2>3, <2>4, <3>3
      <4>2. cur[i] = path[i]
        BY <2>2, <4>1, PiecesDiffer
      <4> DEFINE m == k + 1
      <4>3. m \in 1..m
        BY <2>1
      <4>4. path[i] = Placeholder(entries[m].name) /\ h[m][i] = Encoded(entries[m].value)
        BY <4>1, <4>2
      <4> HIDE DEF m
      <4>5. From(m, i)
        BY <4>3, <4>4
      <4> QED BY <4>5 DEF m
    <3> QED BY <2>2, <3>1, <3>2, <3>3
  <2> QED BY <2>2, <2>3, <2>4, <2>5
<1>5. T = Nat
  <2> HIDE DEF T
  <2>1. T \subseteq Nat
    BY DEF T
  <2> QED BY <1>3, <1>4, <2>1, NatSetInduction
<1>6. P(len)
  BY <1>1, <1>5
<1> QED BY <1>1, <1>2, <1>6

LEMMA PathIsFilled ==
    ASSUME ParamsFit, endpoint \in Endpoints
    PROVE  /\ DOMAIN Path = DOMAIN endpoint.path
           /\ \A m \in Names, i \in DOMAIN endpoint.path :
                 First(Placeholder(m), endpoint.path, i) /\ PathValue(m) # NoText =>
                    Path[i] = Encoded(PathValue(m))
<1> DEFINE path == endpoint.path
           entries == pathParams
<1>1. path \in Seq(PathPieces)
  BY FormAssumption DEF PathPieces
<1>2. /\ entries \in Seq(Entries) /\ Len(entries) \in Nat /\ DOMAIN entries = 1..Len(entries)
      /\ \A i, j \in DOMAIN entries : entries[i].name = entries[j].name => i = j
  BY DEF ParamsFit
<1>3. Path = FilledWith(path, entries)
  BY DEF Path, FilledWith, FoldLeft, MapThenFoldSet
<1>4. ASSUME NEW m \in Names, PathValue(m) # NoText
      PROVE  Supplied(entries, Len(entries), m, PathValue(m))
  <2>1. PICK j \in DOMAIN entries : entries[j].name = m /\ PathValue(m) = entries[j].value
    BY <1>4 DEF PathValue, PathEntries
  <2> QED BY <1>2, <1>4, <2>1 DEF Supplied
<1> HIDE DEF path, entries
<1>5. /\ DOMAIN FilledWith(path, entries) = DOMAIN path
      /\ \A m \in Names, i \in DOMAIN path : \A text :
            First(Placeholder(m), path, i) /\ Supplied(entries, Len(entries), m, text) =>
               FilledWith(path, entries)[i] = Encoded(text)
  BY <1>1, <1>2, FillsEach
<1>6. /\ DOMAIN Path = DOMAIN path
      /\ \A m \in Names, i \in DOMAIN path :
            First(Placeholder(m), path, i) /\ PathValue(m) # NoText =>
               Path[i] = Encoded(PathValue(m))
  BY <1>3, <1>4, <1>5
<1> QED BY <1>6 DEF path

(* Each entry was typed for a parameter of an endpoint the pane has shown. *)
EntriesKnown ==
    \A i \in DOMAIN pathParams : \E e \in served : Declares(e, pathParams[i].name)

LEMMA EntriesKnownNext ==
    ASSUME PaneFits, ParamsFit, EntriesKnown, [FormNext]_vars
    PROVE  EntriesKnown'
<1>1. CASE Close
  BY <1>1 DEF Close, EntriesKnown
<1>2. CASE UNCHANGED pathParams /\ served \subseteq served'
  BY <1>2 DEF EntriesKnown, Declares
<1>3. ASSUME NEW e \in Endpoints, Open(e) PROVE EntriesKnown'
  <2>1. pathParams' = pathParams /\ served = {}
    BY <1>3 DEF Open, PaneFits, paramVars
  <2> QED BY <2>1 DEF EntriesKnown
<1>4. ASSUME NEW e \in Endpoints, Show(e) PROVE EntriesKnown'
  BY <1>2, <1>4 DEF Show, paramVars
<1>5. ASSUME NEW u \in Urls, TypeUrl(u) PROVE EntriesKnown'
  BY <1>2, <1>5 DEF TypeUrl, EditParams, Edit
<1>6. CASE ParamStep
  <2>1. PICK p \in endpoint.parameters :
           \/ ToggleParameter(p)
           \/ \E t \in p.texts \cup {NoText} : UpdatePathParam(p, t) \/ UpdateParam(p, t)
    BY <1>6 DEF ParamStep
  <2>2. endpoint \in served /\ served' = served
    BY <1>6, ParamStepEffect DEF ParamStep, PaneFits
  <2>3. ASSUME NEW t, UpdatePathParam(p, t) PROVE EntriesKnown'
    <3>1. Declares(endpoint, p.name)
      BY <2>3 DEF UpdatePathParam, In, Declares
    <3>2. ASSUME NEW i \in DOMAIN pathParams'
          PROVE  \/ pathParams'[i].name = p.name
                 \/ i \in DOMAIN pathParams /\ pathParams'[i] = pathParams[i]
      <4>1. CASE PathEntries(p.name) = {}
        <5>1. pathParams' = Append(pathParams, [name |-> p.name, value |-> t])
          BY <2>3, <4>1 DEF UpdatePathParam
        <5>2. Len(pathParams) \in Nat /\ DOMAIN pathParams = 1..Len(pathParams)
          BY DEF ParamsFit
        <5>3. i \in 1..Len(pathParams) \/ i = Len(pathParams) + 1
          BY <3>2, <5>1, <5>2
        <5> QED BY <5>1, <5>2, <5>3
      <4>2. CASE PathEntries(p.name) # {}
        BY <2>3, <3>2, <4>2 DEF UpdatePathParam
      <4> QED BY <4>1, <4>2
    <3> QED BY <2>2, <3>1, <3>2 DEF EntriesKnown, Declares
  <2>4. CASE UNCHANGED pathParams
    BY <1>2, <2>2, <2>4
  <2> QED BY <2>1, <2>3, <2>4 DEF ToggleParameter, UpdateParam
<1>7. CASE FieldStep
  BY <1>2, <1>7, FieldStepEffect DEF paramVars
<1>8. CASE UNCHANGED formVars
  BY <1>2, <1>8 DEF formVars, paramVars
<1> QED BY <1>1, <1>3, <1>4, <1>5, <1>6, <1>7, <1>8, FormKinds

LEMMA EntriesKnownAlways == FormSpec => []EntriesKnown
<1>1. FormInit => EntriesKnown
  BY DEF FormInit, EntriesKnown
<1>2. FormBase /\ EntriesKnown /\ [FormNext]_vars => EntriesKnown'
  BY EntriesKnownNext DEF FormBase
<1> QED BY <1>1, <1>2, FormBaseAlways, PTL DEF FormSpec

LEMMA PathFromItsOwn ==
    ASSUME ParamsFit, EntriesKnown, endpoint \in Endpoints
    PROVE  PathIsOwn
<1> DEFINE path == endpoint.path
           entries == pathParams
<1>1. path \in Seq(PathPieces) /\ entries \in Seq(Entries)
  BY FormAssumption DEF PathPieces, ParamsFit
<1>2. Path = FilledWith(path, entries)
  BY DEF Path, FilledWith, FoldLeft, MapThenFoldSet
<1>3. SUFFICES ASSUME NEW i \in DOMAIN path, Path[i] # path[i]
               PROVE  \E n \in Names :
                         /\ path[i] = Placeholder(n) /\ Path[i] = Encoded(PathValue(n))
                         /\ \/ Declares(endpoint, n)
                            \/ \E e \in served \ {endpoint} : Declares(e, n)
  BY DEF PathIsOwn
<1>4. PICK j \in DOMAIN entries : /\ path[i] = Placeholder(entries[j].name)
                                  /\ Path[i] = Encoded(entries[j].value)
  <2> HIDE DEF path, entries
  <2> QED BY <1>1, <1>2, <1>3, FillsNoOther
<1>5. entries[j] \in Entries /\ entries[j].name \in Names
  <2>1. entries[j] \in Entries
    BY <1>1
  <2> QED BY <2>1 DEF Entries
<1>6. PathValue(entries[j].name) = entries[j].value
  <2>1. PathEntries(entries[j].name) = {j}
    BY <1>4 DEF PathEntries, ParamsFit
  <2> QED BY <2>1 DEF PathValue
<1>7. \E e \in served : Declares(e, entries[j].name)
  BY <1>4 DEF EntriesKnown
<1> QED BY <1>4, <1>5, <1>6, <1>7

(* Whatever endpoints the form is used for in turn, and in whatever order    *)
(* their parameters are typed: a request that can be sent has all that its   *)
(* operation requires, every value encoded in its own place of the path.     *)
(* Of another operation no query or header parameter goes out, and a path    *)
(* parameter only where this operation has a placeholder of that name which  *)
(* it does not declare.                                                      *)
THEOREM RequestsFit == FormSpec => []RequestFits
<1>1. FormBase /\ EntriesKnown => RequestFits
  <2> SUFFICES ASSUME ParamsFit, PaneFits, EntriesKnown, endpoint # None PROVE RequestFits
    BY DEF FormBase, RequestFits, ReadyIsComplete, OnlyItsOwn
  <2>1. endpoint \in Endpoints
    BY DEF PaneFits
  <2>2. OnlyItsOwn
    BY <2>1, PathFromItsOwn DEF OnlyItsOwn, Given, Usable
  <2>3. ASSUME CanSend, urlOverride = None
        PROVE  /\ DOMAIN Path = DOMAIN endpoint.path
               /\ \A p \in In("path"), i \in DOMAIN endpoint.path :
                     PathRequired(p) /\ First(Placeholder(p.name), endpoint.path, i) =>
                        PathValue(p.name) # NoText /\ Path[i] = Encoded(PathValue(p.name))
    <3>1. \A p \in In("path") : p.name \in Names /\ (PathRequired(p) => PathValue(p.name) # NoText)
      BY <2>1, <2>3, ParametersFit DEF CanSend, In
    <3> QED BY <2>1, <3>1, PathIsFilled
  <2>4. ASSUME CanSend, NEW location \in {"query", "header"}, NEW p \in In(location), Required(p)
        PROVE  p.name \in {g.name : g \in Given(location)}
    <3>1. params[location][p.name] # NoText
      BY <2>4 DEF CanSend, In
    <3>2. [name |-> p.name, value |-> params[location][p.name]] \in Given(location)
      BY <2>4, <3>1 DEF Given
    <3> QED BY <3>2
  <2>5. urlOverride = None => Request.url.query = Given("query")
    BY DEF Request, Url
  <2>6. Request.headers = Given("header")
    BY DEF Request
  <2>7. ReadyIsComplete
    BY <2>3, <2>4, <2>5, <2>6 DEF ReadyIsComplete
  <2> QED BY <2>2, <2>7 DEF RequestFits
<1> QED BY <1>1, FormBaseAlways, EntriesKnownAlways, PTL
==============================================================================
