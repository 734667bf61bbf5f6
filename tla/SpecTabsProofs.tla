---------------------------- MODULE SpecTabsProofs ----------------------------
(* Theorems about SpecTabs, for any specs, numbers of tabs and approvals. *)
EXTENDS SpecTabs, SequenceTheorems, TLAPS

(* A tab object that was not made has no state. *)
Unmade ==
    \A t \in Made : t > Len(made) =>
        summary[t] = "none" /\ ~loading[t] /\ \A k \in Slots : call[t][k] = "idle"

(* A tab that shows its spec, or that waits for an approval, has its answer  *)
(* to load behind it ...                                                     *)
LoadedBefore ==
    \A t \in Made : call[t]["load"] # "idle" =>
        summary[t] = "none" /\ \A k \in Approvals : call[t][k] = "idle"

(* ... and no approval is answered by a summary that is not approved.        *)
ApprovalsApprove == \A t \in Made : \A k \in Approvals : call[t][k] # "stored"

(* What the store holds, and what is on its way from it, was granted. *)
AnswersGranted ==
    /\ \A id \in Specs : server[id] = "approved" => id \in granted
    /\ \A t \in Made : \A k \in Slots :
          call[t][k] = "approved" => t <= Len(made) /\ made[t] \in granted

CallInv == Unmade /\ LoadedBefore /\ ApprovalsApprove /\ LoadingIffAsked

IInv == TypeOK /\ ActiveTabShown /\ CallInv /\ AnswersGranted /\ ShownWasGranted
------------------------------------------------------------------------------
(* What is left of a sequence without one of its elements. *)
LEMMA WithoutElements ==
  ASSUME NEW S, NEW s \in Seq(S), NEW index \in 1..Len(s)
  PROVE  /\ Without(s, index) \in Seq(S)
         /\ Len(Without(s, index)) = Len(s) - 1
         /\ \A i \in 1..(Len(s) - 1) :
               Without(s, index)[i] = IF i < index THEN s[i] ELSE s[i + 1]
  <1> DEFINE a == SubSeq(s, 1, index - 1)
             b == SubSeq(s, index + 1, Len(s))
  <1>1. Len(s) \in Nat /\ index \in Nat /\ \A i \in 1..Len(s) : s[i] \in S OBVIOUS
  <1>2. a \in Seq(S) /\ Len(a) = index - 1 /\ \A i \in 1..(index - 1) : a[i] = s[i]
    BY <1>1
  <1>3. /\ b \in Seq(S) /\ Len(b) = Len(s) - index
        /\ \A i \in 1..(Len(s) - index) : b[i] = s[index + i]
    BY <1>1
  <1>4. Without(s, index) = a \o b BY DEF Without
  <1> HIDE DEF a, b
  <1>5. a \o b \in Seq(S) /\ Len(a \o b) = Len(a) + Len(b)
    BY <1>2, <1>3, ConcatProperties
  <1>6. ASSUME NEW i \in 1..(Len(s) - 1)
        PROVE  (a \o b)[i] = IF i < index THEN s[i] ELSE s[i + 1]
    <2>1. CASE i < index BY <1>1, <1>2, <1>3, <2>1, ConcatProperties
    <2>2. CASE ~(i < index)
      <3>1. (a \o b)[i] = b[i - (index - 1)]
        BY <1>1, <1>2, <1>3, <2>2, ConcatProperties
      <3>2. i - (index - 1) \in 1..(Len(s) - index) BY <1>1, <2>2
      <3>3. b[i - (index - 1)] = s[index + (i - (index - 1))] BY <1>3, <3>2
      <3>4. index + (i - (index - 1)) = i + 1 BY <1>1
      <3> QED BY <2>2, <3>1, <3>3, <3>4
    <2> QED BY <2>1, <2>2
  <1> QED BY <1>1, <1>2, <1>3, <1>4, <1>5, <1>6

(* The specs of the open tabs. *)
LEMMA OpenSpecs ==
  ASSUME TypeOK
  PROVE  /\ Len(made) \in Nat /\ Len(tabs) \in Nat
         /\ \A i \in 1..Len(tabs) : tabs[i] \in 1..Len(made) /\ made[tabs[i]] \in Specs
         /\ tabs = <<>> <=> Len(tabs) = 0
         /\ 1..Len(made) \subseteq Made
  BY SpecTabsAssumption DEF TypeOK, Made

LEMMA InitHolds == ASSUME Init PROVE IInv
  <1> USE SpecTabsAssumption DEF Init, Made, Slots
  <1>1. TypeOK
    <2>1. made \in Seq(Specs) /\ Len(made) = 0 /\ tabs \in Seq(1..0) /\ Len(tabs) = 0 OBVIOUS
    <2>2. Len(made) <= MaxMade /\ Len(tabs) <= MaxTabs BY <2>1
    <2>3. call \in [Made -> [Slots -> Summaries \cup {"idle", "sent", "error"}]] OBVIOUS
    <2> QED BY <2>1, <2>2, <2>3 DEF TypeOK, Summaries
  <1>2. ActiveTabShown BY DEF ActiveTabShown
  <1>3. CallInv BY DEF CallInv, Unmade, LoadedBefore, ApprovalsApprove, LoadingIffAsked
  <1>4. AnswersGranted /\ ShownWasGranted BY DEF AnswersGranted, ShownWasGranted
  <1> QED BY <1>1, <1>2, <1>3, <1>4 DEF IInv
------------------------------------------------------------------------------
(* The steps of calls and of the server leave the tabs alone. *)
CallStep ==
    \/ \E id \in Specs : OtherWindow(id)
    \/ Restart
    \/ \E t \in 1..Len(made) :
          \/ Approve(t) \/ DeliverLoad(t)
          \/ \E k \in Slots : Serve(t, k) \/ Lose(t, k)
          \/ \E k \in Approvals : DeliverApproval(t, k)

LEMMA CallStepsKeepTabs ==
  ASSUME CallStep
  PROVE  UNCHANGED <<made, tabs, activeId, openError, url>> /\ refused' \in {refused, FALSE}
  BY DEF CallStep, OtherWindow, Restart, Approve, DeliverLoad, Serve, Lose, DeliverApproval,
         viewVars

LEMMA StepKinds ==
  ASSUME [Next]_vars
  PROVE  \/ \E id \in Specs : Visit(id) \/ VisitNew(id) \/ VisitRefused(id)
         \/ \E index \in 1..Len(tabs) : CloseTab(index)
         \/ Leave \/ Reload \/ CallStep \/ UNCHANGED vars
  BY DEF Next, CallStep

(* An Explorer that shows a spec has a tab. *)
LEMMA ShownHasTab ==
  ASSUME TypeOK, ActiveTabShown, url # None
  PROVE  url \in Specs /\ Len(tabs) > 0 /\ Len(made) > 0 /\ MaxMade > 0 /\ 1 \in Made
  <1>1. tabs # <<>> BY DEF ActiveTabShown
  <1>2. Len(tabs) > 0 /\ tabs[1] \in 1..Len(made) BY <1>1, OpenSpecs
  <1> QED BY <1>2, OpenSpecs, SpecTabsAssumption DEF TypeOK, Made

LEMMA TypeNext == ASSUME TypeOK, ActiveTabShown, [Next]_vars PROVE TypeOK'
  <1> USE SpecTabsAssumption
  <1> DEFINE States == Summaries \cup {"idle", "sent", "error"}
  <1>a. "load" \in Slots /\ Approvals \subseteq Slots BY DEF Slots
  <1>b. \A k \in Slots : "sent" \in States /\ "idle" \in States /\ "error" \in States
    OBVIOUS
  <1>1. ASSUME NEW id \in Specs, Visit(id) PROVE TypeOK'
    BY <1>1 DEF Visit, Activate, tabVars, TypeOK
  <1>2. ASSUME NEW id \in Specs, VisitNew(id) PROVE TypeOK'
    <2>1. /\ made' = Append(made, id) /\ made' \in Seq(Specs) /\ Len(made') = Len(made) + 1
          /\ Len(made') \in Made
      BY <1>2, OpenSpecs DEF VisitNew, TypeOK, Made
    <2>2. tabs \in Seq(1..Len(made'))
      <3>1. \A i \in 1..Len(tabs) : tabs[i] \in 1..Len(made') BY <2>1, OpenSpecs
      <3>2. tabs \in Seq(1..Len(made)) BY DEF TypeOK
      <3> QED BY <3>1, <3>2, SeqMonotonic
    <2>3. /\ tabs' = Append(tabs, Len(made')) /\ tabs' \in Seq(1..Len(made'))
          /\ Len(tabs') = Len(tabs) + 1 /\ Len(tabs') <= MaxTabs
      BY <1>2, <2>1, <2>2, OpenSpecs DEF VisitNew, AtMax, Made
    <2>4. call' \in [Made -> [Slots -> States]]
      BY <1>2, <1>a, <2>1 DEF VisitNew, TypeOK
    <2>5. loading' \in [Made -> BOOLEAN] BY <1>2, <2>1 DEF VisitNew, TypeOK
    <2>6. Len(made') <= MaxMade BY <2>1 DEF Made
    <2> QED BY <1>2, <2>1, <2>3, <2>4, <2>5, <2>6 DEF VisitNew, TypeOK
  <1>3. ASSUME NEW id \in Specs, VisitRefused(id) PROVE TypeOK'
    BY <1>3 DEF VisitRefused, Activate, tabVars, TypeOK
  <1>4. ASSUME NEW index \in 1..Len(tabs), CloseTab(index) PROVE TypeOK'
    <2>1. tabs' \in Seq(1..Len(made)) /\ Len(tabs') = Len(tabs) - 1
      BY <1>4, WithoutElements DEF CloseTab, TypeOK
    <2>2. Neighbor(tabs', index) \in Specs \cup {None}
      <3>1. \A i \in 1..Len(tabs') : tabs'[i] \in 1..Len(made) /\ made[tabs'[i]] \in Specs
        BY <2>1, ElementOfSeq DEF TypeOK
      <3>2. index \in 1..Len(tabs') \/ index > Len(tabs') BY <2>1, OpenSpecs
      <3> QED BY <3>1, <3>2 DEF Neighbor
    <2>3. activeId' \in Specs \cup {None} /\ url' \in Specs \cup {None}
      BY <1>4, <2>2 DEF CloseTab, TypeOK
    <2>4. Len(tabs') <= MaxTabs BY <2>1, OpenSpecs DEF TypeOK
    <2> QED BY <1>4, <2>1, <2>3, <2>4 DEF CloseTab, tabVars, TypeOK
  <1>5. CASE Leave
    BY <1>5 DEF Leave, tabVars, TypeOK
  <1>6. CASE Reload
    <2>1. CASE url = None
      <3>1. /\ made' \in Seq(Specs) /\ Len(made') = 0 /\ tabs' \in Seq(1..0) /\ Len(tabs') = 0
        BY <1>6, <2>1 DEF Reload
      <3>2. Len(made') <= MaxMade /\ Len(tabs') <= MaxTabs BY <3>1
      <3>3. call' \in [Made -> [Slots -> States]] BY <1>6 DEF Reload
      <3> QED BY <1>6, <2>1, <3>1, <3>2, <3>3 DEF Reload, TypeOK
    <2>2. CASE url # None
      <3>1. url \in Specs /\ MaxMade > 0 BY <2>2, ShownHasTab
      <3>2. /\ made' \in Seq(Specs) /\ Len(made') = 1 /\ tabs' \in Seq(1..1) /\ Len(tabs') = 1
        BY <1>6, <2>2, <3>1 DEF Reload
      <3>3. Len(made') <= MaxMade /\ Len(tabs') <= MaxTabs BY <3>1, <3>2
      <3>4. call' \in [Made -> [Slots -> States]] BY <1>6 DEF Reload
      <3> QED BY <1>6, <2>2, <3>1, <3>2, <3>3, <3>4 DEF Reload, TypeOK
    <2> QED BY <2>1, <2>2
  <1>7. CASE CallStep
    <2>1. ASSUME NEW t \in Made, NEW k \in Slots, NEW c \in States,
                 call' = [call EXCEPT ![t][k] = c]
          PROVE  call' \in [Made -> [Slots -> States]]
      BY <2>1 DEF TypeOK
    <2>2. call' \in [Made -> [Slots -> States]]
      <3>1. ASSUME NEW t \in 1..Len(made), Approve(t) PROVE call' \in [Made -> [Slots -> States]]
        <4>1. PICK k \in Approvals : call' = [call EXCEPT ![t][k] = "sent"]
          BY <3>1 DEF Approve
        <4> QED BY <1>a, <2>1, <4>1, OpenSpecs
      <3>2. ASSUME NEW t \in 1..Len(made), DeliverLoad(t)
            PROVE  call' \in [Made -> [Slots -> States]]
        BY <1>a, <2>1, <3>2, OpenSpecs DEF DeliverLoad
      <3>3. ASSUME NEW t \in 1..Len(made), NEW k \in Slots, Serve(t, k)
            PROVE  call' \in [Made -> [Slots -> States]]
        <4>1. PICK c \in States : call' = [call EXCEPT ![t][k] = c]
          <5>1. made[t] \in Specs BY DEF TypeOK
          <5>2. server[made[t]] = "absent" \/ server[made[t]] \in Summaries
            BY <5>1 DEF TypeOK
          <5> QED BY <3>3, <5>2 DEF Serve, Summaries
        <4> QED BY <2>1, <4>1, OpenSpecs
      <3>4. ASSUME NEW t \in 1..Len(made), NEW k \in Slots, Lose(t, k) \/ DeliverApproval(t, k)
            PROVE  call' \in [Made -> [Slots -> States]]
        BY <2>1, <3>4, OpenSpecs DEF Lose, DeliverApproval
      <3>5. ASSUME Restart \/ \E id \in Specs : OtherWindow(id)
            PROVE  call' \in [Made -> [Slots -> States]]
        BY <3>5 DEF Restart, OtherWindow, TypeOK
      <3> QED BY <1>7, <1>a, <3>1, <3>2, <3>3, <3>4, <3>5 DEF CallStep
    <2>3. /\ loading' \in [Made -> BOOLEAN]
          /\ error' \in [Made -> {"none", "load", "approve"}]
          /\ summary' \in [Made -> Summaries \cup {"none"}]
      <3>1. ASSUME NEW t \in 1..Len(made), DeliverLoad(t)
            PROVE  /\ loading' \in [Made -> BOOLEAN]
                   /\ error' \in [Made -> {"none", "load", "approve"}]
                   /\ summary' \in [Made -> Summaries \cup {"none"}]
        BY <3>1, OpenSpecs DEF DeliverLoad, Loaded, StopLoading, TypeOK
      <3>2. ASSUME NEW t \in 1..Len(made), NEW k \in Slots, DeliverApproval(t, k)
            PROVE  /\ loading' \in [Made -> BOOLEAN]
                   /\ error' \in [Made -> {"none", "load", "approve"}]
                   /\ summary' \in [Made -> Summaries \cup {"none"}]
        BY <3>2, OpenSpecs DEF DeliverApproval, Approved, TypeOK
      <3>3. UNCHANGED tabVars \/ \E t \in 1..Len(made) :
                DeliverLoad(t) \/ \E k \in Approvals : DeliverApproval(t, k)
        BY <1>7 DEF CallStep, OtherWindow, Restart, Approve, Serve, Lose, tabVars
      <3> QED BY <1>a, <3>1, <3>2, <3>3 DEF tabVars, TypeOK
    <2>4. server' \in [Specs -> Summaries \cup {"absent"}] /\ granted' \subseteq Specs
      <3>1. ASSUME NEW t \in 1..Len(made), NEW k \in Slots, Serve(t, k)
            PROVE  server' \in [Specs -> Summaries \cup {"absent"}] /\ granted' \subseteq Specs
        <4>1. made[t] \in Specs BY DEF TypeOK
        <4> QED BY <3>1, <4>1 DEF Serve, TypeOK, Summaries
      <3>2. ASSUME NEW id \in Specs, OtherWindow(id)
            PROVE  server' \in [Specs -> Summaries \cup {"absent"}] /\ granted' \subseteq Specs
        BY <3>2 DEF OtherWindow, TypeOK, Summaries
      <3>3. CASE Restart BY <3>3 DEF Restart, TypeOK
      <3>4. \/ UNCHANGED <<server, granted>> \/ Restart
            \/ \E id \in Specs : OtherWindow(id)
            \/ \E t \in 1..Len(made), k \in Slots : Serve(t, k)
        BY <1>7 DEF CallStep, Approve, DeliverLoad, Lose, DeliverApproval
      <3> QED BY <3>1, <3>2, <3>3, <3>4 DEF TypeOK
    <2> QED BY <1>7, <2>2, <2>3, <2>4, CallStepsKeepTabs DEF TypeOK
  <1>8. CASE UNCHANGED vars
    BY <1>8 DEF vars, viewVars, tabVars, TypeOK
  <1> QED BY <1>1, <1>2, <1>3, <1>4, <1>5, <1>6, <1>7, <1>8, StepKinds
(* Open tabs that are kept show the same specs as before. *)
LEMMA ShownNext == ASSUME TypeOK, ActiveTabShown, [Next]_vars PROVE ActiveTabShown'
  <1> USE SpecTabsAssumption
  <1> DEFINE Single == \A i, j \in 1..Len(tabs) : made[tabs[i]] = made[tabs[j]] => i = j
             Active == IF tabs = <<>> THEN activeId = None ELSE IsOpen(activeId)
             Named == url # None => url = activeId
  <1>a. Single /\ Active /\ Named BY DEF ActiveTabShown
  <1>1. ASSUME NEW id \in Specs, Visit(id) PROVE ActiveTabShown'
    <2>1. tabs # <<>> BY <1>1, OpenSpecs DEF Visit, IsOpen
    <2> QED BY <1>1, <2>1 DEF Visit, Activate, ActiveTabShown, IsOpen
  <1>2. ASSUME NEW id \in Specs, VisitNew(id) PROVE ActiveTabShown'
    <2>1. /\ Len(made') = Len(made) + 1 /\ made'[Len(made')] = id
          /\ \A t \in 1..Len(made) : made'[t] = made[t]
      BY <1>2, OpenSpecs DEF VisitNew, TypeOK
    <2>2. /\ Len(tabs') = Len(tabs) + 1 /\ tabs'[Len(tabs')] = Len(made')
          /\ \A i \in 1..Len(tabs) : tabs'[i] = tabs[i]
      BY <1>2, OpenSpecs DEF VisitNew, TypeOK
    <2>3. /\ made'[tabs'[Len(tabs')]] = id
          /\ \A i \in 1..Len(tabs) : made'[tabs'[i]] = made[tabs[i]] /\ made[tabs[i]] # id
      BY <1>2, <2>1, <2>2, OpenSpecs DEF VisitNew, IsOpen
    <2>4. \A i \in 1..Len(tabs') : i \in 1..Len(tabs) \/ i = Len(tabs')
      BY <2>2, OpenSpecs
    <2>5. Single' BY <1>a, <2>3, <2>4
    <2>6. tabs' # <<>> /\ Len(tabs') \in 1..Len(tabs') BY <2>2, OpenSpecs
    <2>7. IsOpen(id)' BY <2>3, <2>6 DEF IsOpen
    <2>8. activeId' = id /\ url' = id BY <1>2 DEF VisitNew
    <2> QED BY <2>5, <2>6, <2>7, <2>8 DEF ActiveTabShown
  <1>3. ASSUME NEW id \in Specs, VisitRefused(id) PROVE ActiveTabShown'
    <2>1. tabs # <<>> BY <1>3, OpenSpecs DEF VisitRefused, AtMax
    <2>2. activeId # None
      <3>1. PICK i \in 1..Len(tabs) : made[tabs[i]] = activeId BY <1>a, <2>1 DEF IsOpen
      <3> QED BY <3>1, OpenSpecs
    <2> QED BY <1>3, <2>1, <2>2 DEF VisitRefused, Activate, ActiveTabShown, IsOpen
  <1>4. ASSUME NEW index \in 1..Len(tabs), CloseTab(index) PROVE ActiveTabShown'
    <2> DEFINE n == Len(tabs) - 1
    <2>0. tabs' = Without(tabs, index) /\ made' = made
      BY <1>4 DEF CloseTab
    <2>1. /\ Len(tabs') = n
          /\ \A i \in 1..n : tabs'[i] = IF i < index THEN tabs[i] ELSE tabs[i + 1]
      <3>1. tabs \in Seq(1..Len(made)) BY DEF TypeOK
      <3> QED BY <2>0, <3>1, WithoutElements
    <2>2. n \in Nat /\ index \in 1..(n + 1) /\ Len(tabs) = n + 1 BY OpenSpecs
    <2> HIDE DEF n
    <2>3. \A i \in 1..n : /\ i < index => i \in 1..Len(tabs) /\ tabs'[i] = tabs[i]
                          /\ ~(i < index) => i + 1 \in 1..Len(tabs) /\ tabs'[i] = tabs[i + 1]
      BY <2>1, <2>2
    <2>4. ASSUME NEW i \in 1..n, NEW j \in 1..n, made[tabs'[i]] = made[tabs'[j]] PROVE i = j
      <3>1. CASE i < index /\ j < index BY <1>a, <2>3, <2>4, <3>1
      <3>2. CASE i < index /\ ~(j < index)
        BY <1>a, <2>2, <2>3, <2>4, <3>2
      <3>3. CASE ~(i < index) /\ j < index
        BY <1>a, <2>2, <2>3, <2>4, <3>3
      <3>4. CASE ~(i < index) /\ ~(j < index)
        <4>1. i + 1 = j + 1 BY <1>a, <2>3, <2>4, <3>4
        <4> QED BY <4>1
      <3> QED BY <3>1, <3>2, <3>3, <3>4
    <2>5. Single' BY <2>0, <2>1, <2>4
    <2>6. tabs' = <<>> <=> n = 0
      <3>1. tabs' \in Seq(1..Len(made))
        BY <2>0, WithoutElements DEF TypeOK
      <3> QED BY <2>1, <3>1
    <2>7. CASE activeId = made[tabs[index]]
      <3>1. activeId' = Neighbor(tabs', index) /\ url' = activeId'
        BY <1>4, <2>0, <2>7 DEF CloseTab
      <3>2. CASE n = 0
        <4>1. index = 1 BY <2>2, <3>2
        <4>2. Neighbor(tabs', index) = None BY <2>1, <3>2, <4>1 DEF Neighbor
        <4> QED BY <2>5, <2>6, <3>1, <3>2, <4>2 DEF ActiveTabShown
      <3>3. CASE n # 0
        <4>1. \E i \in 1..n : Neighbor(tabs', index) = made[tabs'[i]]
          <5>1. CASE index <= n BY <2>1, <2>2, <5>1 DEF Neighbor
          <5>2. CASE ~(index <= n)
            <6>1. index - 1 = n /\ n \in 1..n BY <2>2, <3>3, <5>2
            <6> QED BY <2>1, <5>2, <6>1 DEF Neighbor
          <5> QED BY <5>1, <5>2
        <4>2. IsOpen(activeId)' BY <2>0, <2>1, <3>1, <4>1 DEF IsOpen
        <4> QED BY <2>5, <2>6, <3>1, <3>3, <4>2 DEF ActiveTabShown
      <3> QED BY <3>2, <3>3
    <2>8. CASE activeId # made[tabs[index]]
      <3>1. activeId' = activeId /\ url' = url BY <1>4, <2>8 DEF CloseTab
      <3>2. PICK i \in 1..Len(tabs) : made[tabs[i]] = activeId
        BY <1>a, <2>2, OpenSpecs DEF IsOpen
      <3>3. i # index BY <2>8, <3>2
      <3>4. \E j \in 1..n : made[tabs'[j]] = activeId
        <4>1. CASE i < index BY <2>2, <2>3, <3>2, <4>1
        <4>2. CASE i > index
          <5>1. i - 1 \in 1..n /\ ~(i - 1 < index) /\ (i - 1) + 1 = i BY <2>2, <4>2
          <5> QED BY <2>3, <3>2, <5>1
        <4> QED BY <2>2, <3>3, <4>1, <4>2
      <3>5. IsOpen(activeId)' /\ n # 0 BY <2>0, <2>1, <2>2, <3>1, <3>4 DEF IsOpen
      <3> QED BY <1>a, <2>5, <2>6, <3>1, <3>5 DEF ActiveTabShown
    <2> QED BY <2>7, <2>8
  <1>5. CASE Leave
    BY <1>5 DEF Leave, ActiveTabShown, IsOpen
  <1>6. CASE Reload
    <2>1. CASE url = None BY <1>6, <2>1 DEF Reload, ActiveTabShown
    <2>2. CASE url # None
      <3>1. made' = <<url>> /\ tabs' = <<1>> /\ activeId' = url /\ url' = url
        BY <1>6, <2>2 DEF Reload
      <3>2. Len(tabs') = 1 /\ tabs' # <<>> /\ made'[tabs'[1]] = url BY <3>1
      <3> QED BY <3>1, <3>2 DEF ActiveTabShown, IsOpen
    <2> QED BY <2>1, <2>2
  <1>7. CASE CallStep
    BY <1>7, CallStepsKeepTabs DEF ActiveTabShown, IsOpen
  <1>8. CASE UNCHANGED vars
    BY <1>8 DEF vars, viewVars, ActiveTabShown, IsOpen
  <1> QED BY <1>1, <1>2, <1>3, <1>4, <1>5, <1>6, <1>7, <1>8, StepKinds
------------------------------------------------------------------------------
LEMMA CallNext ==
  ASSUME TypeOK, ActiveTabShown, CallInv, [Next]_vars
  PROVE  CallInv'
  <1> USE SpecTabsAssumption
      DEF CallInv, Unmade, LoadedBefore, ApprovalsApprove, LoadingIffAsked
  <1>a. "load" \in Slots /\ Approvals \subseteq Slots /\ Slots \subseteq {"load"} \cup Approvals
    BY DEF Slots
  <1>1. ASSUME UNCHANGED <<made, tabVars, call>> PROVE CallInv'
    BY <1>1 DEF tabVars
  <1>2. ASSUME NEW id \in Specs, VisitNew(id) PROVE CallInv'
    <2>1. PICK u \in Made : u = Len(made) + 1 /\ Len(made') = u
      BY <1>2, OpenSpecs DEF VisitNew, TypeOK, Made
    <2>2. /\ call' = [call EXCEPT ![u]["load"] = "sent"]
          /\ loading' = [loading EXCEPT ![u] = TRUE]
          /\ summary' = summary
      BY <1>2, <2>1 DEF VisitNew
    <2>3. \A t \in Made : \A k \in Slots :
             call'[t][k] = IF t = u /\ k = "load" THEN "sent" ELSE call[t][k]
      BY <1>a, <2>2 DEF TypeOK
    <2>4. \A t \in Made : loading'[t] <=> t = u \/ loading[t]
      BY <2>2 DEF TypeOK
    <2>5. u > Len(made) /\ \A t \in Made : t > u => t > Len(made) /\ t # u
      BY <2>1, OpenSpecs DEF Made
    <2>6. summary[u] = "none" /\ \A k \in Slots : call[u][k] = "idle" BY <2>5
    <2> QED BY <1>a, <2>1, <2>2, <2>3, <2>4, <2>5, <2>6
  <1>3. CASE Reload
    <2>1. /\ \A t \in Made : \A k \in Slots :
                call'[t][k] = IF t = 1 /\ url # None /\ k = "load" THEN "sent" ELSE "idle"
          /\ \A t \in Made : (loading'[t] <=> t = 1 /\ url # None) /\ summary'[t] = "none"
      BY <1>3 DEF Reload
    <2>2. \A t \in Made : t > Len(made') => ~(t = 1 /\ url # None)
      <3>1. url # None => Len(made') = 1 BY <1>3 DEF Reload
      <3>2. \A t \in Made : t > 1 => t # 1 BY DEF Made
      <3> QED BY <3>1, <3>2
    <2>3. Unmade' BY <1>a, <2>1, <2>2
    <2>4. LoadedBefore' /\ ApprovalsApprove' BY <1>a, <2>1
    <2>5. LoadingIffAsked' BY <1>a, <2>1
    <2> QED BY <2>3, <2>4, <2>5
  <1>4. ASSUME NEW t \in 1..Len(made), Approve(t) PROVE CallInv'
    <2>1. PICK k \in Approvals : call' = [call EXCEPT ![t][k] = "sent"]
      BY <1>4 DEF Approve
    <2>2. t \in Made /\ summary[t] = "stored" /\ UNCHANGED <<made, loading, summary>>
      BY <1>4, OpenSpecs DEF Approve, CanApprove, tabVars
    <2>3. \A u \in Made : \A j \in Slots :
             call'[u][j] = IF u = t /\ j = k THEN "sent" ELSE call[u][j]
      BY <1>a, <2>1, <2>2 DEF TypeOK
    <2>4. k # "load" /\ call[t]["load"] = "idle" /\ ~(t > Len(made))
      BY <2>2, OpenSpecs DEF Made
    <2> QED BY <1>a, <2>2, <2>3, <2>4
  <1>5. ASSUME NEW t \in 1..Len(made), DeliverLoad(t) PROVE CallInv'
    <2>1. t \in Made /\ ~(t > Len(made)) /\ made' = made BY <1>5, OpenSpecs DEF DeliverLoad, Made
    <2>2. \A u \in Made : \A j \in Slots :
             call'[u][j] = IF u = t /\ j = "load" THEN "idle" ELSE call[u][j]
      BY <1>5, <1>a, <2>1 DEF DeliverLoad, TypeOK
    <2>3. \A u \in Made : /\ loading'[u] <=> u # t /\ loading[u]
                          /\ u # t => summary'[u] = summary[u]
      BY <1>5, <2>1 DEF DeliverLoad, StopLoading, Loaded, TypeOK
    <2>4. call'[t]["load"] = "idle" /\ ~loading'[t] BY <1>a, <2>1, <2>2, <2>3
    <2>5. Unmade' BY <1>a, <2>1, <2>2, <2>3
    <2>6. LoadedBefore' BY <1>a, <2>2, <2>3, <2>4
    <2>7. ApprovalsApprove' BY <1>a, <2>2
    <2>8. LoadingIffAsked' BY <1>a, <2>2, <2>3
    <2> QED BY <2>5, <2>6, <2>7, <2>8
  <1>6. ASSUME NEW t \in 1..Len(made), NEW k \in Slots, Serve(t, k) \/ Lose(t, k)
        PROVE  CallInv'
    <2>1. t \in Made /\ ~(t > Len(made)) /\ UNCHANGED <<made, loading, summary>>
      BY <1>6, OpenSpecs DEF Serve, Lose, tabVars, Made
    <2>2. call[t][k] # "idle" BY <1>6 DEF Serve, Lose
    <2>3. PICK c \in Summaries \cup {"error"} :
             /\ call' = [call EXCEPT ![t][k] = c]
             /\ k # "load" => c # "stored"
      <3>1. made[t] \in Specs BY DEF TypeOK
      <3>2. server[made[t]] # "absent" => server[made[t]] \in Summaries BY <3>1 DEF TypeOK
      <3> QED BY <1>6, <3>2 DEF Serve, Lose, Summaries
    <2>4. \A u \in Made : \A j \in Slots :
             call'[u][j] = IF u = t /\ j = k THEN c ELSE call[u][j]
      BY <2>1, <2>3 DEF TypeOK
    <2>5. c # "idle" BY DEF Summaries
    <2> QED BY <1>a, <2>1, <2>2, <2>3, <2>4, <2>5
  <1>7. ASSUME NEW t \in 1..Len(made), NEW k \in Approvals, DeliverApproval(t, k)
        PROVE  CallInv'
    <2>1. t \in Made /\ ~(t > Len(made)) /\ UNCHANGED <<made, loading>>
      BY <1>7, OpenSpecs DEF DeliverApproval, Made
    <2>2. \A u \in Made : \A j \in Slots :
             call'[u][j] = IF u = t /\ j = k THEN "idle" ELSE call[u][j]
      BY <1>7, <1>a, <2>1 DEF DeliverApproval, TypeOK
    <2>3. \A u \in Made : u # t => summary'[u] = summary[u]
      BY <1>7, <2>1 DEF DeliverApproval, Approved, TypeOK
    <2>4. call[t]["load"] = "idle" /\ k # "load"
      BY <1>7, <2>1 DEF DeliverApproval, Answered, Summaries
    <2> QED BY <1>a, <2>1, <2>2, <2>3, <2>4
  <1>8. \/ UNCHANGED <<made, tabVars, call>> \/ Reload
        \/ \E id \in Specs : VisitNew(id)
        \/ \E t \in 1..Len(made) :
              \/ Approve(t) \/ DeliverLoad(t)
              \/ \E k \in Slots : Serve(t, k) \/ Lose(t, k)
              \/ \E k \in Approvals : DeliverApproval(t, k)
    BY DEF Next, Visit, VisitRefused, CloseTab, Leave, Restart, OtherWindow, vars, tabVars
  <1> QED BY <1>1, <1>2, <1>3, <1>4, <1>5, <1>6, <1>7, <1>8

LEMMA GrantNext ==
  ASSUME TypeOK, ActiveTabShown, CallInv, AnswersGranted, ShownWasGranted, [Next]_vars
  PROVE  AnswersGranted' /\ ShownWasGranted'
  <1> USE SpecTabsAssumption DEF AnswersGranted, ShownWasGranted
  <1>a. "load" \in Slots /\ Approvals \subseteq Slots BY DEF Slots
  <1>b. \A t \in 1..Len(made) : t \in Made /\ made[t] \in Specs
    BY OpenSpecs DEF TypeOK
  <1>1. ASSUME UNCHANGED <<made, summary, call, server, granted>>
        PROVE  AnswersGranted' /\ ShownWasGranted'
    BY <1>1
  <1>2. ASSUME NEW id \in Specs, VisitNew(id) PROVE AnswersGranted' /\ ShownWasGranted'
    <2>1. PICK u \in Made : u = Len(made) + 1 /\ Len(made') = u
      BY <1>2, OpenSpecs DEF VisitNew, TypeOK, Made
    <2>2. \A t \in 1..Len(made) : made'[t] = made[t]
      BY <1>2, OpenSpecs DEF VisitNew, TypeOK
    <2>3. \A t \in Made : \A k \in Slots :
             call'[t][k] = IF t = u /\ k = "load" THEN "sent" ELSE call[t][k]
      BY <1>2, <1>a, <2>1 DEF VisitNew, TypeOK
    <2>4. summary[u] = "none"
      BY <2>1, OpenSpecs DEF CallInv, Unmade, Made
    <2>5. \A t \in 1..Len(made') : t \in 1..Len(made) \/ t = u
      BY <2>1, OpenSpecs
    <2>6. UNCHANGED <<summary, server, granted>> BY <1>2 DEF VisitNew
    <2>7. ShownWasGranted' BY <2>2, <2>4, <2>5, <2>6
    <2>8. AnswersGranted'
      <3>1. ASSUME NEW t \in Made, NEW k \in Slots, call'[t][k] = "approved"
            PROVE  t <= Len(made') /\ made'[t] \in granted'
        <4>1. call[t][k] = "approved" BY <2>3, <3>1
        <4>2. t \in 1..Len(made) /\ made[t] \in granted
          BY <4>1, OpenSpecs DEF Made
        <4> QED BY <2>1, <2>2, <2>6, <4>2, OpenSpecs DEF Made
      <3> QED BY <2>6, <3>1
    <2> QED BY <2>7, <2>8
  <1>3. CASE Reload
    <2>1. /\ \A t \in Made : \A k \in Slots : call'[t][k] # "approved"
          /\ \A t \in Made : summary'[t] = "none"
          /\ UNCHANGED <<server, granted>>
      BY <1>3 DEF Reload
    <2>2. 1..Len(made') \subseteq Made
      <3>1. TypeOK' BY TypeNext
      <3> QED BY <3>1 DEF TypeOK, Made
    <2> QED BY <2>1, <2>2
  <1>4. ASSUME NEW t \in 1..Len(made), Approve(t) PROVE AnswersGranted' /\ ShownWasGranted'
    <2>1. PICK k \in Approvals : call' = [call EXCEPT ![t][k] = "sent"]
      BY <1>4 DEF Approve
    <2>2. \A u \in Made : \A j \in Slots : call'[u][j] = "approved" => call[u][j] = "approved"
      BY <1>a, <2>1 DEF TypeOK
    <2> QED BY <1>4, <2>2 DEF Approve, tabVars
  <1>5. ASSUME NEW t \in 1..Len(made), DeliverLoad(t)
        PROVE  AnswersGranted' /\ ShownWasGranted'
    <2>1. \A u \in Made : \A j \in Slots : call'[u][j] = "approved" => call[u][j] = "approved"
      BY <1>5, <1>a DEF DeliverLoad, TypeOK
    <2>2. \A u \in Made : summary'[u] = "approved" =>
             summary[u] = "approved" \/ (u = t /\ call[t]["load"] = "approved")
      BY <1>5 DEF DeliverLoad, Loaded, TypeOK
    <2> QED BY <1>5, <1>a, <1>b, <2>1, <2>2 DEF DeliverLoad
  <1>6. ASSUME NEW t \in 1..Len(made), NEW k \in Approvals, DeliverApproval(t, k)
        PROVE  AnswersGranted' /\ ShownWasGranted'
    <2>1. \A u \in Made : \A j \in Slots : call'[u][j] = "approved" => call[u][j] = "approved"
      BY <1>6, <1>a DEF DeliverApproval, TypeOK
    <2>2. \A u \in Made : summary'[u] = "approved" =>
             summary[u] = "approved" \/ (u = t /\ call[t][k] = "approved")
      BY <1>6 DEF DeliverApproval, Approved, TypeOK
    <2> QED BY <1>6, <1>a, <1>b, <2>1, <2>2 DEF DeliverApproval
  <1>7. ASSUME NEW t \in 1..Len(made), NEW k \in Slots, Serve(t, k)
        PROVE  AnswersGranted' /\ ShownWasGranted'
    <2>1. UNCHANGED <<made, summary>> BY <1>7 DEF Serve, tabVars
    <2>2. granted \subseteq granted' BY <1>7 DEF Serve
    <2>3. \A id \in Specs : server'[id] = "approved" => id \in granted'
      BY <1>7, <1>b DEF Serve, TypeOK
    <2>4. \A u \in Made : \A j \in Slots : call'[u][j] = "approved" =>
             call[u][j] = "approved" \/ (u = t /\ made[t] \in granted')
      <3>1. made[t] \in Specs BY <1>b
      <3>2. CASE server[made[t]] = "absent"
        <4>1. call' = [call EXCEPT ![t][k] = "error"] BY <1>7, <3>2 DEF Serve
        <4> QED BY <4>1 DEF TypeOK
      <3>3. CASE server[made[t]] # "absent" /\ k = "load"
        <4>1. call' = [call EXCEPT ![t][k] = server[made[t]]] /\ granted' = granted
          BY <1>7, <3>3 DEF Serve
        <4>2. server[made[t]] = "approved" => made[t] \in granted' BY <3>1, <4>1
        <4> QED BY <4>1, <4>2 DEF TypeOK
      <3>4. CASE server[made[t]] # "absent" /\ k # "load"
        <4>1. call' = [call EXCEPT ![t][k] = "approved"] /\ made[t] \in granted'
          BY <1>7, <3>4 DEF Serve
        <4> QED BY <4>1 DEF TypeOK
      <3> QED BY <3>2, <3>3, <3>4
    <2> QED BY <1>b, <2>1, <2>2, <2>3, <2>4, OpenSpecs DEF Made
  <1>8. ASSUME NEW t \in 1..Len(made), NEW k \in Slots, Lose(t, k)
        PROVE  AnswersGranted' /\ ShownWasGranted'
    <2>1. \A u \in Made : \A j \in Slots : call'[u][j] = "approved" => call[u][j] = "approved"
      BY <1>8 DEF Lose, TypeOK
    <2> QED BY <1>8, <2>1 DEF Lose, tabVars
  <1>9. ASSUME Restart \/ \E id \in Specs : OtherWindow(id)
        PROVE  AnswersGranted' /\ ShownWasGranted'
    <2>1. /\ UNCHANGED <<made, summary, call>> /\ granted \subseteq granted'
          /\ \A id \in Specs : server'[id] = "approved" => id \in granted'
      BY <1>9 DEF Restart, OtherWindow, tabVars, TypeOK
    <2> QED BY <2>1
  <1>10. \/ UNCHANGED <<made, summary, call, server, granted>> \/ Reload \/ Restart
         \/ \E id \in Specs : VisitNew(id) \/ OtherWindow(id)
         \/ \E t \in 1..Len(made) :
               \/ Approve(t) \/ DeliverLoad(t)
               \/ \E k \in Slots : Serve(t, k) \/ Lose(t, k)
               \/ \E k \in Approvals : DeliverApproval(t, k)
    BY DEF Next, Visit, VisitRefused, CloseTab, Leave, vars, tabVars
  <1> QED BY <1>1, <1>2, <1>3, <1>4, <1>5, <1>6, <1>7, <1>8, <1>9, <1>10

(* The invariant all of the theorems rest on. *)
LEMMA Invariance == Spec => []IInv
  <1>1. Init => IInv BY InitHolds
  <1>2. IInv /\ [Next]_vars => IInv'
    BY TypeNext, ShownNext, CallNext, GrantNext DEF IInv
  <1> QED BY <1>1, <1>2, PTL DEF Spec
------------------------------------------------------------------------------
(* The state of the Explorer is well typed for any cap on its tabs, which is *)
(* never exceeded.                                                           *)
THEOREM TypeCorrect == Spec => []TypeOK
  <1>1. IInv => TypeOK BY DEF IInv
  <1> QED BY <1>1, Invariance, PTL

(* However tabs are opened, refused, closed and navigated to, the active tab, *)
(* the open ones and the URL agree.                                           *)
THEOREM TabsAndUrlAgree == Spec => []ActiveTabShown
  <1>1. IInv => ActiveTabShown BY DEF IInv
  <1> QED BY <1>1, Invariance, PTL

(* The loading flag of a tab is up exactly while its answer to load is out. *)
THEOREM LoadingEnds == Spec => []LoadingIffAsked
  <1>1. IInv => LoadingIffAsked BY DEF IInv, CallInv
  <1> QED BY <1>1, Invariance, PTL

(* Nothing is shown as approved that the server did not approve. *)
THEOREM ShownApprovalsGranted == Spec => []ShownWasGranted
  <1>1. IInv => ShownWasGranted BY DEF IInv
  <1> QED BY <1>1, Invariance, PTL

(* No answer that comes late, or for another call of the tab, takes back the  *)
(* approval it shows.                                                         *)
THEOREM ApprovalNotTakenBack == Spec => ApprovalStays
  <1> DEFINE Stays == \A t \in Made : summary[t] = "approved" => summary'[t] # "stored"
  <1>1. ASSUME IInv, [Next]_vars PROVE [Stays]_vars
    <2> SUFFICES ASSUME NEW t \in Made, summary[t] = "approved" PROVE summary'[t] # "stored"
      OBVIOUS
    <2>1. call[t]["load"] = "idle" /\ \A k \in Approvals : call[t][k] # "stored"
      BY <1>1 DEF IInv, CallInv, LoadedBefore, ApprovalsApprove
    <2>2. ASSUME NEW u \in 1..Len(made), DeliverLoad(u) PROVE summary'[t] # "stored"
      BY <1>1, <2>1, <2>2 DEF DeliverLoad, Answered, Loaded, Summaries, IInv, TypeOK
    <2>3. ASSUME NEW u \in 1..Len(made), NEW k \in Approvals, DeliverApproval(u, k)
          PROVE  summary'[t] # "stored"
      BY <1>1, <2>1, <2>3 DEF DeliverApproval, Approved, Summaries, IInv, TypeOK
    <2>4. CASE Reload BY <2>4 DEF Reload
    <2>5. \/ UNCHANGED summary \/ Reload
          \/ \E u \in 1..Len(made) :
                DeliverLoad(u) \/ \E k \in Approvals : DeliverApproval(u, k)
      BY <1>1 DEF Next, Visit, VisitNew, VisitRefused, CloseTab, Leave, Restart, OtherWindow,
                  Approve, Serve, Lose, vars, tabVars
    <2> QED BY <2>2, <2>3, <2>4, <2>5
  <1> HIDE DEF Stays
  <1>2. Spec => [][Stays]_vars BY <1>1, Invariance, PTL DEF Spec
  <1> QED BY <1>2 DEF ApprovalStays, Stays
==============================================================================
