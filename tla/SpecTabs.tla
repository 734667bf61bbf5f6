------------------------------- MODULE SpecTabs -------------------------------
(***************************************************************************)
(* The Explorer's tabs: spec-tabs.service.ts (which specs are open), the   *)
(* calls of spec-tab.ts (load and approve) and the routing of              *)
(* spec-viewer.component.ts and app.component.ts.                          *)
(*                                                                         *)
(* Handlers run to completion between the awaits of a single-threaded      *)
(* page.  A navigation inside the application resolves in microtasks, so   *)
(* no click or answer comes between navigate() and the route parameter's   *)
(* subscriber, and each is part of the action that starts it.  Calls to    *)
(* the server are sent, served and answered in separate steps, in any      *)
(* order, or lost.                                                         *)
(*                                                                         *)
(* A tab is an object: a spec that is closed and opened again has a new    *)
(* one, and the answers to the old one's calls still reach the old one.    *)
(***************************************************************************)
EXTENDS Integers, Sequences, FiniteSets

CONSTANTS
    Specs,       \* spec ids
    None,        \* no spec: the start page, no active tab
    MaxTabs,     \* MAX_TABS
    Approvals,   \* bound of the model: approve calls of a tab in flight at once
    MaxMade      \* bound of the model: tab objects made since the page loaded

ASSUME SpecTabsAssumption ==
    /\ None \notin Specs
    /\ MaxTabs \in Nat \ {0}
    /\ MaxMade \in Nat
    /\ "load" \notin Approvals

VARIABLES
    made,        \* the specs of the tab objects made, in the order they were
    tabs,        \* the open tabs, as indices of `made'
    activeId,
    openError,   \* the notice that no more tabs can be opened is up
    url,         \* the spec of the page's URL
    refused,     \* history: the last thing the user did was open one too many
    loading,     \* the signals of each tab object ...
    error,       \* ... "none", or which message it shows
    summary,     \* ... "none", or whether it says the spec is approved
    call,        \* the calls of each tab object
    server,      \* the spec store, as SpecGate models it
    granted      \* history: the specs the server ever approved

tabVars == <<loading, error, summary>>
viewVars == <<tabs, activeId, openError, url, refused>>
vars == <<made, viewVars, tabVars, call, server, granted>>

Made == 1..MaxMade
Slots == {"load"} \cup Approvals
Summaries == {"stored", "approved"}

IsOpen(id) == \E i \in 1..Len(tabs) : made[tabs[i]] = id

(* The tab the page shows, when there is one. *)
IsActive(t) == t \in {tabs[i] : i \in 1..Len(tabs)} /\ made[t] = activeId
------------------------------------------------------------------------------
(* Slips the runs must notice, each a variant of a definition below. *)
RightNeighborOnly(next, index) == IF index <= Len(next) THEN made[next[index]] ELSE None
ButtonBeforeLoad(t) == summary[t] # "approved"
StoppedOnSuccess(t, answer) ==
    loading' = [loading EXCEPT ![t] = answer \notin Summaries]
AnyAnswerApproves(t, answer) ==
    /\ summary' = [summary EXCEPT ![t] = "approved"]
    /\ UNCHANGED error
------------------------------------------------------------------------------
AtMax(n) == n >= MaxTabs

(* The tab that becomes active when the one at `index' is closed: the one   *)
(* after it, or else the one before.                                        *)
Neighbor(next, index) ==
    IF index <= Len(next) THEN made[next[index]]
    ELSE IF index - 1 \in 1..Len(next) THEN made[next[index - 1]]
    ELSE None

Without(s, index) == SubSeq(s, 1, index - 1) \o SubSeq(s, index + 1, Len(s))

(* The button of the approval dialog is there: the tab shows a node, so it  *)
(* is loaded, and is not approved.                                          *)
CanApprove(t) == summary[t] = "stored"

(* load's `finally'. *)
StopLoading(t, answer) == loading' = [loading EXCEPT ![t] = FALSE]

(* What approve makes of its answer. *)
Approved(t, answer) ==
    IF answer \in Summaries
    THEN summary' = [summary EXCEPT ![t] = answer] /\ UNCHANGED error
    ELSE error' = [error EXCEPT ![t] = "approve"] /\ UNCHANGED summary

(* ... and load of its own. *)
Loaded(t, answer) ==
    IF answer \in Summaries
    THEN summary' = [summary EXCEPT ![t] = answer] /\ UNCHANGED error
    ELSE error' = [error EXCEPT ![t] = "load"] /\ UNCHANGED summary
------------------------------------------------------------------------------
Init == /\ made = <<>>
        /\ tabs = <<>>
        /\ activeId = None
        /\ openError = FALSE
        /\ url = None
        /\ refused = FALSE
        /\ loading = [t \in Made |-> FALSE]
        /\ error = [t \in Made |-> "none"]
        /\ summary = [t \in Made |-> "none"]
        /\ call = [t \in Made |-> [k \in Slots |-> "idle"]]
        /\ server = [id \in Specs |-> "stored"]
        /\ granted = {}

(* SpecTabsService.activate. *)
Activate(id) ==
    /\ activeId' = id
    /\ openError' = FALSE
    /\ url' = id

(* The route's parameter becomes id, from a link, the browser's history or  *)
(* switchTab: the subscriber opens the spec.                                *)
Visit(id) ==
    /\ id # url
    /\ IsOpen(id)
    /\ Activate(id)
    /\ refused' = FALSE
    /\ UNCHANGED <<made, tabs, tabVars, call, server, granted>>

(* A spec that is not open gets a tab, which loads. *)
VisitNew(id) ==
    /\ id # url
    /\ ~IsOpen(id)
    /\ ~AtMax(Len(tabs))
    /\ Len(made) < MaxMade
    /\ made' = Append(made, id)
    /\ tabs' = Append(tabs, Len(made'))
    /\ activeId' = id
    /\ openError' = FALSE
    /\ url' = id
    /\ loading' = [loading EXCEPT ![Len(made')] = TRUE]
    /\ call' = [call EXCEPT ![Len(made')]["load"] = "sent"]
    /\ refused' = FALSE
    /\ UNCHANGED <<error, summary, server, granted>>

(* At the cap, open() sets openError and the subscriber reverts the URL to  *)
(* the active tab, which the same subscriber then opens.                    *)
VisitRefused(id) ==
    /\ id # url
    /\ ~IsOpen(id)
    /\ AtMax(Len(tabs))
    /\ IF activeId # None
       THEN Activate(activeId)
       ELSE openError' = TRUE /\ url' = id /\ UNCHANGED activeId
    /\ refused' = TRUE
    /\ UNCHANGED <<made, tabs, tabVars, call, server, granted>>

(* SpecViewerComponent.closeTab: close() and, for the active tab, the       *)
(* navigation to its neighbor, which activate()s it once more.              *)
CloseTab(index) ==
    /\ url # None
    /\ LET id == made[tabs[index]]
           next == Without(tabs, index)
       IN  /\ tabs' = next
           /\ activeId' = IF activeId = id THEN Neighbor(next, index) ELSE activeId
           /\ url' = IF activeId = id THEN activeId' ELSE url
    /\ openError' = FALSE
    /\ refused' = FALSE
    /\ UNCHANGED <<made, tabVars, call, server, granted>>

(* To the start page; the tabs stay. *)
Leave ==
    /\ url # None
    /\ url' = None
    /\ refused' = FALSE
    /\ UNCHANGED <<made, tabs, activeId, openError, tabVars, call, server, granted>>

(* The browser reloads the page: nothing but the URL is left, and its spec  *)
(* is opened.                                                               *)
Reload ==
    /\ made' = IF url = None THEN <<>> ELSE <<url>>
    /\ tabs' = IF url = None THEN <<>> ELSE <<1>>
    /\ activeId' = url
    /\ openError' = FALSE
    /\ refused' = FALSE
    /\ loading' = [t \in Made |-> t = 1 /\ url # None]
    /\ error' = [t \in Made |-> "none"]
    /\ summary' = [t \in Made |-> "none"]
    /\ call' = [t \in Made |-> [k \in Slots |->
                  IF t = 1 /\ url # None /\ k = "load" THEN "sent" ELSE "idle"]]
    /\ UNCHANGED <<url, server, granted>>

(* The user confirms the dialog of the tab on show. *)
Approve(t) ==
    /\ url # None
    /\ IsActive(t)
    /\ CanApprove(t)
    /\ \E k \in Approvals : /\ call[t][k] = "idle"
                            /\ call' = [call EXCEPT ![t][k] = "sent"]
    /\ refused' = FALSE
    /\ UNCHANGED <<made, tabs, activeId, openError, url, tabVars, server, granted>>
------------------------------------------------------------------------------
(* The server handles a call; an approval of a spec it has is recorded. *)
Serve(t, k) ==
    /\ call[t][k] = "sent"
    /\ LET id == made[t]
       IN  IF server[id] = "absent"
           THEN /\ call' = [call EXCEPT ![t][k] = "error"]
                /\ UNCHANGED <<server, granted>>
           ELSE IF k = "load"
           THEN /\ call' = [call EXCEPT ![t][k] = server[id]]
                /\ UNCHANGED <<server, granted>>
           ELSE /\ call' = [call EXCEPT ![t][k] = "approved"]
                /\ server' = [server EXCEPT ![id] = "approved"]
                /\ granted' = granted \cup {id}
    /\ UNCHANGED <<made, viewVars, tabVars>>

(* The request is lost, or the answer is: the await throws, and the handler *)
(* does what it does with an error in the answer.                           *)
Lose(t, k) ==
    /\ call[t][k] \notin {"idle", "error"}
    /\ call' = [call EXCEPT ![t][k] = "error"]
    /\ UNCHANGED <<made, viewVars, tabVars, server, granted>>

Answered(t, k) == call[t][k] \in Summaries \cup {"error"}

DeliverLoad(t) ==
    /\ Answered(t, "load")
    /\ Loaded(t, call[t]["load"])
    /\ StopLoading(t, call[t]["load"])
    /\ call' = [call EXCEPT ![t]["load"] = "idle"]
    /\ UNCHANGED <<made, viewVars, server, granted>>

DeliverApproval(t, k) ==
    /\ Answered(t, k)
    /\ Approved(t, call[t][k])
    /\ call' = [call EXCEPT ![t][k] = "idle"]
    /\ UNCHANGED <<made, viewVars, loading, server, granted>>

(* Another window approves a spec, or the server restarts and forgets all. *)
OtherWindow(id) ==
    /\ server[id] = "stored"
    /\ server' = [server EXCEPT ![id] = "approved"]
    /\ granted' = granted \cup {id}
    /\ UNCHANGED <<made, viewVars, tabVars, call>>

Restart ==
    /\ server' = [id \in Specs |-> "absent"]
    /\ UNCHANGED <<made, viewVars, tabVars, call, granted>>

Next == \/ \E id \in Specs : Visit(id) \/ VisitNew(id) \/ VisitRefused(id) \/ OtherWindow(id)
        \/ \E index \in 1..Len(tabs) : CloseTab(index)
        \/ Leave \/ Reload \/ Restart
        \/ \E t \in 1..Len(made) :
              \/ Approve(t) \/ DeliverLoad(t)
              \/ \E k \in Slots : Serve(t, k) \/ Lose(t, k)
              \/ \E k \in Approvals : DeliverApproval(t, k)

Spec == Init /\ [][Next]_vars
------------------------------------------------------------------------------
TypeOK == /\ made \in Seq(Specs) /\ Len(made) <= MaxMade
          /\ tabs \in Seq(1..Len(made))
          /\ activeId \in Specs \cup {None}
          /\ openError \in BOOLEAN
          /\ url \in Specs \cup {None}
          /\ refused \in BOOLEAN
          /\ loading \in [Made -> BOOLEAN]
          /\ error \in [Made -> {"none", "load", "approve"}]
          /\ summary \in [Made -> Summaries \cup {"none"}]
          /\ call \in [Made -> [Slots -> Summaries \cup {"idle", "sent", "error"}]]
          /\ server \in [Specs -> Summaries \cup {"absent"}]
          /\ granted \subseteq Specs
          /\ Len(tabs) <= MaxTabs

(* A spec has at most one open tab, the active one is open, there is one    *)
(* as long as a tab is open, and the Explorer's URL names it, however tabs  *)
(* are opened, refused and closed (SpecTabsService.close's neighbor,        *)
(* SpecViewerComponent's navigations).                                      *)
ActiveTabShown ==
    /\ \A i, j \in 1..Len(tabs) : made[tabs[i]] = made[tabs[j]] => i = j
    /\ IF tabs = <<>> THEN activeId = None ELSE IsOpen(activeId)
    /\ url # None => url = activeId

(* A tab says it is loading exactly while its load call is out, on every    *)
(* path through load, closed tabs included.                                 *)
LoadingIffAsked == \A t \in Made : loading[t] <=> call[t]["load"] # "idle"

(* A tab shows a spec approved only if the server did approve it, whichever *)
(* of its calls fail.                                                       *)
ShownWasGranted == \A t \in 1..Len(made) : summary[t] = "approved" => made[t] \in granted

(* A late answer never takes an approval back: load and approve write the   *)
(* same summary, and an answer to load may have been made before the        *)
(* approval.                                                                *)
ApprovalStays == [][\A t \in Made : summary[t] = "approved" => summary'[t] # "stored"]_vars

(* When a spec was refused for the cap, the page says so: open's comment,   *)
(* "sets openError when the tab cap would be exceeded".                     *)
RefusalShown == refused => openError
==============================================================================
