------------------------------- MODULE ApiClient -------------------------------
(***************************************************************************)
(* api-client.component.ts with its form (api-client-state.service.ts), the *)
(* approval dialog, and the senders that share TryItOut's service: the API *)
(* Client's own button, its retry after an approval, and the Explorer's    *)
(* Try It Out.  SpecTabs models the tabs; here a tab is open, shown as     *)
(* approved, or closed.                                                    *)
(*                                                                         *)
(* An open dialog, and the Explorer's pane of a tab that is not approved,  *)
(* stop the pointer only: all that lies behind works by keyboard.          *)
(*                                                                         *)
(* The form outlives the component; the dialog and the URL's error do not. *)
(* A handler that waits for an approval goes on after its component is     *)
(* gone, and then has no dialog or error to show.                          *)
(***************************************************************************)
EXTENDS Integers, Sequences

CONSTANTS
    Specs,       \* the specs that are open at first
    None,        \* no spec, no URL
    Urls,        \* what the URL field may hold, apart from nothing
    Malformed,   \* those that are not http or https URLs
    Endpoint,    \* the URL of an endpoint of each spec
    Approvals,   \* bound of the model: approvals waited for at once
    MaxClicks,   \* bound of the model: clicks on a Send button
    MaxSends     \* bound of the model: see TryItOut

ASSUME ClientAssumption ==
    /\ None \notin Specs \cup Urls
    /\ Malformed \subseteq Urls
    /\ Endpoint \in [Specs -> Urls \ Malformed]
    /\ MaxClicks \in Nat /\ MaxSends \in Nat

VARIABLES
    sent, flight, loading, error, lastResponse, history, selected, nextId,
    page,        \* "client" or "explorer"
    tab,         \* each spec's tab
    url,         \* the form ...
    spec,        \* ... and its selectedSpecId
    urlError,
    dialog,      \* the approval dialog is open
    asked,       \* history: the URL of the click that opened it
    waiting,     \* the approvals that are waited for
    requests,    \* what was sent, and by which page
    clicks       \* history: clicks on a Send button

Service == INSTANCE TryItOut

formVars == <<url, spec>>
uiVars == <<urlError, dialog, asked>>
sendVars == <<sent, flight, loading, error, lastResponse, history, selected, nextId, requests>>
vars == <<sendVars, page, tab, formVars, uiVars, waiting, clicks>>

(* The open tab of the form's spec, selectedTab; `shown' is how the tabs     *)
(* are shown when it is read.                                               *)
SelectedTab(shown) == IF spec # None /\ shown[spec] # "closed" THEN spec ELSE None
------------------------------------------------------------------------------
(* Slips the runs must notice, each a variant of a definition below. *)
NeverAsks(shown, s) == FALSE
SendsAnyway(shown, from) ==
    /\ Service!Send
    /\ requests' = Append(requests, [url |-> url, spec |-> None, from |-> from,
                                     approved |-> TRUE, by |-> "client"])
------------------------------------------------------------------------------
NeedsApproval(shown, s) == s # None /\ shown[s] # "approved"

(* The Send buttons are enabled: canSend of the Explorer, [disabled] of the  *)
(* API Client.                                                              *)
Ready == ~loading

(* A request for u goes to the service: `from' is the URL of the click it   *)
(* goes back to, `approved' whether its tab was shown as approved, `by' the *)
(* page of the button or the retry.                                         *)
Submit(shown, u, s, from, by) ==
    /\ Service!Send
    /\ requests' = Append(requests, [url |-> u, spec |-> s, from |-> from,
                                     approved |-> s = None \/ shown[s] = "approved",
                                     by |-> by])

(* ApiClientComponent.sendRequest, of a component that is alive or gone, for *)
(* a click on from: nothing to send, no valid URL, a spec to approve first,  *)
(* or a request.                                                             *)
SendNothing == url = None /\ UNCHANGED <<sendVars, uiVars>>

SendInvalid(alive) ==
    /\ url \in Malformed
    /\ urlError' = (urlError \/ alive)
    /\ UNCHANGED <<sendVars, dialog, asked>>

(* The `return' after the dialog is opened. *)
StopAtDialog(shown, from) == UNCHANGED sendVars

AskApproval(shown, alive, from) ==
    /\ url \in Urls \ Malformed
    /\ NeedsApproval(shown, SelectedTab(shown))
    /\ IF alive THEN dialog' = TRUE /\ asked' = from /\ urlError' = FALSE
                ELSE UNCHANGED uiVars
    /\ StopAtDialog(shown, from)

SendForm(shown, alive, from) ==
    /\ url \in Urls \ Malformed
    /\ ~NeedsApproval(shown, SelectedTab(shown))
    /\ urlError' = (urlError /\ ~alive)
    /\ Submit(shown, url, SelectedTab(shown), from, "client")
    /\ UNCHANGED <<dialog, asked>>

SendRequest(shown, alive, from) ==
    \/ SendNothing
    \/ SendInvalid(alive)
    \/ AskApproval(shown, alive, from)
    \/ SendForm(shown, alive, from)
------------------------------------------------------------------------------
Init == /\ Service!Init
        /\ page = "client"
        /\ tab = [s \in Specs |-> "open"]
        /\ url = None
        /\ spec = None
        /\ urlError = FALSE
        /\ dialog = FALSE
        /\ asked = None
        /\ waiting = [k \in Approvals |-> None]
        /\ requests = <<>>
        /\ clicks = 0

(* An open dialog keeps the pointer off the form, but not the keyboard. *)
OnForm == page = "client"

TypeUrl(u) ==
    /\ OnForm
    /\ u # url
    /\ url' = u
    /\ UNCHANGED <<sendVars, page, tab, spec, uiVars, waiting, clicks>>

LoadEndpoint(s) ==
    /\ OnForm
    /\ tab[s] # "closed"
    /\ url' = Endpoint[s]
    /\ spec' = s
    /\ urlError' = FALSE
    /\ UNCHANGED <<sendVars, page, tab, dialog, asked, waiting, clicks>>

(* A click on an entry of the history selects it and fills the form. *)
Replay(k) ==
    /\ OnForm
    /\ Service!SelectHistoryEntry(k)
    /\ url' = requests[history[k].request].url
    /\ UNCHANGED <<requests, page, tab, spec, uiVars, waiting, clicks>>

ClearHistory ==
    /\ OnForm
    /\ Service!ClearHistory
    /\ UNCHANGED <<requests, page, tab, formVars, uiVars, waiting, clicks>>

Click ==
    /\ OnForm
    /\ Ready
    /\ url # None
    /\ clicks < MaxClicks
    /\ clicks' = clicks + 1
    /\ SendRequest(tab, TRUE, url)
    /\ UNCHANGED <<page, tab, formVars, waiting>>

Cancel ==
    /\ dialog
    /\ dialog' = FALSE
    /\ asked' = None
    /\ UNCHANGED <<sendVars, page, tab, formVars, urlError, waiting, clicks>>

(* onApprovalConfirmed, up to its await. *)
Confirm(k) ==
    /\ dialog
    /\ waiting[k] = None
    /\ dialog' = FALSE
    /\ asked' = None
    /\ waiting' = IF SelectedTab(tab) = None THEN waiting
                  ELSE [waiting EXCEPT ![k] =
                          [spec |-> SelectedTab(tab), url |-> asked, alive |-> TRUE]]
    /\ UNCHANGED <<sendVars, page, tab, formVars, urlError, clicks>>

(* The approval is answered, and tried again is whatever the form holds now. *)
Granted(k) ==
    /\ waiting[k] # None
    /\ waiting' = [waiting EXCEPT ![k] = None]
    /\ tab' = [tab EXCEPT ![waiting[k].spec] = IF @ = "closed" THEN @ ELSE "approved"]
    /\ SendRequest(tab', waiting[k].alive, waiting[k].url)
    /\ UNCHANGED <<page, formVars, clicks>>

(* The approval fails.  The tab may be approved all the same, by another     *)
(* call; of a closed tab's object that is not known here.                    *)
NotGranted(k) ==
    /\ waiting[k] # None
    /\ waiting' = [waiting EXCEPT ![k] = None]
    /\ \/ /\ tab[waiting[k].spec] \in {"approved", "closed"}
          /\ SendRequest(tab, waiting[k].alive, waiting[k].url)
       \/ /\ tab[waiting[k].spec] \in {"open", "closed"}
          /\ UNCHANGED <<sendVars, uiVars>>
    /\ UNCHANGED <<page, tab, formVars, clicks>>

(* Leaving the page takes the component with it, waiting handlers apart. *)
ToExplorer ==
    /\ page = "client"
    /\ page' = "explorer"
    /\ urlError' = FALSE
    /\ dialog' = FALSE
    /\ asked' = None
    /\ waiting' = [k \in Approvals |-> IF waiting[k] = None THEN None
                                      ELSE [waiting[k] EXCEPT !.alive = FALSE]]
    /\ UNCHANGED <<sendVars, tab, formVars, clicks>>

ToClient ==
    /\ page = "explorer"
    /\ page' = "client"
    /\ UNCHANGED <<sendVars, tab, formVars, uiVars, waiting, clicks>>

(* In the Explorer: a tab is approved or closed, or an endpoint tried out.   *)
(* canSend and sendRequest do not ask whether the tab is approved; until it  *)
(* is, the pane around the button only stops the pointer.                    *)
ApproveTab(s) ==
    /\ page = "explorer"
    /\ tab[s] = "open"
    /\ tab' = [tab EXCEPT ![s] = "approved"]
    /\ UNCHANGED <<sendVars, page, formVars, uiVars, waiting, clicks>>

CloseTab(s) ==
    /\ page = "explorer"
    /\ tab[s] # "closed"
    /\ tab' = [tab EXCEPT ![s] = "closed"]
    /\ UNCHANGED <<sendVars, page, formVars, uiVars, waiting, clicks>>

TryOut(s) ==
    /\ page = "explorer"
    /\ tab[s] # "closed"
    /\ Ready
    /\ clicks < MaxClicks
    /\ clicks' = clicks + 1
    /\ Submit(tab, Endpoint[s], s, Endpoint[s], "explorer")
    /\ UNCHANGED <<page, tab, formVars, uiVars, waiting>>

(* Try It Out lists the history as well, and clears the response it shows. *)
Inspect ==
    /\ page = "explorer"
    /\ \E s \in Specs : tab[s] # "closed"
    /\ \/ \E k \in Service!Sends : Service!SelectHistoryEntry(k)
       \/ Service!ClearHistory
       \/ Service!ClearLastResponse
    /\ UNCHANGED <<requests, page, tab, formVars, uiVars, waiting, clicks>>

(* The service's own steps. *)
Arrival ==
    /\ \E n \in Service!Sends : Service!Answer(n) \/ Service!Finish(n) \/ Service!Fail(n)
    /\ UNCHANGED <<requests, page, tab, formVars, uiVars, waiting, clicks>>

Next == \/ \E u \in Urls : TypeUrl(u)
        \/ \E s \in Specs : LoadEndpoint(s) \/ ApproveTab(s) \/ CloseTab(s) \/ TryOut(s)
        \/ \E n \in Service!Sends : Replay(n)
        \/ \E k \in Approvals : Confirm(k) \/ Granted(k) \/ NotGranted(k)
        \/ ClearHistory \/ Click \/ Cancel \/ ToExplorer \/ ToClient
        \/ Inspect \/ Arrival

Spec == Init /\ [][Next]_vars
------------------------------------------------------------------------------
TypeOK == /\ Service!TypeOK
          /\ page \in {"client", "explorer"}
          /\ tab \in [Specs -> {"open", "approved", "closed"}]
          /\ url \in Urls \cup {None}
          /\ spec \in Specs \cup {None}
          /\ urlError \in BOOLEAN
          /\ dialog \in BOOLEAN
          /\ asked \in Urls \cup {None}
          /\ waiting \in [Approvals -> {None} \cup
                            [spec : Specs, url : Urls, alive : BOOLEAN]]
          /\ requests \in Seq([url : Urls, spec : Specs \cup {None}, from : Urls,
                                approved : BOOLEAN, by : {"client", "explorer"}])
          /\ Len(requests) = sent
          /\ clicks \in 0..MaxClicks

(* The API Client prompts for an approval instead of letting the backend     *)
(* reject the request (sendRequest's comment): none of its requests, by      *)
(* button or by retry, leaves for a spec whose tab is not shown as approved, *)
(* also not from a retry that finds another spec in the form than the one    *)
(* approved, or from a button behind an open dialog.  Of the Explorer's      *)
(* requests this is not so: see TryOut.                                      *)
SentWhenApproved ==
    \A n \in 1..Len(requests) : requests[n].by = "client" => requests[n].approved

(* A click sends at most one request, though an approval it waits for sends  *)
(* too, and may have to ask for another approval first.                      *)
OneSendPerClick == sent <= clicks

(* A retry sends what the user originally clicked on (onApprovalConfirmed's  *)
(* comment), whatever became of the form while the approval was under way.   *)
RetrySendsTheClick == \A n \in 1..Len(requests) : requests[n].url = requests[n].from
==============================================================================
