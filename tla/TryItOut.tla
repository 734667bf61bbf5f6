------------------------------- MODULE TryItOut -------------------------------
(***************************************************************************)
(* try-it-out.service.ts with request-history.component.ts: the service    *)
(* that sends requests to the proxy for the Explorer and the API Client    *)
(* and keeps their responses.  There is one for the whole page, so its     *)
(* callers share the loading flag, the response and the history.           *)
(*                                                                         *)
(* The service itself does not stop a caller from sending while a request  *)
(* is out, so here any caller may; ApiClient adds the callers' buttons.    *)
(* The n-th request sent and the answer to it are both known by n; what is *)
(* in them is the caller's.                                                *)
(***************************************************************************)
EXTENDS Integers, Sequences

CONSTANT MaxSends   \* bound of the model: requests sent since the page loaded

ASSUME SendsAssumption == MaxSends \in Nat

VARIABLES
    sent,           \* how many requests were sent
    flight,         \* where each of them is
    loading,
    error,          \* a message is shown
    lastResponse,   \* the response shown, or 0
    history,        \* newest first
    selected,       \* selectedHistoryIndex, from 1, or 0
    nextId

tryVars == <<sent, flight, loading, error, lastResponse, history, selected, nextId>>

Sends == 1..MaxSends
Flights == {"unsent", "out", "answered", "failed", "done"}

InFlight == {n \in Sends : flight[n] \in {"out", "answered", "failed"}}
------------------------------------------------------------------------------
(* Slips the runs must notice, each a variant of a definition below. *)
OfLatestRequest(n) == [id |-> nextId, request |-> sent, response |-> n]
StopOnSuccess(ok) == loading' = (loading /\ ~ok)
KeepSelection == UNCHANGED selected
AtTheEnd(entry) == history' = Append(history, entry)
------------------------------------------------------------------------------
Entry(n) == [id |-> nextId, request |-> n, response |-> n]

Record(entry) == history' = <<entry>> \o history

(* sendRequest's `finally'. *)
StopLoading(ok) == loading' = FALSE

DropSelection == selected' = 0

Init == /\ sent = 0
        /\ flight = [n \in Sends |-> "unsent"]
        /\ loading = FALSE
        /\ error = FALSE
        /\ lastResponse = 0
        /\ history = <<>>
        /\ selected = 0
        /\ nextId = 1

(* sendRequest, up to its await. *)
Send ==
    /\ sent < MaxSends
    /\ sent' = sent + 1
    /\ flight' = [flight EXCEPT ![sent'] = "out"]
    /\ loading' = TRUE
    /\ error' = FALSE
    /\ UNCHANGED <<lastResponse, history, selected, nextId>>

(* The backend answers with the target's response, or with an error; or it  *)
(* is not reached.                                                          *)
Answer(n) ==
    /\ flight[n] = "out"
    /\ \E result \in {"answered", "failed"} : flight' = [flight EXCEPT ![n] = result]
    /\ UNCHANGED <<sent, loading, error, lastResponse, history, selected, nextId>>

(* sendRequest, from its await, with a response ... *)
Finish(n) ==
    /\ flight[n] = "answered"
    /\ flight' = [flight EXCEPT ![n] = "done"]
    /\ lastResponse' = n
    /\ Record(Entry(n))
    /\ nextId' = nextId + 1
    /\ StopLoading(TRUE)
    /\ UNCHANGED <<sent, error, selected>>

(* ... and without one. *)
Fail(n) ==
    /\ flight[n] = "failed"
    /\ flight' = [flight EXCEPT ![n] = "done"]
    /\ error' = TRUE
    /\ StopLoading(FALSE)
    /\ UNCHANGED <<sent, lastResponse, history, selected, nextId>>

(* A click on an entry of a list, which may show a part of the history only: *)
(* onSelect looks the entry up by its id.                                    *)
SelectHistoryEntry(k) ==
    /\ k \in 1..Len(history)
    /\ selected' = k
    /\ lastResponse' = history[k].response
    /\ UNCHANGED <<sent, flight, loading, error, history, nextId>>

ClearHistory ==
    /\ history # <<>>
    /\ history' = <<>>
    /\ DropSelection
    /\ UNCHANGED <<sent, flight, loading, error, lastResponse, nextId>>

ClearLastResponse ==
    /\ lastResponse # 0
    /\ lastResponse' = 0
    /\ UNCHANGED <<sent, flight, loading, error, history, selected, nextId>>

Next == \/ Send
        \/ \E n \in Sends : Answer(n) \/ Finish(n) \/ Fail(n)
        \/ \E k \in Sends : SelectHistoryEntry(k)
        \/ ClearHistory
        \/ ClearLastResponse

Spec == Init /\ [][Next]_tryVars
------------------------------------------------------------------------------
TypeOK == /\ sent \in 0..MaxSends
          /\ flight \in [Sends -> Flights]
          /\ \A n \in Sends : flight[n] = "unsent" <=> n > sent
          /\ loading \in BOOLEAN
          /\ error \in BOOLEAN
          /\ lastResponse \in 0..MaxSends
          /\ history \in Seq([id : Nat, request : Sends, response : Sends])
          /\ selected \in Nat
          /\ nextId \in Nat \ {0}

(* Every entry of the history holds a request with its own response, however *)
(* the answers are ordered.                                                  *)
EntriesPaired == \A k \in 1..Len(history) : history[k].request = history[k].response

(* The history is ordered by arrival, newest first, its ids never repeat     *)
(* (lists track their rows by them), and the next id is new.                 *)
NewestFirst ==
    /\ \A j, k \in 1..Len(history) : j < k => history[j].id > history[k].id
    /\ \A k \in 1..Len(history) : history[k].id < nextId

(* The selected index is one of an entry, also after the history is cleared. *)
SelectionInHistory == selected <= Len(history)

(* The Send buttons are never left disabled: while the flag is up a request  *)
(* is out whose end takes it down.                                           *)
LoadingHasFlight == loading => InFlight # {}
==============================================================================
