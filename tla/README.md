# ReqViz in TLA+

ReqViz takes an OpenAPI document, shows it as a graph of endpoints and schemas,
and sends requests to the API it describes. Two programs do it: a Go server
(`backend/`), which stores documents and calls the described hosts on behalf of
the page, and an Angular page (`frontend/`), which shows the documents and lets
the user approve a document's hosts before anything is called. The modules here
model both, TLC checks them on small instances, and TLAPS proves what matters
most for every instance. Paths below are relative to the repository; frontend
paths leave out `frontend/src/app/`, backend ones `backend/internal/`.

## 1. The system

### Components, their state and their operations

| Component | Source | State | Operations | Modules |
|---|---|---|---|---|
| Spec store | `store/store.go` | a map from id to spec, an RWMutex | `Save`, `Get`, `Approve` | `SpecGate` |
| Spec and proxy handlers | `handler/handler.go`, `errors.go` | none of their own: they read the shared specs | `UploadSpec`, `GetSpec`, `ApproveSpec`, `ProxyRequest` | `SpecGate`, `Proxy` |
| Host rules | `proxy/validate.go`, `security.go` | none | `IsValidPublicHost`, `HostInList`, `ExtractServerHosts` | `HostRules` |
| Rate limiter | `proxy/ratelimit.go` | a bucket per host | `Allow` | `RateLimit`, `Limiter`, `Proxy` |
| Proxy executor, client | `proxy/executor.go`, `client.go` | the calls under way, idle connections | `Execute` | `Executor`, `ProxyCall`, `Proxy` |
| Safe dialer | `proxy/dialer.go` | none; DNS is outside | address checks before a call, at a dial, at a redirect | `Executor` |
| Demo specs | `handler/demo.go`, `demos/` | constants | `LoadDemo` (stores like an upload) | `SpecGate`, in part |
| Parser | `parser/` | none | `FromJSON`, `FromYAML` | - |
| Origin check | `handler/middleware.go` | none | `OriginAllowed`, `SecurityHeaders` | - |
| Server process | `cmd/server/main.go` | all of the above, in memory | start, restart | `SpecGate`, `SpecTabs`, in part |
| Explorer tabs | `features/spec-viewer/services/spec-tabs.service.ts`, `spec-tab.ts`, `spec-viewer.component.ts` | open tabs, the active id, the URL, each tab's summary and flags | open, switch, close, load, approve | `SpecTabs` |
| Spec graph and filters | `models/spec-to-graph.ts`, `spec-tab.ts`, `spec-graph.service.ts`, `graph-toolbar.component.ts` | graph, filters, selection | build, filter, select, navigate | `SpecView` |
| Canvases | `features/spec-viewer/graph/` | layout, positions, simulation, transforms, transitions, drags | draw, drag, pan, zoom, switch the layout | `GraphCanvas`, in part |
| Node detail panes | `features/spec-viewer/node-detail/` | a dialog | navigate, ask for approval | `SpecView`, `SpecTabs`, `RequestForm`, in part |
| Try It Out form | `features/spec-viewer/try-it-out/` | URL, parameters, switches, body, inputs | fill in, send, show another endpoint | `RequestForm` |
| Try It Out service | `services/try-it-out.service.ts`, `shared/components/request-history/` | requests out, history, selection | send, select, clear | `TryItOut` |
| API Client | `features/api-client/`, `shared/components/approval-dialog/` | form, source spec, dialog | edit, load an endpoint, replay, send, approve and retry | `ApiClient` |
| Upload page | `features/upload/` | draft, demo, summary, flags | edit, load a demo or file, upload | `Upload` |
| API service | `core/api.service.ts` | none | one method per call of the server | calls of `SpecTabs`, `TryItOut`, `Upload` |
| Shell, widgets, theme | `app.component.ts`, `shared/` | the theme | - | - |
| Generated code | `handler/openapi_gen.go`, `core/schema.d.ts` | - | - | - |

### How they interact

- **Page to server**: HTTP calls, one goroutine each. The page does not wait for
  one call before it makes the next; answers come in any order or not at all.
- **Handlers to store**: `Get` hands out a pointer. The mutex covers the map and
  the two assignments of `Approve`, but handlers read `Approved` and
  `AllowedHosts` of the shared spec after `Get` has released it.
- **Handlers to executor**: `proxyRequestCore` hands over the URL and the host
  list it just read; `Execute` compares them, asks the limiter, resolves and calls.
- **Executor to the network**: DNS is asked up to three times per connection and
  may change its mind; idle connections are shared by all calls; servers redirect.
- **Within the page**: a single thread. Handlers run to completion between
  awaits; the router calls the route subscriber in the microtasks of the
  navigation. Services are singletons: the Explorer and the API Client share one
  Try It Out service, and with it the loading flag, the response and the history.

### What is hard

Interleaved handlers that read without a lock; a restart that forgets ids open
pages still use; DNS, redirects and pooled connections between a check and its
use; answers to `load`, `approve` and proxied calls that arrive late, out of
order, or for a tab that was closed; a handler that goes on after an await with
a form that has changed; navigations that run the handler they came from again;
a form and a canvas that outlive what they were made for; inputs that show what
nothing is bound to; timers, transitions and drags of a drawing that is gone.
`PROJECT.json` lists 40 such hazards by line, with the properties that cover each; one, the notice of section 4, has none that holds.

### What makes each component correct

- *Store and gate*: a call is decided by the approval that was last complete
  when it was looked up, if nobody approved meanwhile; a stored spec only allows
  hosts of its document or checked ones; a summary says what was approved; an id
  from before a restart is refused; no request waits for a lock nobody releases.
- *Limiter*: no window of time holds more allowed calls than burst plus refill,
  and nothing is refused that this bound would allow.
- *Executor and dialer*: only public addresses are contacted; redirects end; a
  body is shown whole or not at all; a call goes round in no circle and ends though
  nobody answers it.
- *The three together*: a server is contacted only in a call the gate let through, at
  a host that was listed for it; each call takes a token of its own, so that servers
  are reached within the rate.
- *Tabs*: the active tab, the open tabs and the URL agree; loading flags end;
  a tab shows an approval only if there was one, and late answers take none back.
- *Graph*: an endpoint is shown with every schema it refers to in a form the builder
  reads, and a schema only with reason; the selection is a node; parallel links can be told apart.
- *Canvases*: the canvas shows what the filters leave, in the chosen layout; links
  and labels run between their nodes wherever these are dragged; a gesture starts
  where the drawing is, unless it was drawn in the middle of one; one simulation runs, follows what is held, and stops.
- *Try It Out form*: a request that can be sent has what the operation requires,
  its values in their own places, and of the endpoints shown before nothing but a
  text for a placeholder this one does not declare; the body is what the inputs show.
- *Try It Out service*: an entry pairs a request with its own response, the
  history is in order under unique ids, and the Send button comes back.
- *Upload page*: the summary and the highlighted demo are of the draft, unless
  answers overlapped; the button comes back, also after the page was left.
- *API Client*: it sends nothing for a spec shown as unapproved, a click sends at
  most once, and the retry sends what was clicked (which does not hold, see 4).

## 2. Modules

`HostRules` is extended by `SpecGate` and `Executor`, `TryItOut` by `RequestForm`,
`SpecView` by `GraphCanvas`; `Limiter` implements `RateLimit`
(`ImplementsRateLimit`) and `Executor` implements `ProxyCall`
(`ImplementsProxyCall`), both by `INSTANCE ... WITH` a refinement mapping;
`Proxy` extends `SpecGate`, instantiates `Limiter` and `Executor` and uses all three
(`UsesParts`);
`ApiClient` instantiates `TryItOut` and takes its actions as its own; `ApiClient` and
`RequestForm` implement it (`ClientUsesService`, `FormUsesService`). Each `MC*` module holds the constants of the runs.
Each module starts with *slips*: variants of its definitions as a likely mistake
would make them; `PROJECT.json` says which property each of them breaks.

- **HostRules**: a host is a name with a kind (domain, literal address,
  numeric, localhost, malformed), upper case or not, padded with white space or
  not: the three things the checks treat differently.
- **SpecGate**: one action per access to shared memory, in program order.
  `pc[r]` is where the goroutine of request `r` is. `Lookup` is `store.Get`;
  `BeginApprove` and `EndApprove` are the two assignments of `store.Approve` under
  the lock; `ReadDefault`, `CheckApproved`, `Forward`, `ReadApproved` and
  `ReadHosts` read without it. `Reads` gives what an unlocked read of the host
  list may see while it is replaced: the old one, the new one, or a torn slice
  header, which pairs one array with the other length. A request that passes the
  allowlist is "forwarded"; `Executor` goes on from there. `Handle` is what a handler
  does before that, `Judge` the verdict on a list it is given. History variables:
  `latest` (the last complete approval), `asof` (what it was at the look-up) and
  `disturbed` (the spec was written to since).
- **RateLimit, Limiter**: the promise (a limiter that remembers every call it
  allowed) and the token bucket. The clock ticks once in the time a unit of
  tokens takes to refill, a token is `TokenTime` units, so no rate is needed.
- **Executor**: `Begin` (the call, with what the gate hands over), `Enter` (allowlist, limiter), `Resolve`, `Build`, then `Reuse` of
  an idle connection or `DialCheck` and `Dial`; `Redirect`, `Respond`, `Read`; at any
  point `DnsChange`, `Disconnect` and `Timeout`. `trail` is the requests a call made.
- **ProxyCall**: what `Executor` implements: a call sends at most so many requests,
  to public addresses only, and then has one result for good; one that is refused
  has contacted nobody. The mapping takes `trail` to the requests and their
  addresses and `outcome` to refused, failed or answered; look-ups, connections
  and time are stutters.
- **Proxy**: the gate, the limiter and the executor of one run of the server. The
  goroutine of a request is that of its call, so `pc[r]` is where its handler is and
  `stage[r]` where `Execute` is. It has no other step than theirs: `Serve` is a handler's,
  `HandOver` the last read of `proxyRequestCore` and the call of `Execute` with it, `Ask`
  the two first checks with the limiter's real answer (it is not asked about a host that
  is not listed), `Go` the rest of `Execute`. `SpecGate` ends a proxied request with the
  verdict on its host, as `Execute` makes it; that verdict and the one of `Enter` agree,
  since both judge the list that was handed over.
- **SpecTabs**: `made` numbers tab *objects*, so an answer that comes for a closed
  tab reaches the old object though the spec may be open again. `Visit`,
  `VisitNew` and `VisitRefused` are the three ways the route subscriber ends;
  `CloseTab` includes the navigation to the neighbor. `Serve`, `Lose` and the
  `Deliver` actions are a call's way there and back.
- **SpecView**: a document is a record of schemas and operations whose refs are
  schema names; the order of nodes and edges is the code's. It also has the references
  the builder does not read: `others`, what the schema of a body, response or parameter
  composes or nests, and `shared`, what lies behind a body, response or parameter that an
  operation takes by `$ref` or from its path. `Promised` are the schemas in the forms the
  code handles, `Mentioned` all of them. `BuildSpecGraph`,
  `FilteredGraph`, `Links` and `CurveOffset` are the code's functions; texts are
  replaced by the searches that find a node. A list that keeps the places of the
  one it was filtered from is a function on these places. What a path item holds
  besides its methods is no operation (`IsOperation`), and nothing is claimed of it.
- **GraphCanvas**: the page is drawn some time after a change (`Render`): another
  layout's canvas is a new component, else the effect of the old one draws if its
  input is another object, which `SameInput` decides (without filters
  `filteredGraph` returns the tab's graph itself, with any a new object each time).
  Structured: a link has dagre's points (`routed`) until one of its nodes is
  dragged, and runs between its nodes from then on. Interactive: simulations are
  numbered; `ticking` are those whose timer runs, `warm` those with an alpha target,
  `held` the drags under way, several at once on a touch screen, and each goes on
  with the simulation it began with. `zoom` has the svg's own transform, the
  drawing's, the transition and the gesture, because the svg outlives its drawings and
  all of these go on over a redraw. d3-zoom has one gesture at a time (`svg.__zooming`),
  which belongs to the zoom behaviour it began with and so moves the drawing of that one;
  a transition, the wheel and `zoom.transform` join one that is under way. `Grab`, `Wheel`,
  `Pan` and `Release` are the user's, `GlideStart` and `GlideEnd` a transition's. When
  `initGraph` sets the fit while the user's gesture is under way, the fit goes to the
  removed drawing (`Fitted`, `lost`).
- **RequestForm**: `endpoint` is what the form shows; `Show` hands the same form
  another endpoint. `shown` is what the schema form's inputs show, which nothing is
  bound to, apart from `body`, which is sent. A name may be a text in one endpoint
  and an array in another: what `Show` keeps is the input of the same name and kind
  (`Kept`), the rest is drawn anew. What lies within a field that is off (the items of an
  array, the form of a nested object) only ignores the pointer, so that `UpdateArrayItem`
  and `UpdateValue` of a nested field do not ask whether it is on: the first leaves it off,
  with the array in the body, the second switches it on. Path parameters are a record whose
  entries keep the order they were typed in, since `path.replace` is applied in
  that order; a path is pieces, so that a typed text that looks like a placeholder
  differs from one (`Encoded`), and only the first occurrence is filled. `unsent` and `shifted` are history: the fields whose
  input the form keeps to itself, by a quirk each, until the next input.
- **TryItOut**: the n-th request and its answer are both known by `n`.
- **ApiClient**: `SendRequest` is the component's function, called by `Click` and,
  after the await, by `Granted` and `NotGranted`, also when the component is gone
  (`alive`). Method, headers and body go with the URL. The dialog and the Explorer's pane
  of an unapproved tab stop the pointer only (`endpoint-detail.component.html:138`), and
  neither `canSend` nor `sendRequest` asks for an approval: by keyboard the form behind the
  dialog is edited and sent (`OnForm`), and an endpoint of an unapproved tab is tried out
  (`TryOut`). The server then answers 403; what that does is `SpecGate`'s.
- **Upload**: a handler that waits is `call[c]`, with the number of the component
  that started it (`mount`), so that one of a component that is gone writes the
  service's draft and summary but no flag on the page. `alone` (nothing has
  written the draft, or is going to, since this handler started), `fits` and
  `settled` are history.
- **LimiterProofs, SpecGateProofs, ExecutorProofs, SpecTabsProofs, TryItOutProofs**
  (the service and the form), **ApiClientProofs, GraphCanvasProofs** (the graph and the
  canvases), **UploadProofs**: section 6.

## 3. Runs that pass

| Run | Instance | Shows |
|---|---|---|
| `limiter` | 2 hosts, burst 2, a token every 2 ticks, 6 ticks | `WindowBound`, `ImplementsRateLimit` |
| `gate` | 4 requests, 2 ids, one document of 2 hosts, edited lists that are accepted (one upper case, one padded) and rejected, 1 restart | `Vouched`, `JudgedByLatestApproval`, `ForwardedVouched`, `UndisturbedSummary`, `SomeRequestProceeds`, `StaleIdRefused` |
| `executor` | 2 calls, 4 host names of 3 kinds, 2 addresses, 2 requests per call, cap of 1 byte, bodies up to 2, fair | `OnlyPublicContacted`, `BodyWithinCap`, `ImplementsProxyCall` (with it `RequestsBounded`), `CallsRunDown`, `EveryCallEnds` |
| `proxy` | 4 requests, 1 id, 1 document of a literal host, 1 edited list with another host, both called, burst 1, 1 tick | `ContactsVouched`, `CallsTakeTokens`, `ReachedWithinRate` |
| `tabs` | 3 specs, 2 tabs, 3 tab objects, 1 approval per tab at a time | `ActiveTabShown`, `LoadingIffAsked`, `ShownWasGranted`, `ApprovalStays` |
| `graph` | an empty document and 12 of 2 schemas and 2 operations, 1 search, 2 tags, 3 methods, both layouts, 3 turns of the user, fair | `SelectionInGraph`, `FilterKeepsRelated`, `ParallelLinksApart`, `MoreTagsDrawMore`; `ShowsFiltered`, `LinksMeetNodes`, `TransformShown`, `SimulationFollows`, `Settles` |
| `tryitout` | 3 requests, 3 endpoints of 2 documents, arrays of 2 items, 6 turns (an input is one, a request two) | `EntriesPaired`, `NewestFirst`, `SelectionInHistory`, `LoadingHasFlight`; `RequestFits`, `BodyAsShown` |
| `upload` | 3 documents, 2 of them demos, 3 handlers waiting, the page entered twice | `LoadingIffUploading`, `UndisturbedSummaryFits`, `SettledDemoShown` |
| `client` | 2 specs, 2 clicks, 3 sends, 2 approvals awaited at once | `SentWhenApproved`, `OneSendPerClick` |

No run repeats a type invariant: the types of every module are proved (`TypeCorrect`,
`CanvasTypeCorrect`, `FormTypeCorrect`, section 6).

**Why the bounds are enough.** Bounds of the models, not of the code, are named so
where they are declared: `MaxTime`, `MaxRestarts`, `MaxLength`, `MaxMade`,
`Approvals`, `MaxSends`, `MaxClicks`, `Calls`, `MaxMounts`, `MaxItems`, `MaxTurns`. Four requests are an upload, two approvals
that race and a call they race with; with two ids a restart and an upload after it
are reached, and a document of two hosts and edits of one give lists of
different length, which torn reads need. In `executor` two
calls suffice for one to use a connection another left, and each host kind that
a look-up treats differently is there; bodies of zero, cap and cap plus one bytes are
all the lengths `ReadBodyWithCap` can tell apart. The four requests of `proxy` are an
upload, an approval and two calls that share a bucket of one token, which one tick
fills again, or an upload, two approvals and a call; there are no redirects and
bodies are empty, since `executor` has these and the three properties tell nothing
apart by them. Three specs and two tabs are one
spec too many; three tab objects allow a spec to be closed and opened again while
the first object's calls are out. The graph's documents hold every form of ref the
builder reads (direct, array, composed), circular, to itself and dangling, and of those
it does not read one in a response, one in a parameter and one that is shared. Three
turns are a layout, a gesture and a change that draws the canvas again, or two
pointers on one simulation and a filter under them; all that is drawn, moved, timed or
released in between costs no turn. A drawing whose fit is lost takes all three (a layout,
a gesture and a filter), so that the gesture that finds it again, a fourth, is left to the
proof. They also bound the filters that are set at once
to three. Of the three endpoints two share a placeholder's name, one has a name
twice as a query and a header parameter, one a placeholder it does not declare and
another does, and two share a field's name, a text in one and an array in the other; two
optional fields, an array and a nested one, are off at first; six turns fill in the longest of them and leave two for what goes
wrong, and two items are what removing the first of several takes. Two
clicks with an approval between them are what a retry can go wrong with; `MaxSends` is one more than
clicks, so that a send too many would be seen. Three handlers that wait are a demo,
a file and an upload, or an upload of each component and a demo; one return to the
page is what the flag of an old handler needs to meet a new component.

**Deadlock** is checked except where the model stops by design: `SpecGate` and `Proxy`, whose
finite set of requests has all been served (`SomeRequestProceeds` says that it does
not stop before), `TryItOut` and `RequestForm`, when `MaxSends`
requests are done or the turns used up, and `GraphCanvas`, whose user has `MaxTurns`.
Symmetry (of requests and ids, of specs) is used in runs of invariants and action properties only, and never in a fair one.

**Fairness.** `Executor!Fairness`: only what the goroutine does by itself is fair, its checks
(the resolver's look-ups time out) and `http.Client`'s timer; DNS, connections and
servers owe nothing, so `EveryCallEnds` holds without their help. `CanvasSpec`:
Angular draws the page, timers of simulations fire, and no pointer holds a node
for ever; the user need do nothing, and what the user does is bounded by the turns,
so `Settles` says that drawings and gestures that end leave no timer behind.

## 4. Runs that show a disagreement

| Run | Property, from | What happens |
|---|---|---|
| `gate_race` | `OnlyApprovedHostsCalled`, `handler/errors.go:14` | A call that overlaps the first approval reads the new `Approved` and the old list: it is forwarded to a host of the document that the approval left out. |
| `executor_redirect` | `OnlyListedReached`, `approval-dialog.component.ts:49` | A listed host redirects the call to a public host that is not listed; `SafeCheckRedirect` does not know the list. |
| `client_retry` | `RetrySendsTheClick`, `api-client.component.ts:166` | The form is edited or replayed into while the approval is awaited; the retry sends what it holds then. |

`spec-tabs.service.ts:27` says that `open` sets the notice when the cap is hit; the
navigation back to the active tab clears it in the same turn
(`spec-viewer.component.ts:53`). `RefusalShown` of `SpecTabs` states the sentence, and
TLC refutes it after one visit to one spec too many when it stands as an invariant in
`MCSpecTabs.cfg`, which is all there is to see.

Two more sentences are stated and not kept, each refuted by TLC within seconds when it
stands as an invariant in the configuration named. `openapi.yaml:249` says that the list of an
approval 'Defaults to spec's servers': `DefaultsToServers` of `SpecGate`
(`MCSpecGate_race.cfg`). Once an edited list is stored, an approval without one keeps it
(`handler.go:80`): upload, approve with a list, approve again without, and the second
answer has the list of the first. `UndisturbedSummary` leaves this case open.
`spec-to-graph.ts:95` says that `collectEndpointEdges` is to 'Find $ref targets in an
operation's request body, responses, and parameters': `NoReferenceLost` of `SpecView`
(`MCSpecView.cfg`). It reads a content schema's `$ref` and its items', and a parameter
schema's `$ref` (lines 136, 170-179); schemas that are composed or nested there, and
bodies, responses and parameters taken by `$ref` or from the path item, get no edge, and
a filter hides their schemas. `FilterKeepsRelated` speaks of the forms the code reads.

Met while reading and not yet a run of their own: `api-client-state.service.ts:19` (the source spec stays set for typed URLs),
`upload.component.ts:46` (a result that arrives after an edit is shown all the same),
`spec-to-graph.ts:32` (items of a schema that is itself an array are not
collected), `graph-canvas-force.component.ts:68` (links of opposite direction
get offsets that lay them on each other), `graph-legend.component.ts:15` (it gives
responses three colours and compositions that of schema references; the interactive
canvas draws every response in one and compositions in that of request bodies,
`edge-styles.ts:3`). Without a sentence that says
otherwise: `endpoint-detail.component.html:68,83` hand `navigateTo` a schema's
name where it looks for an id, so these buttons do nothing; and the row that
`request-history.component.html` highlights is found by an index that does not move
when entries are added; the ids of the structured canvas's markers hold a
`var(...)`, so that `url(#arrow-var(...))` is no valid reference and its links have no
arrowheads (`graph-canvas.component.ts:97-99,139-142`); the interactive canvas that
draws again shows the drawing at the identity while the svg keeps its transform
(`graph-canvas-force.component.ts:97`, which is why `TransformShown` is about the
structured one); a structured canvas that is drawn while the user pans, or within 150 ms
of the wheel, has its fit applied to the drawing it replaces, so that it is shown as laid
out and jumps with its next gesture (`graph-canvas.component.ts:266-269`, the exception in
`TransformShown`); a text typed for one endpoint's path parameter fills a placeholder of
the next that declares none of that name (`try-it-out.component.ts:98-101`); an array that
is off is sent after all once an item of it is changed by keyboard
(`schema-form.component.ts:126`); the Explorer sends for an unapproved tab when its button is
reached by keyboard, and the server refuses; a link of a schema to itself has no length in the interactive
layout, nor in the other once its node was dragged; a padded host is
accepted into an approval and then matches no URL (`handler.go:91`); and a tab whose
second approval succeeds still shows the error of the first (`spec-tab.ts:186`).

## 5. Only model-checked

`EveryCallEnds` and `Settles` are liveness properties and `SomeRequestProceeds` speaks of
`ENABLED`; both are beyond TLAPS, so TLC alone checks these three. Of `EveryCallEnds` the
half that needs no fairness is proved, as `CallsRunDown`: a call that takes steps runs
out of them. Every other property of section 3 is stated by a theorem of section 6. What section 4 shows are
counterexamples, for which an instance is enough.

## 6. Proofs

All theorems hold for every value of the constants, under the assumptions named
in the modules (`LimiterAssumption`, `KindAssumption`, `GateAssumption`, `ExecutorAssumption`,
`HostsParse`, `SpecTabsAssumption`, `SendsAssumption`, `ClientAssumption`,
`ProxyAssumption`, `UploadAssumption`, `ViewAssumption`, `ListAssumption`, `CanvasAssumption`, `FormAssumption`,
`TextAssumption`): the bounds are naturals, `None` is none of the values, hosts of
URLs have no white space, the lists of a document are sequences, a path is
a sequence of pieces, and the fields of an endpoint have names of their own, being the
keys of one object. `TextAssumption` says of strings what the provers do not know:
that placeholders of different names differ. TLC evaluates all of them.

- **LimiterProofs.** `TypeCorrect`, `WindowsBounded`, `LimiterImplementsRateLimit`.
  The invariant `IInv` is the type, `LastPast` (no bucket was used in the future)
  and `Ledger`, the bridge between bucket and history: no window that ends now has
  more room than the bucket has tokens (`RoomForLevel`), and unless the bucket is
  full one window has exactly that room (`LevelIsRoom`). The first half gives the
  bound, both together make each answer the one `RateLimit` gives.
- **SpecGateProofs.** `TypeCorrect`; `StoredHostsVouched` by `VouchInv`, which adds to
  `Vouched` that the lists on their way into the store are vouched for too, torn
  reads included (a torn list is part of one of the two); `UndisturbedRequestsJudged` by
  `JInv`: the store agrees with the last approval except while one is written
  (`RecordFits`), and what an undisturbed call found at its look-up still holds
  when it reads (`SnapshotFits`). Neither property is inductive alone: they speak
  of the two ends of a handler, the invariants of every place in between.
  `StaleIdsRefused`, by `IdsFit`: a stored id is of this run of the server, and an id
  that a request carries was issued, so that no upload is given it again.
  `ForwardsVouched`, by `GrantInv`: a record that is approved has an approval that
  granted it, and its list holds only hosts of the document or of such grants
  (`VouchedHosts`); the list a call reads is within that, torn or not, and `Granted` only
  grows while the server runs. `SummariesTellTruth`, by `SInv`: the record holds what
  the last approval put in force (`HostsFit`), and at each place of a handler nobody
  disturbed, what it has read so far is what its own request makes of the
  record (`ProgressFits`, `SummaryFits`); what an approval without a list takes is settled
  there only while the spec has no approval. They all rest on
  `Base`, the types and what a handler's place says of its request (`CallFits`).
- **SpecGateProofs, the composition.** `ProxyUsesGate` and `ProxyUsesParts`: every step of
  `Proxy` is a step or a stutter of each part. The first is what the rest stands on: it
  brings `Spec`, and with it the invariants above. tlapm cannot cite a theorem through a
  renaming `INSTANCE`, so what is needed of executor and limiter is proved here of
  `Proxy`'s own steps. `ContactsAreVouched`, by `CallInv`: a call that began was handed
  what its request asked for, and the gate's answer is the verdict on that list
  (`Handed`); a call beyond the limiter has a listed host, and its first request goes to
  it (`Progress`). What was listed then is vouched for still, since `Granted` only grows.
  `EveryCallTakesItsToken`, by `Tokens`: the equation, with finite sets, is inductive once
  `CallInv` says which step passes the limiter. `ServersReachedWithinRate` adds `RateInv`:
  a bucket's level and the tokens taken are within a burst and what the clock has
  earned (`Earned`).
- **ExecutorProofs.** `TypeCorrect`; `PrivateNeverContacted` by `Contacts`, which adds
  that no idle connection leads to a private address; `RedirectsEnd` by `Room`: a
  call that is about to connect has a request left; `BodiesShownWhole`;
  `EveryCallRunsDown`: each step of a call goes on to a place with fewer steps ahead, or
  back to one after a request (`MovesRunDown`), of which it has `MaxVia`, worth four steps
  each; `Room` and the types keep the number a natural;
  `ExecutorImplementsProxyCall`: every step is one of `ProxyCall`'s or a stutter, of
  the types (`Base`), of `Contacts` for the address of a request and of `Room` for
  their number.
- **SpecTabsProofs.** `TypeCorrect`, `TabsAndUrlAgree`, `LoadingEnds`,
  `ShownApprovalsGranted`, `ApprovalNotTakenBack`. The types need `ActiveTabShown` (a URL
  with a spec means a tab, which `Reload` counts on) and it needs them, so they go
  together. `LoadedBefore` says that a tab that shows its spec or waits for an
  approval has its answer to `load` behind it, and `ApprovalsApprove` that no approval is
  answered by an unapproved summary: from both, nothing that is still on its way
  can take an approval back. `AnswersGranted` extends `ShownWasGranted` to the store and to
  the answers on their way.
- **TryItOutProofs, the service.** `TypeCorrect`, `EntriesAlwaysPaired`, `HistoryOrdered`,
  `SelectionNeverDangles` (together inductive as `HistoryInv`) and `LoadingEnds`.
- **TryItOutProofs, the form.** `FormUsesService`: every step of the form is one of the
  service's or leaves it alone, so that the five theorems above hold of the form's run
  as well (`FormKeepsHistory`). `FormTypeCorrect`, by `FormBase`: the parameters
  (`ParamsFit`), the pane (`PaneFits`) and the schema form (`SchemaFits`): an array field shows
  as many inputs as it has items, a text field one, though `Show` keeps inputs by name.
  `BodyMatchesInputs`: `BodyAsShown` compares input and body of checked
  fields; inductive is only `BodyInv`, which adds that a closed form is untouched
  (`Untouched`), that the form's value is the body, that the body has fields of the
  endpoint only, and that an array's inputs are its items unless one was removed in front of
  others (`FieldAsShown`). `RequestsFit`: if `CanSend`, the fold over the typed
  parameters fills every placeholder of the operation with its own value. `FillRuns`
  turns the fold into a run of paths; along it (`FillAll`) the first placeholder of a
  name stays the first until the name's only entry with a text fills it, for what is
  put in is encoded and no placeholder (`PiecesDiffer`). That nothing else comes into
  the path is the other half of the fold (`FillsNoOther`), with `EntriesKnown`: what is
  filled in was typed for a parameter of an endpoint the pane has shown.
- **ApiClientProofs.** `TypeCorrect`, `OnlyApprovedSent`, `ClicksSendOnce`,
  `ClientUsesService`. `Base` is the types with `ServiceFits`, the requests the page
  remembers are those of the service, and `DialogAsks`, a dialog has a URL to send.
  `SentWhenApproved`, of the requests the API Client sends, is inductive with it. `OneSendPerClick` is not: `ClicksCover` counts with
  the requests sent the approvals awaited and the open dialog, each of which may send
  once more, and says that the clicks cover them all.
- **GraphCanvasProofs, the canvases.** `CanvasTypeCorrect`; `SelectionNeverDangles` and
  `CanvasShowsFiltered`, by `TabInv`, which adds that the canvas, though it may
  be behind the filters, shows nodes of the graph only, and the graph itself if that was
  its input (`ShownFits`). `SimulationsFollow`, by `SimInv`, which adds that simulations are
  numbered as they are made and that a canvas that shows nodes has its own, the
  interactive one only (`SimFits`). `TransformAlwaysShown`, by `ZoomInv`: a
  live transition or gesture has a drawing (`ZoomFits`), and on the structured canvas every
  transition is live, and every gesture too unless the fit was lost (`AtRoot`).
  `LinksStayAtNodes`, by
  `PictureInv`: a link still drawn along dagre's points has ends that nobody has dragged.
- **GraphCanvasProofs, the graph.** `FilteringKeepsRelated`, `LinksNeverCover`,
  `TagsWidenEachOther`, for every document. `ViewInv` says that the graph is `BuildSpecGraph`
  of the document; `BuiltOf` collects what that means, element by element
  (`GraphOf`): which nodes there are, and that an edge leads from an operation to
  each schema it names in a form the builder reads (`Promised`) and from a schema to each it refers to. Lists of lists are
  flattened by a fold of the community modules; `FlattenElements` says that the result
  has exactly their elements, by an induction in first-order form
  (`NatSetInduction`: a set of naturals that holds 0 and every successor holds all).
- **UploadProofs.** `TypeCorrect`, `ButtonComesBack`, `SummaryOfDraft`, `DemoOfDraft`.
  The invariant adds that no component has two uploads out and none comes from a
  component of later (`Started`), that an upload that is alone is of the draft and a
  demo that is alone is the highlighted one (`AloneFits`), and that no summary is
  relied on while a demo is awaited (`DemoUnfits`).

## 7. Not modelled

- The parser, the origin check and the generated code: pure functions or
  configuration, whose results the models take as any of the possible ones.
- `float64` rounding in the limiter's refill; titles, counts and times of specs;
  names and values of headers, beyond that they may be refused.
- What a torn slice header beyond the array's end reads (foreign memory).
- Retries of the HTTP transport on a connection the server closed, beyond a new
  dial; HTTP/2.
- Where dagre and d3-force put the nodes, sizes, colours, shapes, the legend and
  full screen; themes, sorting of lists.
- What a simulation computes in a step: each redraws all nodes, links and labels
  from the positions, so nothing a property tells apart depends on it.
- The content types of a body, and numbers and booleans in it: fields are set alike.
- In `Proxy`, restarts: they lose store, buckets and calls at once, and each part begins
  again as `ProxyInit` says; `gate` has them. Nor is the liveness of the whole stated:
  `SomeRequestProceeds` and `EveryCallEnds` cover its two halves.
- In `ApiClient`, a closed spec is not opened again; `SpecTabs` does that.
- In `GraphCanvas`, a second gesture of the same user within the first: another finger on
  the background, or the wheel while a button is held; d3-zoom makes one of both.
- In `SpecTabs`, a `load` whose answer comes and whose graph cannot be built:
  `buildSpecGraph` looks at nothing it has not tested to be an object, a list or a text,
  so that no document the parser stored makes it throw.
- A navigation inside the page is atomic: it resolves in microtasks, between
  which no click or answer is handled.

## 8. Plan

Done: `HostRules`, `RateLimit`, `Limiter`, `SpecGate`, `Executor`, `Proxy`, `SpecTabs`,
`ProxyCall`, `TryItOut`, `RequestForm`, `ApiClient`, `SpecView`, `GraphCanvas`, `Upload`, and
the eight proof modules, which state every property of the runs that TLAPS can. Next,
in order:

1. `ReqViz`: `SpecTabs` and `ApiClient` over the server, restarts included: what a
   stale page shows against what the server decides.
2. `Parser`: the conversion of YAML maps and the counting of endpoints, against a
   reference definition.
3. Runs for the sentences listed at the end of section 4.
4. Lemmas that more than one proof module states for itself (induction over sets of
   naturals, folds as runs) in a module they all extend.
