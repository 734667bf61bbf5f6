------------------------------ MODULE RequestForm ------------------------------
(***************************************************************************)
(* try-it-out.component.ts with schema-form.component.ts: the form in the  *)
(* Try It Out pane, and the request it hands to the service (TryItOut).    *)
(*                                                                         *)
(* One component serves every endpoint the pane shows in turn, of every    *)
(* tab, until the pane closes: what was typed for one endpoint is there    *)
(* for the next.  The inputs of the parameters show the component's        *)
(* signals; those of the schema form are bound to nothing, so what they    *)
(* show (`shown') and what is sent (`body') are kept apart here.           *)
(*                                                                         *)
(* A field is a text, a nested object or an array; a number and a boolean  *)
(* are set like a text (updateValue), and what the form of a nested object *)
(* or of an array's item has is one text here, NoText before anything is   *)
(* typed there.  While a field is switched off, its input is disabled; the *)
(* forms within it only ignore the pointer (schema-form.component.html:41, *)
(* 45) and are still filled in from the keyboard.  The texts that may be   *)
(* typed into a parameter or a field are listed with it.                   *)
(***************************************************************************)
EXTENDS TryItOut, FiniteSetsExt, SequencesExt

CONSTANTS
    Endpoints,  \* what the pane may show: [server, path, parameters, fields] records
    Urls,       \* what may be typed over the URL
    None,       \* no endpoint, no URL typed
    MaxItems,   \* bound of the model: items of an array
    MaxTurns    \* bound of the model: inputs since the pane opened, and requests

ASSUME FormAssumption ==
    /\ None \notin Endpoints /\ None \notin Urls
    /\ \A e \in Endpoints :
          /\ e.path \in Seq([text : STRING, encoded : BOOLEAN])
          /\ \A p \in e.parameters : p.in \in {"path", "query", "header"} /\ p.texts \subseteq STRING
          /\ \A f \in e.fields : /\ f.array \in BOOLEAN /\ f.nested \in BOOLEAN
                                /\ ~(f.array /\ f.nested)
                                /\ f.texts \subseteq STRING
          /\ \A f, g \in e.fields : f.name = g.name => f = g

VARIABLES
    endpoint,        \* the endpoint shown, or None while the pane is closed
    pathParams,      \* <<[name, value], ...>>: a record's entries are ordered
    params,          \* queryParams and headerParams: location -> name -> text
    enabled,         \* enabledParameters, by name
    urlOverride,
    body,
    value,           \* the schema form's value, ...
    arrayValues,     \* ... the items it holds for each array, ...
    enabledFields,
    shown,           \* ... and what its inputs show
    served,          \* history: the endpoints shown since the pane opened
    unsent,          \* history: fields changed without a word to the parent
    shifted,         \* history: arrays that lost an item before others
    edits            \* inputs since the pane opened

paramVars == <<pathParams, params, enabled, urlOverride>>
schemaVars == <<value, arrayValues, enabledFields, shown, unsent, shifted>>
formVars == <<endpoint, paramVars, body, schemaVars, served, edits>>
vars == <<tryVars, formVars>>

NoText == ""

Names == UNION {{p.name : p \in e.parameters} : e \in Endpoints}
Fields == UNION {e.fields : e \in Endpoints}
FieldNames == {f.name : f \in Fields}
Arrays == {f.name : f \in {g \in Fields : g.array}}
ArraysOf(e) == {f.name : f \in {g \in e.fields : g.array}}
------------------------------------------------------------------------------
(* Slips the runs must notice, each a variant of a definition below. *)
Unencoded(text) == [text |-> text, encoded |-> FALSE]
KeepsValue(f) == UNCHANGED <<value, body>>
------------------------------------------------------------------------------
(* The operation of the endpoint shown. *)
In(location) == {p \in endpoint.parameters : p.in = location}

(* A path parameter is required unless it says it is not. *)
PathRequired(p) == p.required # "no"

Required(p) == p.required = "yes"

Put(f, x, y) == [z \in DOMAIN f \cup {x} |-> IF z = x THEN y ELSE f[z]]

PathEntries(name) == {i \in DOMAIN pathParams : pathParams[i].name = name}

(* pathParams()[name], or nothing. *)
PathValue(name) == IF PathEntries(name) = {} THEN NoText
                   ELSE pathParams[CHOOSE i \in PathEntries(name) : TRUE].value

CanSend ==
    /\ ~loading
    /\ \A p \in In("path") : PathRequired(p) => PathValue(p.name) # NoText
    /\ \A p \in In("query") \cup In("header") : Required(p) => params[p.in][p.name] # NoText

(* A path is a sequence of pieces: text of the document, in which a name in  *)
(* braces is a placeholder, and text that encodeURIComponent has been over.  *)
Placeholder(name) == [text |-> "{" \o name \o "}", encoded |-> FALSE]

Encoded(text) == [text |-> text, encoded |-> TRUE]

(* What the provers do not know of strings. *)
ASSUME TextAssumption ==
    /\ NoText \in STRING
    /\ \A m, n \in Names : Placeholder(m) = Placeholder(n) => m = n

(* path.replace, of the first occurrence. *)
Filled(path, entry) ==
    LET places == {i \in DOMAIN path : path[i] = Placeholder(entry.name)}
    IN  IF entry.value = NoText \/ places = {} THEN path
        ELSE [path EXCEPT ![Min(places)] = Encoded(entry.value)]

Path == FoldLeft(Filled, endpoint.path, pathParams)

(* The parameters that go out, required or switched on, and not empty. *)
Given(location) ==
    LET text(p) == params[location][p.name]
    IN  {[name |-> p.name, value |-> text(p)] :
            p \in {r \in In(location) : /\ Required(r) \/ r.name \in enabled
                                        /\ text(r) # NoText}}

Url == IF urlOverride # None THEN [typed |-> urlOverride]
       ELSE [server |-> endpoint.server, path |-> Path, query |-> Given("query")]

(* What sendRequest hands to the service, whatever the method. *)
Request == [endpoint |-> endpoint, url |-> Url,
            headers |-> Given("header"), body |-> body]
------------------------------------------------------------------------------
NoTexts == [loc \in {"query", "header"} |-> [n \in Names |-> NoText]]

NoItems == [n \in Arrays |-> <<>>]

NoInputs == [n \in FieldNames |-> NoText]

FormInit ==
    /\ Init
    /\ endpoint = None /\ served = {} /\ edits = 0
    /\ pathParams = <<>>
    /\ params = NoTexts
    /\ enabled = {}
    /\ urlOverride = None
    /\ body = <<>> /\ value = <<>>
    /\ arrayValues = NoItems
    /\ enabledFields = {}
    /\ shown = NoInputs
    /\ unsent = {} /\ shifted = {}

FreshSchemaForm ==
    /\ value' = <<>>
    /\ arrayValues' = NoItems
    /\ enabledFields' = {}
    /\ unsent' = {} /\ shifted' = {}

(* The inputs of fields that were not on the page: as many as the form holds *)
(* items, and nothing in them.                                               *)
NewInputs(e) ==
    [n \in FieldNames |-> IF n \in ArraysOf(e) THEN [i \in DOMAIN arrayValues[n] |-> NoText]
                                               ELSE NoText]

(* The pane opens: on Try It Out, for the endpoint selected. *)
Open(e) ==
    /\ endpoint = None
    /\ endpoint' = e
    /\ served' = {e}
    /\ shown' = NewInputs(e)
    /\ UNCHANGED <<tryVars, paramVars, body, value, arrayValues, enabledFields, unsent,
                   shifted, edits>>

(* It closes, and the component is destroyed: Details is shown, or a schema, *)
(* or no node, or another page.                                              *)
Close ==
    /\ endpoint # None
    /\ endpoint' = None /\ served' = {} /\ edits' = 0
    /\ pathParams' = <<>>
    /\ params' = NoTexts
    /\ enabled' = {}
    /\ urlOverride' = None
    /\ body' = <<>>
    /\ FreshSchemaForm
    /\ shown' = NoInputs
    /\ UNCHANGED tryVars

(* What the input of field n shows once e is: a field of the same name and   *)
(* kind keeps its input, any other gets a new one.                           *)
Kept(e) == {f.name : f \in {g \in e.fields : \E h \in endpoint.fields :
                                h.name = g.name /\ h.array = g.array
                                /\ h.nested = g.nested}}

HasSchema(e) == e.fields # {}

(* Another endpoint is selected, in this tab or another.  The schema form    *)
(* stays while there is a body to fill in, with its value.                   *)
Show(e) ==
    /\ endpoint # None
    /\ e # endpoint
    /\ endpoint' = e
    /\ served' = served \cup {e}
    /\ IF ~HasSchema(e) \/ ~HasSchema(endpoint)
       THEN FreshSchemaForm /\ shown' = NewInputs(e)'
       ELSE /\ shown' = [n \in FieldNames |-> IF n \in Kept(e) THEN shown[n] ELSE NewInputs(e)[n]]
            /\ UNCHANGED <<value, arrayValues, enabledFields, unsent, shifted>>
    /\ UNCHANGED <<tryVars, paramVars, body, edits>>
------------------------------------------------------------------------------
Edit == endpoint # None /\ edits' = edits + 1 /\ UNCHANGED <<tryVars, endpoint, served>>

EditParams == Edit /\ UNCHANGED <<body, schemaVars>>

TypeUrl(u) ==
    /\ EditParams
    /\ urlOverride' = u
    /\ UNCHANGED <<pathParams, params, enabled>>

(* A name that is there keeps its place among the record's entries. *)
UpdatePathParam(p, t) ==
    LET entry == [name |-> p.name, value |-> t]
    IN  /\ EditParams
        /\ p \in In("path")
        /\ pathParams' = IF PathEntries(p.name) = {} THEN Append(pathParams, entry)
                         ELSE [i \in DOMAIN pathParams |->
                                  IF i \in PathEntries(p.name) THEN entry ELSE pathParams[i]]
        /\ UNCHANGED <<params, enabled, urlOverride>>

(* The input is disabled while its parameter is off. *)
Usable(p) == Required(p) \/ p.name \in enabled

(* updateQueryParam and updateHeaderParam. *)
UpdateParam(p, t) ==
    /\ EditParams
    /\ p.in # "path" /\ Usable(p)
    /\ params' = [params EXCEPT ![p.in][p.name] = t]
    /\ enabled' = IF t = NoText THEN enabled ELSE enabled \cup {p.name}
    /\ UNCHANGED <<pathParams, urlOverride>>

(* A query and a header parameter of one name share the switch. *)
ToggleParameter(p) ==
    /\ EditParams
    /\ p.in # "path" /\ ~Required(p)
    /\ enabled' = SymDiff(enabled, {p.name})
    /\ UNCHANGED <<pathParams, params, urlOverride>>
------------------------------------------------------------------------------
Checked(f) == f.required \/ f.name \in enabledFields

EditField(f) == Edit /\ f \in endpoint.fields /\ UNCHANGED paramVars

EditArray(f) == EditField(f) /\ f.array /\ Checked(f) /\ UNCHANGED enabledFields

(* The form's value changes, and (valueChange) tells the component. *)
Emit(v) == value' = v /\ body' = v

(* updateValue and updateNested: the field is on after it. *)
UpdateValue(f, t) ==
    /\ EditField(f)
    /\ ~f.array /\ (Checked(f) \/ f.nested)
    /\ enabledFields' = IF f.required THEN enabledFields ELSE enabledFields \cup {f.name}
    /\ shown' = [shown EXCEPT ![f.name] = t]
    /\ Emit(Put(value, f.name, t))
    /\ unsent' = unsent \ {f.name}
    /\ UNCHANGED <<arrayValues, shifted>>

(* Switched off, a field leaves the value, not its input. *)
DropValue(f) == Emit(Restrict(value, DOMAIN value \ {f.name}))

ToggleField(f) ==
    /\ EditField(f)
    /\ ~f.required
    /\ enabledFields' = SymDiff(enabledFields, {f.name})
    /\ IF Checked(f) THEN DropValue(f) /\ unsent' = unsent \cup {f.name}
                     ELSE UNCHANGED <<value, body, unsent>>
    /\ UNCHANGED <<arrayValues, shown, shifted>>

(* Items come and go in the form's arrays, not in its value. *)
AddArrayItem(f) ==
    /\ EditArray(f)
    /\ Len(arrayValues[f.name]) < MaxItems
    /\ arrayValues' = [arrayValues EXCEPT ![f.name] = Append(@, NoText)]
    /\ shown' = [shown EXCEPT ![f.name] = Append(@, NoText)]
    /\ unsent' = unsent \cup {f.name}
    /\ UNCHANGED <<body, value, shifted>>

(* The items' forms are tracked by index, so the last one goes. *)
RemoveArrayItem(f, i) ==
    /\ EditArray(f)
    /\ i \in DOMAIN arrayValues[f.name]
    /\ arrayValues' = [arrayValues EXCEPT ![f.name] = RemoveAt(@, i)]
    /\ shown' = [shown EXCEPT ![f.name] = Front(@)]
    /\ unsent' = unsent \cup {f.name}
    /\ shifted' = IF i < Len(arrayValues[f.name]) THEN shifted \cup {f.name} ELSE shifted
    /\ UNCHANGED <<body, value>>

(* The field may be off, and stays off. *)
UpdateArrayItem(f, i, t) ==
    /\ EditField(f) /\ f.array
    /\ i \in DOMAIN arrayValues[f.name]
    /\ arrayValues' = [arrayValues EXCEPT ![f.name][i] = t]
    /\ shown' = [shown EXCEPT ![f.name][i] = t]
    /\ Emit(Put(value, f.name, arrayValues'[f.name]))
    /\ unsent' = unsent \ {f.name}
    /\ UNCHANGED <<enabledFields, shifted>>
------------------------------------------------------------------------------
(* A click on Send. *)
SendForm ==
    /\ endpoint # None
    /\ CanSend
    /\ Send
    /\ UNCHANGED formVars

(* The service's own steps, and its other callers. *)
Elsewhere == Next /\ UNCHANGED formVars

(* The more requests there were, the fewer inputs. *)
Bounded == edits' + 2 * sent' <= MaxTurns

FormStep ==
    \/ \E e \in Endpoints : Open(e) \/ Show(e)
    \/ Close
    \/ \E u \in Urls : TypeUrl(u)
    \/ endpoint # None /\ \E p \in endpoint.parameters :
          \/ ToggleParameter(p)
          \/ \E t \in p.texts \cup {NoText} :
                UpdatePathParam(p, t) \/ UpdateParam(p, t)
    \/ endpoint # None /\ \E f \in endpoint.fields :
          \/ ToggleField(f)
          \/ AddArrayItem(f)
          \/ \E i \in 1..MaxItems : RemoveArrayItem(f, i)
          \/ \E t \in f.texts : UpdateValue(f, t) \/ \E i \in 1..MaxItems : UpdateArrayItem(f, i, t)
    \/ SendForm
    \/ Elsewhere

FormNext == FormStep /\ Bounded

FormSpec == FormInit /\ [][FormNext]_vars
------------------------------------------------------------------------------
Entries == [name : Names, value : STRING]

FormTypeOK ==
    /\ TypeOK
    /\ endpoint \in Endpoints \cup {None}
    /\ pathParams \in Seq(Entries)
    /\ \A i, j \in DOMAIN pathParams : pathParams[i].name = pathParams[j].name => i = j
    /\ params \in [{"query", "header"} -> [Names -> STRING]]
    /\ enabled \subseteq Names
    /\ urlOverride \in Urls \cup {None}
    /\ \A v \in {body, value} : DOMAIN v \subseteq FieldNames
    /\ arrayValues \in [Arrays -> Seq(STRING)]
    /\ enabledFields \subseteq FieldNames
    /\ DOMAIN shown = FieldNames
    /\ endpoint # None =>
          \A f \in endpoint.fields :
             IF f.array THEN /\ shown[f.name] \in Seq(STRING)
                             /\ Len(shown[f.name]) = Len(arrayValues[f.name])
                        ELSE shown[f.name] \in STRING
    /\ served \subseteq Endpoints /\ (endpoint = None <=> served = {})
    /\ unsent \cup shifted \subseteq FieldNames

First(piece, path, i) == path[i] = piece /\ \A j \in DOMAIN path : path[j] = piece => i <= j

(* While Send is enabled and nobody typed over the URL, the request has what *)
(* the operation requires, each value in the place of its own placeholder    *)
(* (the first, as OpenAPI has a path contain each of them once),             *)
(* though the values were typed in any order, for this endpoint or one       *)
(* before, and may look like placeholders.                                   *)
ReadyIsComplete ==
    endpoint # None /\ CanSend /\ urlOverride = None =>
        /\ DOMAIN Path = DOMAIN endpoint.path
        /\ \A p \in In("path"), i \in DOMAIN endpoint.path :
              PathRequired(p) /\ First(Placeholder(p.name), endpoint.path, i) =>
                 PathValue(p.name) # NoText /\ Path[i] = Encoded(PathValue(p.name))
        /\ \A p \in In("query") : Required(p) => p.name \in {g.name : g \in Request.url.query}
        /\ \A p \in In("header") : Required(p) => p.name \in {g.name : g \in Request.headers}

Declares(e, n) == \E p \in e.parameters : p.in = "path" /\ p.name = n

(* What the path has been filled with, each text in the place of its name: it *)
(* was typed for a parameter of this operation.  Excepted is a placeholder    *)
(* that the operation does not declare (its path item may), for which the     *)
(* pane has no input: whatever was typed for an earlier endpoint's parameter  *)
(* of the name goes out there.                                                *)
PathIsOwn ==
    \A i \in DOMAIN endpoint.path :
        Path[i] # endpoint.path[i] =>
            \E n \in Names :
                /\ endpoint.path[i] = Placeholder(n) /\ Path[i] = Encoded(PathValue(n))
                /\ Declares(endpoint, n) \/ \E e \in served \ {endpoint} : Declares(e, n)

(* In the query and the headers no parameter of an endpoint shown before goes *)
(* out with this one's request, nor one that is switched off here, by its own *)
(* box or by its namesake's; in the path, only where this one has a           *)
(* placeholder it does not declare.                                           *)
OnlyItsOwn ==
    endpoint # None =>
        /\ \A location \in {"query", "header"} : \A g \in Given(location) :
              \E p \in In(location) : p.name = g.name /\ Usable(p)
        /\ PathIsOwn

(* One form serves all endpoints in turn, and yet a request has all that its  *)
(* own operation requires, each in its place, and of another's nothing but a  *)
(* text for a placeholder that is not declared.                               *)
RequestFits == ReadyIsComplete /\ OnlyItsOwn

(* What the schema form shows of a field, unless it is empty, is what is sent. *)
Sent(n) == IF n \in DOMAIN body THEN body[n] ELSE NewInputs(endpoint)[n]

(* As long as the pane has shown one endpoint only, the body has the fields  *)
(* that are switched on, with what their inputs show.  Excepted is what the  *)
(* form keeps to itself: a field that was switched off and on again, or got  *)
(* or lost an item, until its next input; and an array that lost an item     *)
(* before others, whose forms no longer show the items that they change.     *)
(* Of the fields that are off the body has none but an array, one of whose   *)
(* items was changed since, from the keyboard.                               *)
BodyAsShown ==
    endpoint # None /\ served = {endpoint} =>
        /\ DOMAIN body \subseteq {f.name : f \in endpoint.fields}
        /\ \A f \in endpoint.fields :
              /\ f.name \notin unsent \cup shifted => Sent(f.name) = shown[f.name]
              /\ ~Checked(f) /\ f.name \in DOMAIN body => f.array /\ f.name \notin unsent
==============================================================================
