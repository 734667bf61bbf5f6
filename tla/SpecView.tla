------------------------------- MODULE SpecView -------------------------------
(***************************************************************************)
(* What a tab shows of a loaded spec: models/spec-to-graph.ts makes a graph *)
(* of the document, spec-tab.ts filters it and keeps the selected node, the *)
(* detail panes navigate along its edges, and the canvases draw its links.  *)
(*                                                                         *)
(* Texts are left out: `words' are the searches that find a node.  A ref is *)
(* the schema name that a local $ref ends in, and None for any other.  What *)
(* a document may refer to in other forms is in it as well: `others' are     *)
(* the schemas that the schema of a body, response or parameter composes or  *)
(* nests, `shared' those of the bodies, responses and parameters that an     *)
(* operation takes by a $ref or from its path.                               *)
(*                                                                         *)
(* What is filtered out of a list leaves the others at their places in it,   *)
(* so that a filtered list is a function on the places that are left;        *)
(* nothing here depends on where endpoints stand in it among the schemas.    *)
(***************************************************************************)
EXTENDS Integers, Sequences, FiniteSets, SequencesExt

CONSTANTS
    Documents,   \* the documents a tab may load: [schemas, operations] records
    Searches,    \* what may be typed into the search field
    Buttons,     \* the methods with a button in GraphToolbarComponent
    None         \* no ref, no search, no selection, no document

IsList(s) == s \in Seq(ToSet(s))

ASSUME ViewAssumption == None \notin Documents

(* What a document lists, it lists in order. *)
ASSUME ListAssumption ==
    \A doc \in Documents :
        /\ IsList(doc.schemas) /\ IsList(doc.operations)
        /\ \A s \in ToSet(doc.schemas) : IsList(s.properties) /\ IsList(s.parts)
        /\ \A o \in ToSet(doc.operations) :
              /\ IsList(o.body) /\ IsList(o.responses) /\ IsList(o.parameters)
              /\ \A r \in ToSet(o.responses) : IsList(r.content)

VARIABLES
    raw,         \* rawSpec
    graph,
    query,       \* searchQuery, lower-cased and trimmed, or None
    tags,        \* selectedTags
    methods,     \* selectedMethods
    selected     \* selectedNodeId

vars == <<raw, graph, query, tags, methods, selected>>

NoGraph == [nodes |-> <<>>, edges |-> <<>>]

Ids(nodes) == {n.id : n \in ToSet(nodes)}

Ends(link) == {link.source, link.target}
------------------------------------------------------------------------------
(* Slips the runs must notice, each a variant of a definition below. *)
EveryTag(node) == tags \subseteq node.tags
OfAnyNode(g, ids) == UNION {Ends(e) : e \in ToSet(g.edges)}
AnyId(id) == TRUE
OfSameKind(links, i) ==
    {j \in DOMAIN links : Ends(links[j]) = Ends(links[i]) /\ links[j].kind = links[i].kind}
------------------------------------------------------------------------------
(* The graph of a document. *)
HttpMethods == {"GET", "POST", "PUT", "PATCH", "DELETE", "HEAD", "OPTIONS"}

Schema(name) == <<"schema", name>>

Endpoint(op) == <<op.method, op.path>>

(* The edge for a ref, or none. *)
EdgeTo(ref, source, kind, label) ==
    IF ref = None THEN <<>>
    ELSE <<[source |-> source, target |-> Schema(ref), kind |-> kind, label |-> label]>>

(* What op yields for the elements of s, one after the other. *)
Collect(s, op(_)) == FlattenSeq([i \in DOMAIN s |-> op(s[i])])

CollectSchemaEdges(schema) ==
    LET id == Schema(schema.name)
        OfProperty(p) == IF p.ref # None THEN EdgeTo(p.ref, id, "property", p.label)
                                         ELSE EdgeTo(p.items, id, "arrayItem", p.label)
        OfPart(p) == EdgeTo(p.ref, id, "composition", p.keyword)
    IN  Collect(schema.properties, OfProperty) \o Collect(schema.parts, OfPart)

(* extractContentSchemaRefs: of an entry's schema, its $ref or its items'. *)
ContentRefs(media) ==
    [i \in DOMAIN media |-> IF media[i].ref # None THEN media[i].ref ELSE media[i].items]

CollectEndpointEdges(operation) ==
    LET id == Endpoint(operation)
        OfBody(ref) == EdgeTo(ref, id, "requestBody", None)
        OfResponse(r) == Collect(ContentRefs(r.content),
                                 LAMBDA ref : EdgeTo(ref, id, "response", r.status))
        OfParameter(p) == EdgeTo(p.ref, id, "parameter", p.label)
    IN  Collect(ContentRefs(operation.body), OfBody)
        \o Collect(operation.responses, OfResponse)
        \o Collect(operation.parameters, OfParameter)

(* Other keys of a path, and other methods, are no operations. *)
IsOperation(o) == o.method \in HttpMethods

BuildSpecGraph(doc) ==
    LET SchemaNode(s) == <<[id |-> Schema(s.name), words |-> s.words]>>
        EndpointNode(o) == IF IsOperation(o)
                           THEN <<[id |-> Endpoint(o), words |-> o.words,
                                   tags |-> o.tags, method |-> o.method]>>
                           ELSE <<>>
        EndpointEdges(o) == IF IsOperation(o) THEN CollectEndpointEdges(o) ELSE <<>>
    IN  [nodes |-> Collect(doc.schemas, SchemaNode) \o Collect(doc.operations, EndpointNode),
         edges |-> Collect(doc.schemas, CollectSchemaEdges)
                   \o Collect(doc.operations, EndpointEdges)]

IsSchema(node) == node.id[1] = "schema"

AllTags == UNION {n.tags : n \in {m \in ToSet(graph.nodes) : ~IsSchema(m)}}
------------------------------------------------------------------------------
(* SpecTab.filteredGraph. *)
HasFilters == query # None \/ tags # {} \/ methods # {}

WithTags(node) == tags # {} => tags \cap node.tags # {}

Found(node) == query # None /\ query \in node.words

KeptEndpoint(node) ==
    /\ ~IsSchema(node)
    /\ methods # {} => node.method \in methods
    /\ WithTags(node)
    /\ query # None => Found(node)

(* What the edges of g connect with one of the ids. *)
Connected(g, ids) == UNION {Ends(e) : e \in {f \in ToSet(g.edges) : Ends(f) \cap ids # {}}}

FilteredGraph(g) ==
    LET near == Connected(g, {n.id : n \in {m \in ToSet(g.nodes) : KeptEndpoint(m)}})
        Kept(n) == KeptEndpoint(n) \/ (IsSchema(n) /\ (n.id \in near \/ Found(n)))
        all == {n.id : n \in {m \in ToSet(g.nodes) : Kept(m)}}
    IN  IF HasFilters
        THEN [nodes |-> RestrictValues(g.nodes, Kept),
              edges |-> RestrictValues(g.edges, LAMBDA e : Ends(e) \subseteq all)]
        ELSE g

Drawn == FilteredGraph(graph)

(* initGraph: an edge is drawn if both its ends are. *)
LinksOf(g) == LET ids == Ids(g.nodes)
              IN  RestrictValues(g.edges, LAMBDA e : Ends(e) \subseteq ids)

Links == LinksOf(Drawn)

(* The links that curve apart from link i, itself one of them. *)
Parallel(links, i) == {j \in DOMAIN links : Ends(links[j]) = Ends(links[i])}

(* curveOffset, in units of 12.5. *)
CurveOffset(links, i) ==
    LET index == Cardinality({j \in Parallel(links, i) : j < i})
    IN  2 * index - (Cardinality(Parallel(links, i)) - 1)
------------------------------------------------------------------------------
(* `nodes[0]?.id ?? null'. *)
FirstNode(g) == IF 1 \in DOMAIN g.nodes THEN g.nodes[1].id ELSE None

(* navigateTo's look-up. *)
Declared(id) == id \in Ids(graph.nodes)

(* selectNode: a second click on a node drops the selection. *)
SelectNode(id) == selected' = IF selected = id THEN None ELSE id

filterVars == <<query, tags, methods>>

Init == /\ raw = None
        /\ graph = NoGraph
        /\ query = None
        /\ tags = {}
        /\ methods = {}
        /\ selected = None

(* SpecTab.load, once its answer is here. *)
Load ==
    /\ raw = None
    /\ raw' \in Documents
    /\ graph' = BuildSpecGraph(raw')
    /\ selected' = FirstNode(graph')
    /\ UNCHANGED filterVars

Search(q) ==
    /\ raw # None
    /\ query' = q
    /\ UNCHANGED <<raw, graph, tags, methods, selected>>

Toggled(set, x) == IF x \in set THEN set \ {x} ELSE set \cup {x}

ToggleTag(t) ==
    /\ tags' = Toggled(tags, t)
    /\ UNCHANGED <<raw, graph, query, methods, selected>>

ToggleMethod(m) ==
    /\ raw # None
    /\ methods' = Toggled(methods, m)
    /\ UNCHANGED <<raw, graph, query, tags, selected>>

ClearFilters ==
    /\ HasFilters
    /\ query' = None
    /\ tags' = {}
    /\ methods' = {}
    /\ UNCHANGED <<raw, graph, selected>>

Click(id) ==
    /\ SelectNode(id)
    /\ UNCHANGED <<raw, graph, filterVars>>

(* selectedNodeEdges. *)
Touched(id) == {e \in ToSet(graph.edges) : id \in Ends(e)}

(* connections of an endpoint. *)
Connections(id) == {IF e.target = id THEN e.source ELSE e.target : e \in Touched(id)}

(* A schema's pane links its properties' and parts' refs, and what uses it. *)
SchemaLinks(id) ==
    {e.target : e \in {f \in Touched(id) : f.source = id /\ f.kind # "arrayItem"}}
    \cup {e.source : e \in {f \in Touched(id) : f.target = id}}

(* The ids the links of the selected node's pane hand to navigateTo.  Those *)
(* of an endpoint's bodies and responses hand it a schema's name, which is no  *)
(* node's id: they do nothing.                                                 *)
Offered == IF selected = None THEN {}
           ELSE IF selected[1] = "schema" THEN SchemaLinks(selected) ELSE Connections(selected)

NavigateTo(id) ==
    /\ Declared(id)
    /\ SelectNode(id)
    /\ UNCHANGED <<raw, graph, filterVars>>

Filter == \/ \E q \in Searches \cup {None} : Search(q)
          \/ \E t \in AllTags : ToggleTag(t)
          \/ \E m \in Buttons : ToggleMethod(m)
          \/ ClearFilters
------------------------------------------------------------------------------
TypeOK == /\ raw = None \/ raw \in Documents
          /\ raw = None => graph = NoGraph
          /\ query \in Searches \cup {None}
          /\ tags \subseteq AllTags
          /\ methods \subseteq Buttons

(* The selected node is one of the graph, though refs may name schemas the *)
(* document does not declare.                                              *)
SelectionInGraph == selected # None => selected \in Ids(graph.nodes)

(* The schemas that the bodies and responses of an operation name in the two *)
(* forms extractContentSchemaRefs handles, and its parameters by $ref.       *)
Promised(operation) ==
    LET In(content) == {m.ref : m \in ToSet(content)}
                       \cup {m.items : m \in {n \in ToSet(content) : n.ref = None}}
    IN  (In(operation.body) \cup {p.ref : p \in ToSet(operation.parameters)}
         \cup UNION {In(r.content) : r \in ToSet(operation.responses)}) \ {None}

(* All that they refer to, in whatever form. *)
Mentioned(operation) ==
    LET OthersOf(list) == UNION {x.others : x \in ToSet(list)}
    IN  Promised(operation) \cup operation.shared
        \cup OthersOf(operation.body) \cup OthersOf(operation.parameters)
        \cup UNION {OthersOf(r.content) : r \in ToSet(operation.responses)}

DrawnOperations == LET drawn == Ids(Drawn.nodes)
                   IN  {o \in ToSet(raw.operations) : IsOperation(o) /\ Endpoint(o) \in drawn}

(* Every declared schema that Of(o) names is drawn with endpoint o, and a     *)
(* link to it.                                                               *)
KeepsSchemas(Of(_)) ==
    raw # None =>
        LET links == Links
        IN  \A o \in DrawnOperations : \A n \in Of(o) :
                Schema(n) \in Ids(graph.nodes) =>
                    \E i \in DOMAIN links : Ends(links[i]) = {Endpoint(o), Schema(n)}

EndpointsKeepSchemas == KeepsSchemas(Promised)

(* Not so of all they refer to, though collectEndpointEdges is to find the   *)
(* $ref targets in the body, responses and parameters: the code looks no     *)
(* deeper than extractContentSchemaRefs does.                                *)
NoReferenceLost == KeepsSchemas(Mentioned)

(* A schema is drawn under a filter that is no search only if an endpoint that *)
(* is drawn refers to it, in whatever form.                                    *)
SchemasRelated ==
    raw # None /\ HasFilters /\ query = None =>
        LET drawn == Ids(Drawn.nodes)
            mentioned == UNION {Mentioned(o) : o \in DrawnOperations}
        IN  \A s \in ToSet(raw.schemas) : Schema(s.name) \in drawn => s.name \in mentioned

(* Whatever is filtered, an endpoint that is drawn keeps the schemas its      *)
(* content names by $ref or as the items of an array, and its parameters by   *)
(* $ref; and filteredGraph brings no schema that has nothing to do with one.  *)
FilterKeepsRelated == EndpointsKeepSchemas /\ SchemasRelated

(* Links from one node to another do not cover each other. *)
ParallelLinksApart ==
    LET links == Links
        Same(i, j) == links[i].source = links[j].source /\ links[i].target = links[j].target
    IN  \A i, j \in DOMAIN links :
            i < j /\ Same(i, j) => CurveOffset(links, i) # CurveOffset(links, j)

(* Tags widen each other: one more of them never hides a node. *)
MoreTagsDrawMore ==
    [][tags # {} /\ tags # tags' /\ tags \subseteq tags' /\ UNCHANGED <<raw, query, methods>> =>
          Ids(Drawn.nodes) \subseteq Ids(Drawn.nodes)']_vars
==============================================================================
