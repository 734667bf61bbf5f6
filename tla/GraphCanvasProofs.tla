-------------------------- MODULE GraphCanvasProofs --------------------------
(***************************************************************************)
(* Theorems about GraphCanvas, and with it SpecView, for any documents,    *)
(* searches and buttons, and however much the user does.                   *)
(***************************************************************************)
EXTENDS GraphCanvas, SequenceTheorems, FiniteSetTheorems, WellFoundedInduction, TLAPS

canvasSpecVars == <<vars, canvasVars, turns>>

(* The steps of the tab, and of the canvas it is drawn on. *)
TabStep == Opened \/ Filtered \/ (\E kind \in Layouts : SetLayout(kind))
           \/ (\E id \in Ids(canvas.graph.nodes) : ClickDrawn(id))
           \/ (\E id \in Offered : Navigate(id))

DragStep == \/ \E id \in Ids(canvas.graph.nodes) : DragStart(id)
            \/ \E hold \in held : DragEnd(hold)
            \/ \E sim \in ticking : Settle(sim)

GestureStep == Grab \/ Wheel \/ Pan \/ Release

GlideStep == OnZoomIn \/ OnZoomOut \/ OnResetZoom \/ GlideStart \/ GlideEnd

LEMMA StepKinds ==
    ASSUME CanvasNext
    PROVE  \/ TabStep \/ Render \/ DragStep \/ GestureStep \/ GlideStep
           \/ \E id \in Ids(canvas.graph.nodes) : Drag(id)
BY DEF CanvasNext, TabStep, DragStep, GestureStep, GlideStep

(* Panning and zooming are of the transforms only. *)
LEMMA ZoomStepKeeps ==
    ASSUME GestureStep \/ GlideStep
    PROVE  ZoomStep
BY DEF GestureStep, GlideStep, Grab, Wheel, Pan, Release, OnZoomIn, OnZoomOut, OnResetZoom, Zoom,
       GlideStart, GlideEnd
------------------------------------------------------------------------------
(* What filtering leaves is part of the graph. *)

LEMMA DrawnWithin == Ids(Drawn.nodes) \subseteq Ids(graph.nodes)
<1>1. CASE HasFilters
  <2>1. /\ DOMAIN Drawn.nodes \subseteq DOMAIN graph.nodes
        /\ \A x \in DOMAIN Drawn.nodes : Drawn.nodes[x] = graph.nodes[x]
    BY <1>1 DEF Drawn, FilteredGraph, RestrictValues, Restrict
  <2> QED BY <2>1 DEF Ids, ToSet
<1>2. CASE ~HasFilters
  BY <1>2 DEF Drawn, FilteredGraph
<1> QED BY <1>1, <1>2

(* Only nodes that are drawn are linked. *)
LEMMA LinkEnds ==
    ASSUME NEW g, NEW i \in DOMAIN LinksOf(g)
    PROVE  LinksOf(g)[i].source \in Ids(g.nodes) /\ LinksOf(g)[i].target \in Ids(g.nodes)
BY DEF LinksOf, RestrictValues, Restrict, Ends
------------------------------------------------------------------------------
(* The tab, and the canvas it is shown on. *)

(* Without a document there is nothing to filter or draw; the canvas, which  *)
(* may still show what was filtered before, shows nodes of the graph only,   *)
(* and, if it was given the graph itself, all of it.                         *)
ShownFits ==
    /\ raw = None => canvas = NoCanvas /\ ~due /\ ~HasFilters
    /\ Ids(canvas.graph.nodes) \subseteq Ids(graph.nodes)
    /\ canvas.whole => canvas.graph = graph

TabInv == TypeOK /\ SelectionInGraph /\ ShownFits /\ ShowsFiltered

LEMMA NothingDrawn == Ids(NoGraph.nodes) = {} /\ NoCanvas.graph = NoGraph /\ ~NoCanvas.whole
BY DEF NoGraph, NoCanvas, Ids, ToSet

LEMMA TabInit == CanvasInit => TabInv
<1> SUFFICES ASSUME CanvasInit PROVE TabInv
  OBVIOUS
<1>1. TypeOK /\ SelectionInGraph
  BY DEF CanvasInit, Init, TypeOK, SelectionInGraph
<1>2. ShownFits /\ ShowsFiltered
  BY NothingDrawn DEF CanvasInit, Init, ShownFits, ShowsFiltered, HasFilters
<1> QED BY <1>1, <1>2 DEF TabInv

LEMMA TabOpened == ASSUME TabInv, Opened PROVE TabInv'
<1>1. /\ raw = None /\ raw' \in Documents
      /\ selected' = FirstNode(graph')
      /\ UNCHANGED <<query, tags, methods, canvas>> /\ due'
  BY DEF Opened, Load, filterVars
<1>2. canvas = NoCanvas /\ tags = {}
  <2>1. graph = NoGraph
    BY <1>1 DEF TabInv, TypeOK
  <2>2. AllTags = {}
    BY <2>1 DEF AllTags, NoGraph, ToSet
  <2> QED BY <1>1, <2>2 DEF TabInv, TypeOK, ShownFits
<1>3. TypeOK'
  BY <1>1, <1>2, ViewAssumption DEF TabInv, TypeOK
<1>4. SelectionInGraph'
  BY <1>1 DEF FirstNode, SelectionInGraph, Ids, ToSet
<1>5. ShownFits' /\ ShowsFiltered'
  BY <1>1, <1>2, NothingDrawn, ViewAssumption DEF ShownFits, ShowsFiltered
<1> QED BY <1>3, <1>4, <1>5 DEF TabInv

(* Whatever else the user does leaves the graph and the canvas as they are. *)
LEMMA TabKept ==
    ASSUME TabInv, UNCHANGED <<raw, graph, canvas>>,
           \/ due'
           \/ UNCHANGED <<due, query, tags, methods, layout>>,
           query' \in Searches \cup {None}, tags' \subseteq AllTags, methods' \subseteq Buttons,
           selected' # None => selected' \in Ids(graph.nodes),
           raw = None => ~due' /\ ~HasFilters'
    PROVE  TabInv'
<1>1. AllTags' = AllTags
  BY DEF AllTags
<1>2. TypeOK' /\ SelectionInGraph'
  BY <1>1 DEF TabInv, TypeOK, SelectionInGraph
<1>3. ShownFits'
  BY DEF TabInv, ShownFits
<1>4. CASE UNCHANGED <<due, query, tags, methods, layout>>
  <2>1. Drawn' = Drawn
    BY <1>4 DEF Drawn, FilteredGraph, HasFilters, KeptEndpoint, WithTags, Found,
                   RestrictValues, Restrict
  <2> QED BY <1>2, <1>3, <1>4, <2>1 DEF TabInv, ShowsFiltered
<1>5. CASE due'
  BY <1>2, <1>3, <1>5 DEF TabInv, ShowsFiltered
<1> QED BY <1>4, <1>5

LEMMA TabStepFits == ASSUME TabInv, TabStep PROVE TabInv'
<1> USE DEF TabInv
<1>1. CASE Opened
  BY <1>1, TabOpened
<1>2. CASE Filtered
  <2>1. /\ UNCHANGED <<raw, graph, canvas, selected>> /\ due'
        /\ query' \in Searches \cup {None}
        /\ tags' \subseteq AllTags
        /\ methods' \subseteq Buttons
    BY <1>2 DEF Filtered, Filter, Search, ToggleTag, ToggleMethod, ClearFilters, Toggled, TypeOK
  <2>2. raw # None
    <3>1. CASE \E t \in AllTags : ToggleTag(t)
      BY <3>1 DEF TypeOK, AllTags, NoGraph, ToSet
    <3>2. CASE ClearFilters
      BY <3>2 DEF ClearFilters, ShownFits
    <3> QED BY <1>2, <3>1, <3>2 DEF Filtered, Filter, Search, ToggleMethod
  <2> QED BY <2>1, <2>2, TabKept DEF SelectionInGraph
<1>3. ASSUME NEW kind \in Layouts, SetLayout(kind) PROVE TabInv'
  <2>1. UNCHANGED <<vars, canvas>> /\ due' /\ raw # None
    BY <1>3 DEF SetLayout
  <2> QED BY <2>1, TabKept DEF vars, TypeOK, SelectionInGraph
<1>4. ASSUME NEW id \in Ids(canvas.graph.nodes), ClickDrawn(id) PROVE TabInv'
  <2>1. /\ selected' = IF selected = id THEN None ELSE id
        /\ UNCHANGED <<raw, graph, query, tags, methods, canvas, due, layout>>
    BY <1>4 DEF ClickDrawn, Click, SelectNode, filterVars, canvasVars
  <2>2. id \in Ids(graph.nodes)
    BY <1>4 DEF ShownFits
  <2> QED BY <2>1, <2>2, TabKept DEF TypeOK, ShownFits, HasFilters
<1>5. ASSUME NEW id \in Offered, Navigate(id) PROVE TabInv'
  <2>1. /\ selected' = IF selected = id THEN None ELSE id
        /\ id \in Ids(graph.nodes)
        /\ UNCHANGED <<raw, graph, query, tags, methods, canvas, due, layout>>
    BY <1>5 DEF Navigate, NavigateTo, Declared, SelectNode, filterVars, canvasVars
  <2> QED BY <2>1, TabKept DEF TypeOK, ShownFits, HasFilters
<1> QED BY <1>1, <1>2, <1>3, <1>4, <1>5 DEF TabStep

(* A page that is drawn. *)
LEMMA Redraws ==
    ASSUME Render
    PROVE  /\ UNCHANGED <<vars, layout, warm, held>> /\ ~due'
           /\ \/ canvas.kind # layout /\ Draw(Drawn, NoZoom, 0) /\ born' = made
              \/ canvas.kind = layout /\ ~SameInput(canvas) /\ Draw(Drawn, zoom, own) /\ born' = born
              \/ canvas.kind = layout /\ SameInput(canvas) /\ UNCHANGED <<canvas, drawingVars>>
BY DEF Render

LEMMA TabRender == ASSUME TabInv, Render PROVE TabInv'
<1>1. UNCHANGED <<vars, layout>> /\ due
  BY Redraws DEF Render
<1>2. Drawn' = Drawn /\ (HasFilters' <=> HasFilters)
  BY <1>1 DEF vars, Drawn, FilteredGraph, HasFilters, KeptEndpoint, WithTags, Found,
              RestrictValues, Restrict
<1>3. TypeOK' /\ SelectionInGraph' /\ raw # None
  BY <1>1 DEF vars, TabInv, TypeOK, SelectionInGraph, ShownFits, AllTags
<1>4. ~HasFilters => Drawn = graph
  BY DEF Drawn, FilteredGraph
<1>5. CASE canvas' = [kind |-> layout, graph |-> Drawn, whole |-> ~HasFilters]
  <2>1. canvas'.graph = Drawn /\ canvas'.kind = layout /\ (canvas'.whole => ~HasFilters)
    BY <1>5
  <2> QED BY <1>1, <1>2, <1>3, <1>4, <2>1, DrawnWithin
          DEF vars, TabInv, ShownFits, ShowsFiltered
<1>6. CASE canvas.kind = layout /\ SameInput(canvas) /\ canvas' = canvas
  <2>1. canvas.graph = graph /\ Drawn = graph
    BY <1>4, <1>6 DEF SameInput, TabInv, ShownFits
  <2> QED BY <1>1, <1>2, <1>3, <1>6, <2>1 DEF vars, TabInv, ShownFits, ShowsFiltered
<1> QED BY <1>5, <1>6, Redraws DEF Draw

LEMMA TabNext ==
    TabInv /\ [CanvasNext]_canvasSpecVars => TabInv'
<1> SUFFICES ASSUME TabInv, [CanvasNext]_canvasSpecVars PROVE TabInv'
  OBVIOUS
<1>1. CASE UNCHANGED <<vars, layout, canvas, due>>
  BY <1>1, TabKept DEF vars, TabInv, TypeOK, SelectionInGraph, ShownFits, HasFilters
<1>2. CASE DragStep \/ GestureStep \/ GlideStep \/ \E id \in Ids(canvas.graph.nodes) : Drag(id)
  BY <1>1, <1>2, ZoomStepKeeps DEF DragStep, DragStart, DragEnd, Settle, ZoomStep, Drag
<1>3. CASE UNCHANGED canvasSpecVars
  BY <1>1, <1>3 DEF canvasSpecVars, canvasVars
<1> QED BY <1>2, <1>3, StepKinds, TabStepFits, TabRender

LEMMA TabAlways == CanvasSpec => []TabInv
BY TabInit, TabNext, PTL DEF CanvasSpec, canvasSpecVars

(* However clicks, filters and links of the panes follow each other, and      *)
(* though the canvas may still show nodes of an earlier filter, the selected  *)
(* node is one of the document's.                                             *)
THEOREM SelectionNeverDangles == CanvasSpec => []SelectionInGraph
<1>1. TabInv => SelectionInGraph
  BY DEF TabInv
<1> QED BY <1>1, TabAlways, PTL

(* Once the page is drawn, the canvas is the chosen layout's and shows what   *)
(* the filters leave, also when it was not given the graph because it has it. *)
THEOREM CanvasShowsFiltered == CanvasSpec => []ShowsFiltered
<1>1. TabInv => ShowsFiltered
  BY DEF TabInv
<1> QED BY <1>1, TabAlways, PTL
------------------------------------------------------------------------------
(* The simulations of the interactive canvas. *)

SimFits ==
    /\ made \in Nat /\ born \in 0..made /\ own \in 0..made
    /\ ticking \cup warm \subseteq 1..made
    /\ \A h \in held : h.sim \in 1..made
    /\ canvas.kind = "structured" => own = 0
    /\ canvas.kind = "interactive" /\ canvas.graph.nodes # <<>> => own # 0

SimInv == SimFits /\ SimulationFollows

LEMMA SimInit == CanvasInit => SimInv
BY CanvasAssumption
   DEF CanvasInit, SimInv, SimFits, SimulationFollows, OneSimulation, WarmWhileHeld, Active,
       NoCanvas, Layouts

LEMMA SimKept == ASSUME SimInv, UNCHANGED <<canvas, simVars>> PROVE SimInv'
BY DEF SimInv, SimFits, SimulationFollows, OneSimulation, WarmWhileHeld, Active, simVars

(* A drawing makes a simulation of its own that nobody holds, or none. *)
LEMMA SimDraw ==
    ASSUME SimInv, layout \in Layouts, NEW g, NEW z, NEW mine, Draw(g, z, mine),
           UNCHANGED <<warm, held>>,
           \/ born' = made
           \/ born' = born /\ mine = own /\ canvas.kind = layout
    PROVE  SimInv'
<1> USE DEF SimInv
<1>1. \A sim : Active(sim)' = Active(sim)
  BY DEF Active
<1>2. \A sim \in warm : Active(sim)' # {}
  BY <1>1 DEF SimulationFollows, WarmWhileHeld
<1>3. Active(0) = {} /\ Active(made + 1) = {}
  BY DEF Active, SimFits
<1>4. canvas'.kind = layout /\ canvas'.graph = g
  BY DEF Draw
<1>5. CASE own' = 0 /\ made' = made /\ ticking' \subseteq ticking \ (IF layout = "interactive"
                                                                   THEN {mine} ELSE {})
           /\ (layout = "interactive" => g.nodes = <<>>)
  <2>1. SimFits'
    BY <1>4, <1>5 DEF SimFits, Layouts
  <2>2. OneSimulation'
    BY <1>5 DEF SimFits, SimulationFollows, OneSimulation, Layouts
  <2>3. WarmWhileHeld'
    BY <1>1, <1>2, <1>3, <1>5 DEF WarmWhileHeld
  <2> QED BY <2>1, <2>2, <2>3 DEF SimulationFollows
<1>6. CASE /\ layout = "interactive" /\ own' = made + 1 /\ made' = made + 1
           /\ ticking' = (ticking \ {mine}) \cup {made + 1}
  <2>1. SimFits'
    BY <1>4, <1>6 DEF SimFits
  <2>2. OneSimulation'
    BY <1>6 DEF SimFits, SimulationFollows, OneSimulation
  <2>3. WarmWhileHeld'
    BY <1>1, <1>2, <1>3, <1>6 DEF WarmWhileHeld
  <2> QED BY <2>1, <2>2, <2>3 DEF SimulationFollows
<1> QED BY <1>5, <1>6 DEF Draw, DrawStructured, DrawInteractive, Blank, Stopped, Layouts

LEMMA SimDragStart ==
    ASSUME SimInv, NEW id \in Ids(canvas.graph.nodes), DragStart(id) PROVE SimInv'
<1> USE DEF SimInv
<1> DEFINE hold == [sim |-> own, node |-> id]
<1>1. /\ canvas.kind = "interactive" /\ held' = held \cup {hold}
      /\ UNCHANGED <<canvas, made, born, own>>
      /\ IF Active(own) = {} THEN warm' = warm \cup {own} /\ ticking' = ticking \cup {own}
         ELSE UNCHANGED <<warm, ticking>>
  BY DEF DragStart
<1>2. own \in 1..made
  <2>1. canvas.graph.nodes # <<>>
    BY DEF Ids, ToSet
  <2> QED BY <1>1, <2>1 DEF SimFits
<1>3. SimFits'
  BY <1>1, <1>2 DEF SimFits
<1>4. \A sim : Active(sim) \subseteq Active(sim)'
  BY <1>1 DEF Active
<1>5. hold \in Active(own)'
  BY <1>1 DEF Active
<1>6. own \in ticking' \cap warm' /\ warm' \subseteq warm \cup {own}
      /\ ticking' \subseteq ticking \cup {own}
  BY <1>1 DEF SimulationFollows, WarmWhileHeld
<1>7. OneSimulation'
  BY <1>1, <1>6 DEF SimulationFollows, OneSimulation
<1>8. WarmWhileHeld'
  BY <1>1, <1>4, <1>5, <1>6 DEF SimulationFollows, WarmWhileHeld
<1> QED BY <1>3, <1>7, <1>8 DEF SimulationFollows

LEMMA SimDragEnd == ASSUME SimInv, NEW hold \in held, DragEnd(hold) PROVE SimInv'
<1> USE DEF SimInv
<1>1. /\ held' = held \ {hold}
      /\ warm' = IF Active(hold.sim) = {hold} THEN warm \ {hold.sim} ELSE warm
      /\ UNCHANGED <<canvas, made, born, own, ticking>>
  BY DEF DragEnd, Cooled
<1>2. SimFits' /\ OneSimulation'
  BY <1>1 DEF SimFits, SimulationFollows, OneSimulation
<1>3. \A sim : Active(sim)' = Active(sim) \ {hold}
  BY <1>1 DEF Active
<1>4. hold \in Active(hold.sim) /\ \A sim : hold \in Active(sim) => sim = hold.sim
  BY DEF Active
<1>5. \A sim : Active(sim)' # {} => (sim \in warm' <=> sim \in warm)
  BY <1>1, <1>3, <1>4
<1>6. \A sim \in warm' : Active(sim)' # {}
  BY <1>1, <1>3, <1>4 DEF SimulationFollows, WarmWhileHeld
<1>7. WarmWhileHeld'
  BY <1>1, <1>3, <1>5, <1>6 DEF SimulationFollows, WarmWhileHeld
<1> QED BY <1>2, <1>7 DEF SimulationFollows

LEMMA SimSettle == ASSUME SimInv, NEW sim \in ticking, Settle(sim) PROVE SimInv'
<1> USE DEF SimInv
<1>1. /\ sim \notin warm /\ ticking' = ticking \ {sim}
      /\ UNCHANGED <<canvas, made, born, own, warm, held>>
  BY DEF Settle
<1>2. SimFits' /\ OneSimulation'
  BY <1>1 DEF SimFits, SimulationFollows, OneSimulation
<1>3. \A s : Active(s)' = Active(s)
  BY <1>1 DEF Active
<1> QED BY <1>1, <1>2, <1>3 DEF SimulationFollows, WarmWhileHeld

LEMMA SimNext == TabInv /\ SimInv /\ layout \in Layouts /\ [CanvasNext]_canvasSpecVars => SimInv'
<1> SUFFICES ASSUME TabInv, SimInv, layout \in Layouts, [CanvasNext]_canvasSpecVars
             PROVE  SimInv'
  OBVIOUS
<1>1. CASE Render
  <2>1. CASE UNCHANGED <<canvas, drawingVars>>
    BY <1>1, <2>1, Redraws, SimKept DEF drawingVars
  <2>2. CASE \/ Draw(Drawn, NoZoom, 0) /\ born' = made
             \/ canvas.kind = layout /\ Draw(Drawn, zoom, own) /\ born' = born
    BY <1>1, <2>2, Redraws, SimDraw
  <2> QED BY <1>1, <2>1, <2>2, Redraws
<1>2. CASE DragStep
  BY <1>2, SimDragStart, SimDragEnd, SimSettle DEF DragStep
<1>3. CASE UNCHANGED <<canvas, simVars>>
  BY <1>3, SimKept
<1>4. CASE TabStep \/ (\E id \in Ids(canvas.graph.nodes) : Drag(id)) \/ UNCHANGED canvasSpecVars
  BY <1>3, <1>4 DEF TabStep, Opened, Filtered, SetLayout, ClickDrawn, Navigate, Drag,
                    canvasSpecVars, canvasVars, drawingVars
<1>5. CASE GestureStep \/ GlideStep
  BY <1>3, <1>5, ZoomStepKeeps DEF ZoomStep
<1> QED BY <1>1, <1>2, <1>4, <1>5, StepKinds

KindsFit == layout \in Layouts /\ canvas.kind \in Layouts \cup {None}

LEMMA KindsNext == KindsFit /\ [CanvasNext]_canvasSpecVars => KindsFit'
<1> SUFFICES ASSUME KindsFit, [CanvasNext]_canvasSpecVars PROVE KindsFit'
  OBVIOUS
<1>1. CASE Render
  <2>1. layout' = layout /\ (canvas'.kind = layout \/ canvas' = canvas)
    BY <1>1, Redraws DEF Draw
  <2> QED BY <2>1 DEF KindsFit
<1>2. CASE \E kind \in Layouts : SetLayout(kind)
  BY <1>2 DEF SetLayout, KindsFit
<1>3. CASE UNCHANGED <<layout, canvas>>
  BY <1>3 DEF KindsFit
<1>4. CASE DragStep \/ GestureStep \/ GlideStep \/ (\E id \in Ids(canvas.graph.nodes) : Drag(id))
           \/ UNCHANGED canvasSpecVars
  BY <1>3, <1>4, ZoomStepKeeps DEF DragStep, DragStart, DragEnd, Settle, ZoomStep, Drag,
                                   canvasSpecVars, canvasVars
<1>5. CASE TabStep
  BY <1>2, <1>3, <1>5 DEF TabStep, Opened, Filtered, ClickDrawn, Navigate, canvasVars
<1> QED BY <1>1, <1>4, <1>5, StepKinds

LEMMA KindsAlways == CanvasSpec => []KindsFit
<1>1. CanvasInit => KindsFit
  BY DEF CanvasInit, KindsFit, NoCanvas, Layouts
<1> QED BY <1>1, KindsNext, PTL DEF CanvasSpec, canvasSpecVars

LEMMA SimAlways == CanvasSpec => []SimInv
<1>1. KindsFit => layout \in Layouts
  BY DEF KindsFit
<1> QED BY <1>1, SimInit, SimNext, TabAlways, KindsAlways, PTL DEF CanvasSpec, canvasSpecVars

(* However often the interactive canvas draws itself anew, and however many   *)
(* pointers hold its nodes or those of canvases before it when it does, of    *)
(* its own simulations the last runs alone; that one runs while a node of it  *)
(* is held, and none stays hot that nobody holds.                             *)
THEOREM SimulationsFollow == CanvasSpec => []SimulationFollows
<1>1. SimInv => SimulationFollows
  BY DEF SimInv
<1> QED BY <1>1, SimAlways, PTL
------------------------------------------------------------------------------
(* The transforms of the svg and of the drawing in it. *)

Glides == [to : Transforms \cup {None}, live : BOOLEAN]

Gestures == [by : SUBSET {"hand", "glide"}, live : BOOLEAN]

Zooms == [svg : Transforms \cup {None}, root : Transforms \cup {None}, glide : Glides,
          gesture : Gestures, lost : BOOLEAN]

(* A transition goes somewhere, a gesture for one has one, and what moves the *)
(* drawing has one to move.                                                   *)
ZoomFits(z) ==
    /\ z \in Zooms
    /\ z.glide = NoGlide \/ z.glide.to \in Transforms
    /\ "glide" \in z.gesture.by => z.glide # NoGlide
    /\ z.glide.live \/ z.gesture.live => z.root # None

(* On the structured canvas all transitions are the drawing's; and, unless    *)
(* its fit was lost, so are the gestures, and the svg is where the drawing is. *)
AtRoot(z) ==
    /\ z.glide = NoGlide \/ z.glide.live
    /\ IF z.lost THEN z.root = "identity"
                 ELSE z.svg = z.root /\ (z.gesture.by = {} \/ z.gesture.live)

ZoomInv ==
    /\ ZoomFits(zoom)
    /\ (zoom.root = None) = (canvas.graph.nodes = <<>>)
    /\ canvas.kind = "structured" /\ zoom.root # None => AtRoot(zoom)

LEMMA ZoomInit == CanvasInit => ZoomInv
BY CanvasAssumption
   DEF CanvasInit, ZoomInv, ZoomFits, Zooms, Glides, Gestures, NoZoom, NoGlide, NoGesture,
       NoCanvas, NoGraph, Layouts

LEMMA Leaving ==
    ASSUME NEW g \in Gestures, NEW who \in {"hand", "glide"}
    PROVE  /\ LeftBy(g, who) \in Gestures
           /\ LeftBy(g, who).by = g.by \ {who}
           /\ LeftBy(g, who).live => g.live
           /\ g.live => LeftBy(g, who).live \/ LeftBy(g, who).by = {}
BY DEF LeftBy, Gestures, NoGesture

(* An interrupted transition leaves the transforms where they are. *)
LEMMA Interruption ==
    ASSUME NEW z, ZoomFits(z)
    PROVE  LET i == Interrupted(z)
           IN  /\ ZoomFits(i)
               /\ i.svg = z.svg /\ i.root = z.root /\ i.lost = z.lost
               /\ i.glide = NoGlide /\ i.gesture.by = z.gesture.by \ {"glide"}
               /\ AtRoot(z) => AtRoot(i)
<1> DEFINE i == Interrupted(z)
           g == LeftBy(z.gesture, "glide")
<1>1. /\ g \in Gestures /\ g.by = z.gesture.by \ {"glide"}
      /\ (g.live => z.gesture.live) /\ (z.gesture.live => g.live \/ g.by = {})
  BY Leaving DEF ZoomFits, Zooms
<1> HIDE DEF g
<1>2. i = [z EXCEPT !.glide = NoGlide, !.gesture = g]
  BY DEF Interrupted, g
<1>3. i \in Zooms /\ i.svg = z.svg /\ i.root = z.root /\ i.lost = z.lost
      /\ i.glide = NoGlide /\ i.gesture = g
  <2>1. NoGlide \in Glides
    BY DEF Glides, NoGlide
  <2> QED BY <1>1, <1>2, <2>1 DEF ZoomFits, Zooms
<1> HIDE DEF i
<1>4. ZoomFits(i)
  BY <1>1, <1>3 DEF ZoomFits, NoGlide
<1>5. AtRoot(z) => AtRoot(i)
  BY <1>1, <1>3 DEF AtRoot
<1> QED BY <1>1, <1>3, <1>4, <1>5 DEF i

(* A gesture of the drawing brings the transforms together, and another    *)
(* leaves the drawing where it is.                                         *)
LEMMA Moving ==
    ASSUME NEW z, ZoomFits(z), NEW t \in Transforms
    PROVE  LET m == Moved(z, t)
           IN  /\ ZoomFits(m) /\ (m.root = None <=> z.root = None)
               /\ m.glide = z.glide /\ m.gesture = z.gesture
               /\ (z.glide = NoGlide \/ z.glide.live) /\ (z.lost => z.root = "identity")
                  /\ (z.lost \/ z.gesture.live) => AtRoot(m)
<1> DEFINE m == Moved(z, t)
<1>1. CASE z.gesture.live
  <2>1. m = [z EXCEPT !.svg = t, !.root = t, !.lost = FALSE]
    BY <1>1 DEF Moved
  <2> QED BY <1>1, <2>1, CanvasAssumption DEF ZoomFits, Zooms, AtRoot, Transforms
<1>2. CASE ~z.gesture.live
  <2>1. m = [z EXCEPT !.svg = t]
    BY <1>2 DEF Moved
  <2> QED BY <1>2, <2>1 DEF ZoomFits, Zooms, AtRoot
<1> QED BY <1>1, <1>2

(* A new drawing: nothing that goes on is of it. *)
LEMMA SettingUp ==
    ASSUME NEW z, ZoomFits(z)
    PROVE  LET n == SetUp(z)
           IN  ZoomFits(n) /\ n.root = "identity" /\ ~n.lost
<1> DEFINE n == SetUp(z)
<1>1. n \in Zooms
  BY DEF SetUp, ZoomFits, Zooms, Glides, Gestures, Transforms
<1>2. ZoomFits(n)
  BY <1>1, CanvasAssumption DEF SetUp, ZoomFits, Zooms, Glides, Gestures, NoGlide, Transforms
<1> QED BY <1>2 DEF SetUp

LEMMA Fitting ==
    ASSUME NEW z, ZoomFits(z)
    PROVE  LET f == Fitted(z)
           IN  ZoomFits(f) /\ f.root # None /\ AtRoot(f)
<1> DEFINE n == Interrupted(SetUp(z))
           f == Fitted(z)
<1>1. /\ ZoomFits(n) /\ n.root = "identity" /\ ~n.lost
      /\ n.glide = NoGlide /\ n.gesture.by = SetUp(z).gesture.by \ {"glide"}
  BY SettingUp, Interruption
<1> HIDE DEF n
<1>2. f = IF n.gesture.by # {} THEN [n EXCEPT !.svg = "fit", !.lost = TRUE]
                             ELSE [n EXCEPT !.svg = "fit", !.root = "fit"]
  BY DEF Fitted, n
<1> HIDE DEF f
<1>3. ZoomFits(f) /\ f.root # None /\ AtRoot(f)
  BY <1>1, <1>2, CanvasAssumption DEF ZoomFits, Zooms, AtRoot, Transforms
<1> QED BY <1>3 DEF f

LEMMA Clearing ==
    ASSUME NEW z, ZoomFits(z)
    PROVE  ZoomFits(Cleared(z)) /\ Cleared(z).root = None
<1> DEFINE glide == [z.glide EXCEPT !.live = FALSE]
           g == [z.gesture EXCEPT !.live = FALSE]
           c == Cleared(z)
<1>1. glide \in Glides /\ ~glide.live /\ glide.to = z.glide.to
  BY DEF ZoomFits, Zooms, Glides
<1>2. z.glide = NoGlide => glide = NoGlide
  <2>1. ASSUME NEW a \in Glides, ~a.live, a.to = None PROVE a = NoGlide
    BY <2>1 DEF Glides, NoGlide
  <2>2. NoGlide.to = None
    BY DEF NoGlide
  <2> HIDE DEF glide
  <2> QED BY <1>1, <2>1, <2>2
<1>3. g \in Gestures /\ ~g.live /\ g.by = z.gesture.by
  BY DEF ZoomFits, Zooms, Gestures
<1>4. c = [z EXCEPT !.root = None, !.glide = glide, !.gesture = g, !.lost = FALSE]
  BY DEF Cleared
<1> HIDE DEF glide, g, c
<1>5. /\ c \in Zooms /\ c.root = None
      /\ c.glide = glide /\ c.gesture = g
  BY <1>1, <1>3, <1>4 DEF ZoomFits, Zooms
<1>6. z.glide # NoGlide => glide # NoGlide
  BY <1>1, CanvasAssumption DEF ZoomFits, NoGlide, Transforms
<1>7. ZoomFits(c) /\ c.root = None
  BY <1>1, <1>2, <1>3, <1>5, <1>6 DEF ZoomFits
<1> QED BY <1>7 DEF c

LEMMA ZoomDraw ==
    ASSUME NEW g, NEW z, ZoomFits(z), layout \in Layouts, NEW mine, Draw(g, z, mine)
    PROVE  ZoomInv'
<1>1. canvas'.kind = layout /\ canvas'.graph = g
  BY DEF Draw
<1>2. CASE Blank(g)
  <2>1. zoom' = Cleared(z)
    BY <1>2 DEF Draw, DrawStructured, DrawInteractive
  <2>2. ZoomFits(zoom') /\ zoom'.root = None
    BY <2>1, Clearing
  <2> QED BY <1>1, <1>2, <2>2 DEF Blank, ZoomInv
<1>3. CASE ~Blank(g) /\ layout = "structured"
  <2>1. zoom' = Fitted(z)
    BY <1>3 DEF Draw, DrawStructured
  <2>2. ZoomFits(zoom') /\ zoom'.root # None /\ AtRoot(zoom')
    BY <2>1, Fitting
  <2> QED BY <1>1, <1>3, <2>2 DEF Blank, ZoomInv
<1>4. CASE ~Blank(g) /\ layout = "interactive"
  <2>1. zoom' = SetUp(z)
    BY <1>4 DEF Draw, DrawInteractive
  <2>2. ZoomFits(zoom') /\ zoom'.root = "identity"
    BY <2>1, SettingUp
  <2> QED BY <1>1, <1>4, <2>2, CanvasAssumption DEF Blank, ZoomInv, Transforms
<1> QED BY <1>2, <1>3, <1>4 DEF Layouts

(* A step on the canvas that keeps the drawing. *)
LEMMA ZoomKept ==
    ASSUME ZoomInv, ZoomStep, ZoomFits(zoom'), zoom'.root = None <=> zoom.root = None,
           zoom.root # None /\ AtRoot(zoom) => AtRoot(zoom')
    PROVE  ZoomInv'
BY DEF ZoomInv, ZoomStep

LEMMA GestureStepFits == ASSUME ZoomInv, GestureStep PROVE ZoomInv'
<1>1. ZoomFits(zoom) /\ ZoomStep
  BY ZoomStepKeeps DEF ZoomInv
<1>2. ASSUME NEW live \in BOOLEAN, live => zoom.root # None,
             zoom.root # None /\ AtRoot(zoom) => zoom.lost \/ live
      PROVE  /\ ZoomFits(Taken(live)) /\ Taken(live).root = zoom.root
             /\ Taken(live).lost = zoom.lost /\ Taken(live).glide = NoGlide
             /\ Taken(live).gesture.live = live
             /\ zoom.root # None /\ AtRoot(zoom) => AtRoot(Taken(live))
  <2> DEFINE i == Interrupted(zoom)
             t == Taken(live)
             mine == [by |-> {"hand"}, live |-> live]
  <2>1. /\ ZoomFits(i) /\ i.svg = zoom.svg /\ i.root = zoom.root /\ i.lost = zoom.lost
        /\ i.glide = NoGlide /\ (AtRoot(zoom) => AtRoot(i))
    BY <1>1, Interruption
  <2>2. mine \in Gestures /\ mine.by = {"hand"} /\ mine.live = live
    BY DEF Gestures
  <2>3. t = [i EXCEPT !.gesture = mine]
    BY DEF Taken
  <2> HIDE DEF i, mine
  <2>4. /\ t \in Zooms /\ t.svg = zoom.svg /\ t.root = zoom.root /\ t.lost = zoom.lost
        /\ t.glide = NoGlide /\ t.gesture = mine
    BY <2>1, <2>2, <2>3 DEF ZoomFits, Zooms
  <2> HIDE DEF t
  <2>5. ZoomFits(t)
    BY <1>2, <2>2, <2>4 DEF ZoomFits, NoGlide
  <2>6. zoom.root # None /\ AtRoot(zoom) => AtRoot(t)
    BY <1>2, <2>2, <2>4 DEF AtRoot
  <2> QED BY <2>2, <2>4, <2>5, <2>6 DEF t
<1>3. CASE Grab
  <2> DEFINE live == zoom.root # None
  <2>1. zoom' = Taken(live) /\ live \in BOOLEAN
    BY <1>3 DEF Grab
  <2>2. (live => zoom.root # None) /\ (zoom.root # None /\ AtRoot(zoom) => zoom.lost \/ live)
    OBVIOUS
  <2> HIDE DEF live
  <2> QED BY <1>1, <1>2, <2>1, <2>2, ZoomKept
<1>4. CASE Wheel
  <2> DEFINE live == IF zoom.gesture.by = {} THEN zoom.root # None ELSE zoom.gesture.live
             t == Taken(live)
  <2>1. live \in BOOLEAN /\ (live => zoom.root # None)
    BY <1>1 DEF ZoomFits, Zooms, Gestures
  <2>2. zoom.root # None /\ AtRoot(zoom) => zoom.lost \/ live
    BY DEF AtRoot
  <2>3. zoom' = Moved(t, "moved") /\ "moved" \in Transforms
    BY <1>4 DEF Wheel, Transforms
  <2> HIDE DEF live
  <2>4. /\ ZoomFits(t) /\ t.root = zoom.root /\ t.lost = zoom.lost /\ t.glide = NoGlide
        /\ t.gesture.live = live
    BY <1>2, <2>1, <2>2
  <2> HIDE DEF t
  <2>5. /\ ZoomFits(zoom') /\ (zoom'.root = None <=> t.root = None)
        /\ (t.lost => t.root = "identity") /\ (t.lost \/ t.gesture.live) => AtRoot(zoom')
    BY <2>3, <2>4, Moving
  <2>6. zoom.root # None /\ AtRoot(zoom) => AtRoot(zoom')
    BY <2>2, <2>4, <2>5 DEF AtRoot
  <2> QED BY <1>1, <2>4, <2>5, <2>6, ZoomKept
<1>5. CASE Pan
  <2>1. zoom' = Moved(zoom, "moved") /\ "moved" \in Transforms /\ zoom.gesture.by # {}
    BY <1>5 DEF Pan, Held, Transforms
  <2>2. /\ ZoomFits(zoom') /\ (zoom'.root = None <=> zoom.root = None)
        /\ (zoom.glide = NoGlide \/ zoom.glide.live) /\ (zoom.lost => zoom.root = "identity")
           /\ (zoom.lost \/ zoom.gesture.live) => AtRoot(zoom')
    BY <1>1, <2>1, Moving
  <2>3. zoom.root # None /\ AtRoot(zoom) => AtRoot(zoom')
    BY <2>1, <2>2 DEF AtRoot
  <2> QED BY <1>1, <2>2, <2>3, ZoomKept
<1>6. CASE Release
  <2> DEFINE g == LeftBy(zoom.gesture, "hand")
  <2>1. /\ g \in Gestures /\ g.by = zoom.gesture.by \ {"hand"}
        /\ (g.live => zoom.gesture.live) /\ (zoom.gesture.live => g.live \/ g.by = {})
    BY <1>1, Leaving DEF ZoomFits, Zooms
  <2>2. zoom' = [zoom EXCEPT !.gesture = g]
    BY <1>6 DEF Release
  <2> HIDE DEF g
  <2>3. /\ zoom' \in Zooms /\ zoom'.svg = zoom.svg /\ zoom'.root = zoom.root
        /\ zoom'.lost = zoom.lost /\ zoom'.glide = zoom.glide /\ zoom'.gesture = g
    BY <1>1, <2>1, <2>2 DEF ZoomFits, Zooms
  <2>4. ZoomFits(zoom')
    BY <1>1, <2>1, <2>3 DEF ZoomFits
  <2>5. AtRoot(zoom) => AtRoot(zoom')
    BY <2>1, <2>3 DEF AtRoot
  <2> QED BY <1>1, <2>3, <2>4, <2>5, ZoomKept
<1> QED BY <1>3, <1>4, <1>5, <1>6 DEF GestureStep

LEMMA GlideStepFits == ASSUME ZoomInv, GlideStep PROVE ZoomInv'
<1>1. ZoomFits(zoom) /\ ZoomStep
  BY ZoomStepKeeps DEF ZoomInv
<1>2. ASSUME NEW to \in Transforms, Zoom(to) PROVE ZoomInv'
  <2> DEFINE i == Interrupted(zoom)
             glide == [to |-> to, live |-> zoom.root # None]
  <2>1. /\ ZoomFits(i) /\ i.svg = zoom.svg /\ i.root = zoom.root /\ i.lost = zoom.lost
        /\ i.gesture.by = zoom.gesture.by \ {"glide"} /\ (AtRoot(zoom) => AtRoot(i))
    BY <1>1, Interruption
  <2>2. glide \in Glides /\ glide.to \in Transforms /\ glide.live = (zoom.root # None)
    BY DEF Glides
  <2>3. zoom' = [i EXCEPT !.glide = glide]
    BY <1>2 DEF Zoom
  <2> HIDE DEF i, glide
  <2>4. /\ zoom' \in Zooms /\ zoom'.svg = i.svg /\ zoom'.root = i.root /\ zoom'.lost = i.lost
        /\ zoom'.glide = glide /\ zoom'.gesture = i.gesture
    BY <2>1, <2>2, <2>3 DEF ZoomFits, Zooms
  <2>5. ZoomFits(zoom')
    BY <2>1, <2>2, <2>4 DEF ZoomFits
  <2>6. zoom.root # None /\ AtRoot(zoom) => AtRoot(zoom')
    BY <2>1, <2>2, <2>4 DEF AtRoot
  <2> QED BY <1>1, <2>1, <2>4, <2>5, <2>6, ZoomKept
<1>3. CASE GlideStart
  <2> DEFINE g == [by |-> zoom.gesture.by \cup {"glide"},
                   live |-> IF Held THEN zoom.gesture.live ELSE zoom.glide.live]
             z == [zoom EXCEPT !.gesture = g]
  <2>1. /\ zoom.glide # NoGlide /\ zoom' = Moved(z, "moved") /\ "moved" \in Transforms
    BY <1>3 DEF GlideStart, Transforms
  <2>2. /\ g \in Gestures /\ (g.live => zoom.root # None)
        /\ g.live = IF Held THEN zoom.gesture.live ELSE zoom.glide.live
    BY <1>1 DEF ZoomFits, Zooms, Glides, Gestures
  <2> HIDE DEF g
  <2>3. /\ z \in Zooms /\ z.svg = zoom.svg /\ z.root = zoom.root /\ z.lost = zoom.lost
        /\ z.glide = zoom.glide /\ z.gesture = g
    BY <1>1, <2>2 DEF ZoomFits, Zooms
  <2> HIDE DEF z
  <2>4. ZoomFits(z)
    BY <1>1, <2>1, <2>2, <2>3 DEF ZoomFits
  <2>5. /\ ZoomFits(zoom') /\ (zoom'.root = None <=> z.root = None)
        /\ (z.glide = NoGlide \/ z.glide.live) /\ (z.lost => z.root = "identity")
           /\ (z.lost \/ z.gesture.live) => AtRoot(zoom')
    BY <2>1, <2>4, Moving
  <2>6. zoom.root # None /\ AtRoot(zoom) => AtRoot(zoom')
    BY <2>1, <2>2, <2>3, <2>5 DEF AtRoot, Held
  <2> QED BY <1>1, <2>3, <2>5, <2>6, ZoomKept
<1>4. CASE GlideEnd
  <2> DEFINE m == Moved(zoom, zoom.glide.to)
  <2>1. zoom.glide.to \in Transforms /\ zoom.gesture.by # {}
    BY <1>1, <1>4 DEF GlideEnd, Gliding, ZoomFits
  <2>2. /\ ZoomFits(m) /\ (m.root = None <=> zoom.root = None)
        /\ (zoom.glide = NoGlide \/ zoom.glide.live) /\ (zoom.lost => zoom.root = "identity")
           /\ (zoom.lost \/ zoom.gesture.live) => AtRoot(m)
    BY <1>1, <2>1, Moving
  <2>3. zoom' = Interrupted(m)
    BY <1>4 DEF GlideEnd
  <2> HIDE DEF m
  <2>4. ZoomFits(zoom') /\ zoom'.root = m.root /\ (AtRoot(m) => AtRoot(zoom'))
    BY <2>2, <2>3, Interruption
  <2>5. zoom.root # None /\ AtRoot(zoom) => AtRoot(zoom')
    BY <2>1, <2>2, <2>4 DEF AtRoot
  <2> QED BY <1>1, <2>2, <2>4, <2>5, ZoomKept
<1> QED BY <1>2, <1>3, <1>4 DEF GlideStep, OnZoomIn, OnZoomOut, OnResetZoom, Transforms

LEMMA ZoomNext == ZoomInv /\ KindsFit /\ [CanvasNext]_canvasSpecVars => ZoomInv'
<1> SUFFICES ASSUME ZoomInv, KindsFit, [CanvasNext]_canvasSpecVars PROVE ZoomInv'
  OBVIOUS
<1>1. CASE UNCHANGED <<canvas, zoom>>
  BY <1>1 DEF ZoomInv
<1>2. CASE Render
  <2>1. ZoomFits(NoZoom)
    BY DEF NoZoom, ZoomFits, Zooms, Glides, Gestures, NoGlide, NoGesture
  <2> QED BY <1>1, <1>2, <2>1, Redraws, ZoomDraw DEF ZoomInv, KindsFit, drawingVars
<1>3. CASE GestureStep \/ GlideStep
  BY <1>3, GestureStepFits, GlideStepFits
<1>4. CASE TabStep \/ DragStep \/ (\E id \in Ids(canvas.graph.nodes) : Drag(id))
           \/ UNCHANGED canvasSpecVars
  BY <1>1, <1>4 DEF TabStep, Opened, Filtered, SetLayout, ClickDrawn, Navigate, DragStep,
                    DragStart, DragEnd, Settle, Drag, canvasSpecVars, canvasVars, drawingVars
<1> QED BY <1>2, <1>3, <1>4, StepKinds

LEMMA ZoomAlways == CanvasSpec => []ZoomInv
BY ZoomInit, ZoomNext, KindsAlways, PTL DEF CanvasSpec, canvasSpecVars

(* The svg outlives its drawings, and d3 keeps its transform and lets its     *)
(* gestures and transitions go on; on the structured canvas what is drawn is  *)
(* nevertheless where the next gesture takes it to be, unless it was drawn in *)
(* the middle of the user's gesture: then it is shown as it was laid out,     *)
(* until a gesture of its own moves it.                                       *)
THEOREM TransformAlwaysShown == CanvasSpec => []TransformShown
<1>1. ZoomInv => TransformShown
  BY DEF ZoomInv, AtRoot, TransformShown
<1> QED BY <1>1, ZoomAlways, PTL
------------------------------------------------------------------------------
(* The picture of the structured canvas. *)

Drawing == LinksOf(canvas.graph)

(* A link that still runs along dagre's points has ends nobody has dragged. *)
PictureFits ==
    canvas.kind = "structured" =>
        /\ DOMAIN picture.place = Ids(canvas.graph.nodes)
        /\ DOMAIN picture.path \subseteq DOMAIN Drawing
        /\ DOMAIN picture.label \subseteq DOMAIN Drawing
        /\ picture.routed \subseteq DOMAIN Drawing
        /\ \A i \in picture.routed : /\ picture.place[Drawing[i].source] = 0
                                     /\ picture.place[Drawing[i].target] = 0

PictureInv == PictureFits /\ LinksMeetNodes

LEMMA PictureInit == CanvasInit => PictureInv
BY CanvasAssumption
   DEF CanvasInit, NoCanvas, Layouts, PictureInv, PictureFits, LinksMeetNodes

LEMMA PictureDraw ==
    ASSUME NEW g, NEW z, NEW mine, Draw(g, z, mine) PROVE PictureInv'
<1> DEFINE links == LinksOf(g)
           place == SimNodes(g)
<1>1. canvas'.kind = layout /\ canvas'.graph = g
  BY DEF Draw
<1>2. CASE layout = "structured" /\ Blank(g)
  <2>1. picture' = Nothing
    BY <1>2 DEF Draw, DrawStructured
  <2>2. /\ picture'.place = <<>> /\ picture'.routed = {}
        /\ DOMAIN picture'.path = {} /\ DOMAIN picture'.label = {}
    BY <2>1 DEF Nothing, Pictured, Labelled
  <2>3. Ids(g.nodes) = {}
    BY <1>2 DEF Blank, Ids, ToSet
  <2> QED BY <1>1, <2>2, <2>3 DEF PictureInv, PictureFits, LinksMeetNodes
<1>3. CASE layout = "structured" /\ ~Blank(g)
  <2>1. picture' = Pictured(place, DOMAIN links, links)
    BY <1>3 DEF Draw, DrawStructured, LaidOut
  <2>2. /\ picture'.place = place /\ picture'.routed = DOMAIN links
        /\ DOMAIN picture'.path = DOMAIN links /\ DOMAIN picture'.label \subseteq DOMAIN links
        /\ \A i \in DOMAIN picture'.path : picture'.path[i] = <<0, 0>>
        /\ \A i \in DOMAIN picture'.label : picture'.label[i] = <<0, 0>>
    BY <2>1 DEF Pictured, Labelled, PathPoints
  <2>3. DOMAIN place = Ids(g.nodes) /\ \A id \in Ids(g.nodes) : place[id] = 0
    BY DEF SimNodes
  <2>4. \A i \in DOMAIN links : links[i].source \in Ids(g.nodes) /\ links[i].target \in Ids(g.nodes)
    BY LinkEnds
  <2> HIDE DEF links, place
  <2>5. LinksOf(g) = links
    BY DEF links
  <2> QED BY <1>1, <2>2, <2>3, <2>4, <2>5 DEF PictureInv, PictureFits, LinksMeetNodes, Drawing
<1>4. CASE layout # "structured"
  BY <1>1, <1>4 DEF PictureInv, PictureFits, LinksMeetNodes
<1> QED BY <1>2, <1>3, <1>4

LEMMA PictureDrag ==
    ASSUME PictureInv, NEW id \in Ids(canvas.graph.nodes), Drag(id) PROVE PictureInv'
<1> DEFINE links == LinksOf(canvas.graph)
           touched == Touching(links, id)
           place == picture'.place
           Meets(f, i) == f[i] = <<place[links[i].source], place[links[i].target]>>
<1>1. /\ canvas' = canvas /\ canvas.kind = "structured"
      /\ place = [picture.place EXCEPT ![id] = @ + 1]
      /\ picture'.routed = picture.routed \ touched
      /\ picture'.path = [i \in DOMAIN picture.path |->
                             IF i \in touched THEN PathPoints(place, picture'.routed, links, i)
                             ELSE picture.path[i]]
      /\ picture'.label = [i \in DOMAIN picture.label |->
                             IF i \in touched THEN PathPoints(place, picture'.routed, links, i)
                             ELSE picture.label[i]]
  BY DEF Drag
<1>2. links' = links
  BY <1>1
<1>3. /\ DOMAIN picture.place = Ids(canvas.graph.nodes)
      /\ DOMAIN picture.path \subseteq DOMAIN links
      /\ DOMAIN picture.label \subseteq DOMAIN links
      /\ picture.routed \subseteq DOMAIN links
      /\ \A i \in picture.routed : /\ picture.place[links[i].source] = 0
                                   /\ picture.place[links[i].target] = 0
      /\ \A i \in DOMAIN picture.path : picture.path[i] =
            <<picture.place[links[i].source], picture.place[links[i].target]>>
      /\ \A i \in DOMAIN picture.label : picture.label[i] =
            <<picture.place[links[i].source], picture.place[links[i].target]>>
  BY <1>1 DEF PictureInv, PictureFits, LinksMeetNodes, Drawing
<1>4. \A i \in DOMAIN links : links[i].source \in Ids(canvas.graph.nodes)
                              /\ links[i].target \in Ids(canvas.graph.nodes)
  BY LinkEnds
<1>5. \A i \in DOMAIN links \ touched : /\ place[links[i].source] = picture.place[links[i].source]
                                        /\ place[links[i].target] = picture.place[links[i].target]
  BY <1>1, <1>3, <1>4 DEF Touching, Ends
<1>6. \A i \in touched : PathPoints(place, picture'.routed, links, i) =
                            <<place[links[i].source], place[links[i].target]>>
  BY <1>1 DEF PathPoints
<1> HIDE DEF links, touched, place
<1>7. ASSUME NEW i \in DOMAIN picture'.path PROVE Meets(picture'.path, i)
  <2>1. /\ i \in DOMAIN picture.path /\ i \in DOMAIN links
        /\ picture'.path[i] = IF i \in touched THEN PathPoints(place, picture'.routed, links, i)
                             ELSE picture.path[i]
    BY <1>1, <1>3
  <2>2. CASE i \in touched
    BY <1>6, <2>1, <2>2
  <2>3. CASE i \notin touched
    BY <1>3, <1>5, <2>1, <2>3
  <2> QED BY <2>2, <2>3
<1>8. ASSUME NEW i \in DOMAIN picture'.label PROVE Meets(picture'.label, i)
  <2>1. /\ i \in DOMAIN picture.label /\ i \in DOMAIN links
        /\ picture'.label[i] = IF i \in touched THEN PathPoints(place, picture'.routed, links, i)
                             ELSE picture.label[i]
    BY <1>1, <1>3
  <2>2. CASE i \in touched
    BY <1>6, <2>1, <2>2
  <2>3. CASE i \notin touched
    BY <1>3, <1>5, <2>1, <2>3
  <2> QED BY <2>2, <2>3
<1>9. LinksMeetNodes'
  BY <1>1, <1>2, <1>7, <1>8 DEF LinksMeetNodes, links, place
<1>10. PictureFits'
  <2>1. DOMAIN place = DOMAIN picture.place
    BY <1>1
  <2>2. \A i \in picture'.routed : place[links[i].source] = 0 /\ place[links[i].target] = 0
    BY <1>1, <1>3, <1>5
  <2>3. Drawing' = links /\ picture'.place = place
    BY <1>1 DEF Drawing, links, place
  <2> QED BY <1>1, <1>3, <2>1, <2>2, <2>3 DEF PictureFits
<1> QED BY <1>9, <1>10 DEF PictureInv

LEMMA PictureNext == PictureInv /\ [CanvasNext]_canvasSpecVars => PictureInv'
<1> SUFFICES ASSUME PictureInv, [CanvasNext]_canvasSpecVars PROVE PictureInv'
  OBVIOUS
<1>1. CASE UNCHANGED <<canvas, picture>>
  BY <1>1 DEF PictureInv, PictureFits, LinksMeetNodes, Drawing
<1>2. CASE Render
  BY <1>1, <1>2, Redraws, PictureDraw DEF drawingVars
<1>3. ASSUME NEW id \in Ids(canvas.graph.nodes), Drag(id) PROVE PictureInv'
  BY <1>3, PictureDrag
<1>4. CASE TabStep \/ DragStep \/ UNCHANGED canvasSpecVars
  BY <1>1, <1>4 DEF TabStep, Opened, Filtered, SetLayout, ClickDrawn, Navigate, DragStep,
                    DragStart, DragEnd, Settle, canvasSpecVars, canvasVars, drawingVars
<1>5. CASE GestureStep \/ GlideStep
  BY <1>1, <1>5, ZoomStepKeeps DEF ZoomStep
<1> QED BY <1>2, <1>3, <1>4, <1>5, StepKinds

LEMMA PictureAlways == CanvasSpec => []PictureInv
BY PictureInit, PictureNext, PTL DEF CanvasSpec, canvasSpecVars

(* However nodes are dragged, every link and label of the structured canvas   *)
(* ends where its nodes are, though most drags redraw only some of them and   *)
(* a link keeps dagre's points until one of its ends is moved.                *)
THEOREM LinksStayAtNodes == CanvasSpec => []LinksMeetNodes
<1>1. PictureInv => LinksMeetNodes
  BY DEF PictureInv
<1> QED BY <1>1, PictureAlways, PTL

(* A canvas shows nodes of the graph it was given, in a drawing that can be   *)
(* moved if there are any, and no timer or pointer is of a simulation that    *)
(* was never made.                                                            *)
THEOREM CanvasTypeCorrect == CanvasSpec => []CanvasTypeOK
<1>1. ZoomInv => /\ zoom.svg \in Transforms \cup {None} /\ zoom.root \in Transforms \cup {None}
                 /\ (zoom.root = None) = (canvas.graph.nodes = <<>>)
                 /\ zoom.gesture.by \subseteq {"hand", "glide"}
                 /\ Gliding => zoom.glide # NoGlide
  BY DEF ZoomInv, ZoomFits, Zooms, Gestures, Gliding
<1>2. TabInv /\ KindsFit /\ SimInv /\ ZoomInv /\ PictureInv => CanvasTypeOK
  BY <1>1 DEF TabInv, KindsFit, SimInv, SimFits, PictureInv, PictureFits, CanvasTypeOK
<1> QED BY <1>2, TabAlways, KindsAlways, SimAlways, ZoomAlways, PictureAlways, PTL
------------------------------------------------------------------------------
(* Lists, one after the other. *)

LEMMA NatSetInduction ==
    ASSUME NEW T \in SUBSET Nat, 0 \in T, \A n \in T : n + 1 \in T
    PROVE  T = Nat
<1> DEFINE Rel == OpToRel(<, Nat)
<1> SUFFICES ASSUME Nat \ T # {} PROVE FALSE
  OBVIOUS
<1>1. IsWellFoundedOn(Rel, Nat)
  BY NatLessThanWellFounded
<1>2. \A m, n \in Nat : m < n => <<m, n>> \in Rel
  BY DEF OpToRel
<1> HIDE DEF Rel
<1>3. PICK n \in Nat \ T : \A m \in Nat \ T : ~(<<m, n>> \in Rel)
  BY <1>1, WFMin
<1>4. n # 0 /\ n - 1 \in Nat /\ n - 1 < n
  OBVIOUS
<1>5. n - 1 \in T
  BY <1>2, <1>3, <1>4
<1> QED BY <1>3, <1>4, <1>5

Unflat(seqs, f) == f = [i \in 1..Len(seqs) |-> IF i = 1 THEN seqs[i] ELSE f[i-1] \o seqs[i]]

LEMMA FlattenIs ==
    ASSUME NEW seqs, Len(seqs) # 0
    PROVE  FlattenSeq(seqs) = (CHOOSE f : Unflat(seqs, f))[Len(seqs)]
BY DEF FlattenSeq, Unflat


(* ... and it exists. *)
LEMMA UnflatExists ==
    ASSUME NEW seqs, Len(seqs) \in Nat
    PROVE  \E f : Unflat(seqs, f)
<1> DEFINE Upto(n, f) ==
             f = [i \in 1..n |-> IF i = 1 THEN seqs[i] ELSE f[i-1] \o seqs[i]]
           T == {n \in Nat : \E f : Upto(n, f)}
<1>1. 0 \in T
  <2>1. Upto(0, [i \in 1..0 |-> seqs[i]])
    OBVIOUS
  <2> QED BY <2>1
<1>2. ASSUME NEW n \in T PROVE n + 1 \in T
  <2>1. PICK f : Upto(n, f)
    OBVIOUS
  <2> DEFINE last == IF n = 0 THEN seqs[1] ELSE f[n] \o seqs[n+1]
             g == [i \in 1..(n+1) |-> IF i = n + 1 THEN last ELSE f[i]]
  <2>2. \A i \in 1..n : f[i] = IF i = 1 THEN seqs[i] ELSE f[i-1] \o seqs[i]
    BY <2>1
  <2>3. \A i \in 1..(n+1) : g[i] = IF i = 1 THEN seqs[i] ELSE g[i-1] \o seqs[i]
    <3> SUFFICES ASSUME NEW i \in 1..(n+1)
                 PROVE  g[i] = IF i = 1 THEN seqs[i] ELSE g[i-1] \o seqs[i]
      OBVIOUS
    <3>1. CASE i = n + 1
      BY <3>1
    <3>2. CASE i # n + 1
      <4>1. i \in 1..n /\ (i # 1 => i - 1 \in 1..n)
        BY <3>2
      <4> QED BY <2>2, <4>1
    <3> QED BY <3>1, <3>2
  <2>4. Upto(n + 1, g)
    <3>1. g = [i \in 1..(n+1) |-> g[i]]
      OBVIOUS
    <3> HIDE DEF g
    <3> QED BY <2>3, <3>1
  <2>5. n + 1 \in Nat
    BY <1>2
  <2> HIDE DEF Upto, g
  <2> QED BY <2>4, <2>5
<1>3. T = Nat
  <2> HIDE DEF T
  <2>1. T \subseteq Nat
    BY DEF T
  <2> QED BY <1>1, <1>2, <2>1, NatSetInduction
<1>4. PICK f : Upto(Len(seqs), f)
  BY <1>3
<1> QED BY <1>4 DEF Unflat

LEMMA FlattenRuns ==
    ASSUME NEW seqs, Len(seqs) \in Nat \ {0}
    PROVE  \E f : /\ FlattenSeq(seqs) = f[Len(seqs)]
                  /\ f[1] = seqs[1]
                  /\ \A i \in 2..Len(seqs) : f[i] = f[i-1] \o seqs[i]
<1> DEFINE f == CHOOSE f : Unflat(seqs, f)
<1>1. Unflat(seqs, f)
  BY UnflatExists
<1>2. FlattenSeq(seqs) = f[Len(seqs)]
  BY FlattenIs
<1> HIDE DEF f
<1>3. \A i \in 1..Len(seqs) : f[i] = IF i = 1 THEN seqs[i] ELSE f[i-1] \o seqs[i]
  BY <1>1 DEF Unflat
<1>4. f[1] = seqs[1]
  <2>1. 1 \in 1..Len(seqs)
    OBVIOUS
  <2> QED BY <1>3, <2>1
<1>5. ASSUME NEW i \in 2..Len(seqs) PROVE f[i] = f[i-1] \o seqs[i]
  <2>1. i \in 1..Len(seqs) /\ i # 1
    OBVIOUS
  <2> QED BY <1>3, <2>1
<1> QED BY <1>2, <1>4, <1>5

LEMMA ConcatElements ==
    ASSUME NEW S, NEW s \in Seq(S), NEW t \in Seq(S)
    PROVE  s \o t \in Seq(S) /\ ToSet(s \o t) = ToSet(s) \cup ToSet(t)
<1>1. /\ s \o t \in Seq(S) /\ Len(s \o t) = Len(s) + Len(t)
      /\ \A i \in 1 .. Len(s) + Len(t) :
            (s \o t)[i] = IF i <= Len(s) THEN s[i] ELSE t[i - Len(s)]
  BY ConcatProperties
<1>2. ToSet(s \o t) \subseteq ToSet(s) \cup ToSet(t)
  BY <1>1 DEF ToSet
<1>3. ToSet(s) \subseteq ToSet(s \o t)
  BY <1>1 DEF ToSet
<1>4. ASSUME NEW j \in 1..Len(t) PROVE t[j] \in ToSet(s \o t)
  <2>1. j + Len(s) \in 1..Len(s) + Len(t) /\ ~(j + Len(s) <= Len(s)) /\ (j + Len(s)) - Len(s) = j
    OBVIOUS
  <2>2. (s \o t)[j + Len(s)] = t[j]
    BY <1>1, <2>1
  <2> QED BY <1>1, <2>1, <2>2 DEF ToSet
<1>5. ToSet(t) \subseteq ToSet(s \o t)
  BY <1>4 DEF ToSet
<1> QED BY <1>1, <1>2, <1>3, <1>5

(* A flattened sequence has the elements of its parts. *)
LEMMA FlattenElements ==
    ASSUME NEW S, NEW seqs \in Seq(Seq(S))
    PROVE  /\ FlattenSeq(seqs) \in Seq(S)
           /\ ToSet(FlattenSeq(seqs)) = UNION {ToSet(seqs[i]) : i \in DOMAIN seqs}
<1>1. CASE Len(seqs) = 0
  <2>1. FlattenSeq(seqs) = seqs /\ seqs = <<>>
    BY <1>1 DEF FlattenSeq
  <2> QED BY <2>1 DEF ToSet
<1>2. CASE Len(seqs) # 0
  <2>1. Len(seqs) \in Nat \ {0} /\ DOMAIN seqs = 1..Len(seqs)
    BY <1>2
  <2>2. PICK f : /\ FlattenSeq(seqs) = f[Len(seqs)]
                 /\ f[1] = seqs[1]
                 /\ \A i \in 2..Len(seqs) : f[i] = f[i-1] \o seqs[i]
    BY <2>1, FlattenRuns
  <2> DEFINE Parts(n) == UNION {ToSet(seqs[i]) : i \in 1..n}
             Fits(n) == f[n] \in Seq(S) /\ ToSet(f[n]) = Parts(n)
             T == {n \in Nat : n < Len(seqs) => Fits(n+1)}
  <2>3. Fits(1)
    <3>1. seqs[1] \in Seq(S)
      BY <2>1
    <3>2. Parts(1) = ToSet(seqs[1])
      OBVIOUS
    <3> QED BY <2>2, <3>1, <3>2
  <2>4. ASSUME NEW n \in 1..Len(seqs), n + 1 \in 1..Len(seqs), Fits(n) PROVE Fits(n+1)
    <3>1. seqs[n+1] \in Seq(S)
      BY <2>4
    <3>2. f[n+1] = f[n] \o seqs[n+1]
      <4>1. n + 1 \in 2..Len(seqs) /\ (n + 1) - 1 = n
        BY <2>4
      <4> QED BY <2>2, <4>1
    <3>3. Parts(n+1) = Parts(n) \cup ToSet(seqs[n+1])
      <4>1. 1..(n+1) = 1..n \cup {n+1}
        OBVIOUS
      <4> QED BY <4>1
    <3>4. f[n] \in Seq(S) /\ ToSet(f[n]) = Parts(n)
      BY <2>4
    <3>5. f[n] \o seqs[n+1] \in Seq(S) /\ ToSet(f[n] \o seqs[n+1]) = ToSet(f[n]) \cup ToSet(seqs[n+1])
      <4> DEFINE s == f[n]
                 t == seqs[n+1]
      <4>1. s \in Seq(S) /\ t \in Seq(S)
        BY <3>1, <3>4
      <4> HIDE DEF s, t
      <4>2. s \o t \in Seq(S) /\ ToSet(s \o t) = ToSet(s) \cup ToSet(t)
        BY <4>1, ConcatElements
      <4> QED BY <4>2 DEF s, t
    <3> HIDE DEF Parts
    <3> QED BY <3>2, <3>3, <3>4, <3>5
  <2> HIDE DEF Fits
  <2>5. T = Nat
    <3>1. T \subseteq Nat /\ 0 \in T
      BY <2>3
    <3>2. ASSUME NEW n \in T PROVE n + 1 \in T
      <4>1. n \in Nat /\ n + 1 \in Nat /\ (n < Len(seqs) => Fits(n + 1))
        BY <3>2
      <4>2. ASSUME n + 1 < Len(seqs) PROVE Fits((n + 1) + 1)
        <5>1. n + 1 \in 1..Len(seqs) /\ (n + 1) + 1 \in 1..Len(seqs) /\ n < Len(seqs)
          BY <2>1, <4>1, <4>2
        <5>2. Fits(n + 1)
          BY <4>1, <5>1
        <5> QED BY <2>4, <5>1, <5>2
      <4> QED BY <4>1, <4>2
    <3> HIDE DEF T
    <3> QED BY <3>1, <3>2, NatSetInduction
  <2>6. Fits(Len(seqs))
    <3>1. \A n \in Nat : n < Len(seqs) => Fits(n + 1)
      BY <2>5
    <3>2. Len(seqs) - 1 \in Nat /\ Len(seqs) - 1 < Len(seqs) /\ (Len(seqs) - 1) + 1 = Len(seqs)
      BY <2>1
    <3> HIDE DEF T
    <3> QED BY <3>1, <3>2
  <2> QED BY <2>1, <2>2, <2>6 DEF Fits
<1> QED BY <1>1, <1>2

LEMMA ListOf == ASSUME NEW S, NEW s \in Seq(S) PROVE IsList(s) /\ ToSet(s) \subseteq S
BY DEF IsList, ToSet

(* What FlattenSeq makes of the lists f[1], f[2] ... is a list of what they list. *)
LEMMA FlattenLists ==
    ASSUME NEW s, IsList(s), NEW f, DOMAIN f = DOMAIN s, f = [i \in DOMAIN s |-> f[i]],
           \A i \in DOMAIN s : IsList(f[i])
    PROVE  /\ IsList(FlattenSeq(f))
           /\ ToSet(FlattenSeq(f)) = UNION {ToSet(f[i]) : i \in DOMAIN s}
<1> DEFINE S == UNION {ToSet(f[i]) : i \in DOMAIN s}
<1>1. \A i \in DOMAIN s : f[i] \in Seq(S)
  <2> SUFFICES ASSUME NEW i \in DOMAIN s PROVE f[i] \in Seq(S)
    OBVIOUS
  <2>1. f[i] \in Seq(ToSet(f[i])) /\ ToSet(f[i]) \subseteq S
    BY DEF IsList
  <2> HIDE DEF S
  <2> QED BY <2>1
<1>2. Len(s) \in Nat /\ DOMAIN s = 1..Len(s)
  BY DEF IsList
<1> HIDE DEF S
<1>3. f \in Seq(Seq(S))
  BY <1>1, <1>2
<1>4. FlattenSeq(f) \in Seq(S) /\ ToSet(FlattenSeq(f)) = UNION {ToSet(f[i]) : i \in DOMAIN f}
  BY <1>3, FlattenElements
<1> QED BY <1>4, ListOf DEF S

LEMMA ConcatLists ==
    ASSUME NEW s, IsList(s), NEW t, IsList(t)
    PROVE  IsList(s \o t) /\ ToSet(s \o t) = ToSet(s) \cup ToSet(t)
<1> DEFINE S == ToSet(s) \cup ToSet(t)
<1>1. s \in Seq(S) /\ t \in Seq(S)
  <2>1. s \in Seq(ToSet(s)) /\ t \in Seq(ToSet(t)) /\ ToSet(s) \subseteq S /\ ToSet(t) \subseteq S
    BY DEF IsList
  <2> HIDE DEF S
  <2> QED BY <2>1
<1> HIDE DEF S
<1>2. s \o t \in Seq(S) /\ ToSet(s \o t) = ToSet(s) \cup ToSet(t)
  BY <1>1, ConcatElements
<1>3. IsList(s \o t)
  BY <1>2, ListOf
<1> QED BY <1>2, <1>3
------------------------------------------------------------------------------
(* The graph of a document: its edges are those of its schemas' refs, and of *)
(* its operations'.                                                          *)

IsSchemaId(id) == id[1] = "schema"

LEMMA OneEdge ==
    ASSUME NEW ref, NEW source, NEW kind, NEW label
    PROVE  /\ IsList(EdgeTo(ref, source, kind, label))
           /\ ToSet(EdgeTo(ref, source, kind, label)) =
                 IF ref = None THEN {}
                 ELSE {[source |-> source, target |-> Schema(ref), kind |-> kind, label |-> label]}
<1>1. IsList(<<>>) /\ ToSet(<<>>) = {}
  BY DEF IsList, ToSet
<1>2. ASSUME NEW e PROVE IsList(<<e>>) /\ ToSet(<<e>>) = {e}
  BY DEF IsList, ToSet
<1> QED BY <1>1, <1>2 DEF EdgeTo

LEMMA SchemaEdges ==
    ASSUME NEW doc \in Documents, NEW s \in ToSet(doc.schemas)
    PROVE  /\ IsList(CollectSchemaEdges(s))
           /\ \A e \in ToSet(CollectSchemaEdges(s)) : IsSchemaId(e.source) /\ IsSchemaId(e.target)
<1> DEFINE id == Schema(s.name)
           OfProperty(p) == IF p.ref # None THEN EdgeTo(p.ref, id, "property", p.label)
                                         ELSE EdgeTo(p.items, id, "arrayItem", p.label)
           OfPart(p) == EdgeTo(p.ref, id, "composition", p.keyword)
           ofProperties == [i \in DOMAIN s.properties |-> OfProperty(s.properties[i])]
           ofParts == [i \in DOMAIN s.parts |-> OfPart(s.parts[i])]
<1>1. CollectSchemaEdges(s) = FlattenSeq(ofProperties) \o FlattenSeq(ofParts)
  BY DEF CollectSchemaEdges, Collect
<1>2. IsList(s.properties) /\ IsList(s.parts)
  BY ListAssumption
<1>3. \A p : /\ IsList(OfProperty(p)) /\ IsList(OfPart(p))
             /\ \A e \in ToSet(OfProperty(p)) \cup ToSet(OfPart(p)) :
                   IsSchemaId(e.source) /\ IsSchemaId(e.target)
  BY OneEdge DEF IsSchemaId, Schema
<1> HIDE DEF OfProperty, OfPart
<1>4. /\ IsList(FlattenSeq(ofProperties))
      /\ ToSet(FlattenSeq(ofProperties)) = UNION {ToSet(ofProperties[i]) : i \in DOMAIN s.properties}
  BY <1>2, <1>3, FlattenLists
<1>5. /\ IsList(FlattenSeq(ofParts))
      /\ ToSet(FlattenSeq(ofParts)) = UNION {ToSet(ofParts[i]) : i \in DOMAIN s.parts}
  BY <1>2, <1>3, FlattenLists
<1>6. \A e \in ToSet(FlattenSeq(ofProperties)) \cup ToSet(FlattenSeq(ofParts)) :
         IsSchemaId(e.source) /\ IsSchemaId(e.target)
  BY <1>3, <1>4, <1>5
<1> HIDE DEF ofProperties, ofParts
<1> QED BY <1>1, <1>4, <1>5, <1>6, ConcatLists

(* A list of edges from a node to the schemas of some names. *)
LeadsTo(edges, id, names) ==
    /\ IsList(edges)
    /\ \A e \in ToSet(edges) : e.source = id /\ \E n \in names : e.target = Schema(n)
    /\ \A n \in names : \E e \in ToSet(edges) : e.source = id /\ e.target = Schema(n)

LEMMA LeadsToOne ==
    ASSUME NEW ref, NEW id, NEW kind, NEW label
    PROVE  LeadsTo(EdgeTo(ref, id, kind, label), id, {ref} \ {None})
<1> DEFINE e == [source |-> id, target |-> Schema(ref), kind |-> kind, label |-> label]
           edges == EdgeTo(ref, id, kind, label)
<1>1. IsList(edges) /\ ToSet(edges) = IF ref = None THEN {} ELSE {e}
  BY OneEdge
<1>2. e.source = id /\ e.target = Schema(ref)
  OBVIOUS
<1> HIDE DEF e, edges
<1>3. LeadsTo(edges, id, {ref} \ {None})
  BY <1>1, <1>2 DEF LeadsTo
<1> QED BY <1>3 DEF edges

LEMMA LeadsToBoth ==
    ASSUME NEW s, NEW t, NEW id, NEW M, NEW N, LeadsTo(s, id, M), LeadsTo(t, id, N)
    PROVE  LeadsTo(s \o t, id, M \cup N)
<1>1. IsList(s \o t) /\ ToSet(s \o t) = ToSet(s) \cup ToSet(t)
  BY ConcatLists DEF LeadsTo
<1> QED BY <1>1 DEF LeadsTo

LEMMA LeadsToAll ==
    ASSUME NEW s, IsList(s), NEW f, DOMAIN f = DOMAIN s, f = [i \in DOMAIN s |-> f[i]],
           NEW id, NEW N, \A i \in DOMAIN s : LeadsTo(f[i], id, N[i])
    PROVE  LeadsTo(FlattenSeq(f), id, UNION {N[i] : i \in DOMAIN s})
<1>1. \A i \in DOMAIN s : IsList(f[i])
  BY DEF LeadsTo
<1>2. IsList(FlattenSeq(f)) /\ ToSet(FlattenSeq(f)) = UNION {ToSet(f[i]) : i \in DOMAIN s}
  BY <1>1, FlattenLists
<1> QED BY <1>2 DEF LeadsTo

InContent(content) == {m.ref : m \in ToSet(content)}
                      \cup {m.items : m \in {n \in ToSet(content) : n.ref = None}}

LEMMA ContentLeadsTo ==
    ASSUME NEW content, IsList(content), NEW id, NEW kind, NEW label
    PROVE  LET refs == ContentRefs(content)
           IN  LeadsTo(FlattenSeq([i \in DOMAIN refs |-> EdgeTo(refs[i], id, kind, label)]),
                       id, InContent(content) \ {None})
<1> DEFINE refs == ContentRefs(content)
           f == [i \in DOMAIN refs |-> EdgeTo(refs[i], id, kind, label)]
           N == [i \in DOMAIN refs |-> {refs[i]} \ {None}]
<1>1. /\ Len(content) \in Nat /\ DOMAIN content = 1..Len(content)
      /\ refs = [i \in DOMAIN content |->
                    IF content[i].ref # None THEN content[i].ref ELSE content[i].items]
  BY DEF IsList, ContentRefs
<1>2. IsList(refs) /\ DOMAIN refs = DOMAIN content
  <2> DEFINE R == {refs[i] : i \in DOMAIN content}
  <2> HIDE DEF refs
  <2>1. refs \in Seq(R) /\ DOMAIN refs = DOMAIN content
    BY <1>1
  <2> QED BY <2>1, ListOf
<1>3. \A i \in DOMAIN refs : LeadsTo(f[i], id, N[i])
  BY LeadsToOne
<1>4. LeadsTo(FlattenSeq(f), id, UNION {N[i] : i \in DOMAIN refs})
  <2> HIDE DEF refs
  <2> HIDE DEF N
  <2> QED BY <1>2, <1>3, LeadsToAll
<1>5. UNION {N[i] : i \in DOMAIN refs} = InContent(content) \ {None}
  BY <1>1, <1>2 DEF InContent, ToSet
<1> HIDE DEF N
<1> QED BY <1>4, <1>5

LEMMA EndpointLeadsTo ==
    ASSUME NEW doc \in Documents, NEW o \in ToSet(doc.operations)
    PROVE  LeadsTo(CollectEndpointEdges(o), Endpoint(o), Promised(o))
<1> DEFINE id == Endpoint(o)
           Edges(content, kind, label) ==
             LET refs == ContentRefs(content)
             IN  FlattenSeq([i \in DOMAIN refs |-> EdgeTo(refs[i], id, kind, label)])
           ofResponses == [i \in DOMAIN o.responses |->
                              Edges(o.responses[i].content, "response", o.responses[i].status)]
           ofParameters == [i \in DOMAIN o.parameters |->
                              EdgeTo(o.parameters[i].ref, id, "parameter", o.parameters[i].label)]
           inResponses == [i \in DOMAIN o.responses |-> InContent(o.responses[i].content) \ {None}]
           inParameters == [i \in DOMAIN o.parameters |-> {o.parameters[i].ref} \ {None}]
           R == UNION {inResponses[i] : i \in DOMAIN o.responses}
           P == UNION {inParameters[i] : i \in DOMAIN o.parameters}
<1>1. CollectEndpointEdges(o) =
         Edges(o.body, "requestBody", None) \o FlattenSeq(ofResponses) \o FlattenSeq(ofParameters)
  BY DEF CollectEndpointEdges, Collect
<1>2. /\ IsList(o.body) /\ IsList(o.responses) /\ IsList(o.parameters)
      /\ \A r \in ToSet(o.responses) : IsList(r.content)
  BY ListAssumption
<1>3. LeadsTo(Edges(o.body, "requestBody", None), id, InContent(o.body) \ {None})
  BY <1>2, ContentLeadsTo
<1>4. \A i \in DOMAIN o.responses : LeadsTo(ofResponses[i], id, inResponses[i])
  <2> SUFFICES ASSUME NEW i \in DOMAIN o.responses
               PROVE  LeadsTo(ofResponses[i], id, inResponses[i])
    OBVIOUS
  <2>1. IsList(o.responses[i].content)
    BY <1>2 DEF ToSet
  <2> QED BY <2>1, ContentLeadsTo
<1>5. LeadsTo(FlattenSeq(ofResponses), id, R)
  <2>1. DOMAIN ofResponses = DOMAIN o.responses
        /\ ofResponses = [i \in DOMAIN o.responses |-> ofResponses[i]]
    OBVIOUS
  <2> HIDE DEF ofResponses, inResponses
  <2> QED BY <1>2, <1>4, <2>1, LeadsToAll
<1>6. LeadsTo(FlattenSeq(ofParameters), id, P)
  <2>1. \A i \in DOMAIN o.parameters : LeadsTo(ofParameters[i], id, inParameters[i])
    BY LeadsToOne
  <2>2. DOMAIN ofParameters = DOMAIN o.parameters
        /\ ofParameters = [i \in DOMAIN o.parameters |-> ofParameters[i]]
    OBVIOUS
  <2> HIDE DEF ofParameters, inParameters
  <2> QED BY <1>2, <2>1, <2>2, LeadsToAll
<1>7. Promised(o) = (InContent(o.body) \ {None}) \cup R \cup P
  <2>1. R = (UNION {InContent(r.content) : r \in ToSet(o.responses)}) \ {None}
    <3> DEFINE Of(r) == InContent(r.content)
    <3>1. R = UNION {Of(o.responses[i]) \ {None} : i \in DOMAIN o.responses}
      OBVIOUS
    <3> HIDE DEF Of, R
    <3>2. {Of(o.responses[i]) : i \in DOMAIN o.responses} = {Of(r) : r \in ToSet(o.responses)}
      BY DEF ToSet
    <3>3. R = (UNION {Of(o.responses[i]) : i \in DOMAIN o.responses}) \ {None}
      <4>1. \A x : x \in R <=> x # None /\ \E i \in DOMAIN o.responses : x \in Of(o.responses[i])
        BY <3>1
      <4> QED BY <4>1
    <3>4. R = (UNION {Of(r) : r \in ToSet(o.responses)}) \ {None}
      BY <3>2, <3>3
    <3> QED BY <3>4 DEF Of
  <2>2. P = {p.ref : p \in ToSet(o.parameters)} \ {None}
    <3>1. {p.ref : p \in ToSet(o.parameters)} = {o.parameters[i].ref : i \in DOMAIN o.parameters}
      BY DEF ToSet
    <3>2. \A x : x \in P <=> x # None /\ \E i \in DOMAIN o.parameters : x = o.parameters[i].ref
      OBVIOUS
    <3> HIDE DEF P
    <3> QED BY <3>1, <3>2
  <2>3. Promised(o) = (InContent(o.body) \cup {p.ref : p \in ToSet(o.parameters)}
                        \cup UNION {InContent(r.content) : r \in ToSet(o.responses)}) \ {None}
    BY DEF Promised, InContent
  <2> QED BY <2>1, <2>2, <2>3
<1> HIDE DEF Edges, ofResponses, ofParameters, R, P
<1>8. LeadsTo(Edges(o.body, "requestBody", None) \o FlattenSeq(ofResponses), id,
              (InContent(o.body) \ {None}) \cup R)
  BY <1>3, <1>5, LeadsToBoth
<1>9. LeadsTo(Edges(o.body, "requestBody", None) \o FlattenSeq(ofResponses)
              \o FlattenSeq(ofParameters), id, ((InContent(o.body) \ {None}) \cup R) \cup P)
  BY <1>6, <1>8, LeadsToBoth
<1> QED BY <1>1, <1>7, <1>9

(* The nodes and edges are those of the document's schemas and operations, *)
(* and none of what it mentions is left out.                               *)
GraphOf(doc, g) ==
    /\ \A n \in ToSet(g.nodes) :
          \/ \E s \in ToSet(doc.schemas) : n.id = Schema(s.name)
          \/ \E o \in ToSet(doc.operations) : IsOperation(o) /\ n.id = Endpoint(o)
    /\ IsList(g.edges)
    /\ \A e \in ToSet(g.edges) :
          \/ IsSchemaId(e.source) /\ IsSchemaId(e.target)
          \/ \E o \in ToSet(doc.operations) :
                IsOperation(o) /\ e.source = Endpoint(o) /\ \E n \in Promised(o) : e.target = Schema(n)
    /\ \A o \in ToSet(doc.operations) : IsOperation(o) =>
          \A n \in Promised(o) : \E e \in ToSet(g.edges) : e.source = Endpoint(o) /\ e.target = Schema(n)

LEMMA BuiltOf == ASSUME NEW doc \in Documents PROVE GraphOf(doc, BuildSpecGraph(doc))
<1> DEFINE g == BuildSpecGraph(doc)
           SchemaNode(s) == <<[id |-> Schema(s.name), words |-> s.words]>>
           EndpointNode(o) == IF IsOperation(o)
                              THEN <<[id |-> Endpoint(o), words |-> o.words,
                                      tags |-> o.tags, method |-> o.method]>>
                              ELSE <<>>
           EndpointEdges(o) == IF IsOperation(o) THEN CollectEndpointEdges(o) ELSE <<>>
           schemaNodes == [i \in DOMAIN doc.schemas |-> SchemaNode(doc.schemas[i])]
           endpointNodes == [i \in DOMAIN doc.operations |-> EndpointNode(doc.operations[i])]
           schemaEdges == [i \in DOMAIN doc.schemas |-> CollectSchemaEdges(doc.schemas[i])]
           endpointEdges == [i \in DOMAIN doc.operations |-> EndpointEdges(doc.operations[i])]
<1>1. /\ g.nodes = FlattenSeq(schemaNodes) \o FlattenSeq(endpointNodes)
      /\ g.edges = FlattenSeq(schemaEdges) \o FlattenSeq(endpointEdges)
  BY DEF BuildSpecGraph, Collect
<1>2. IsList(doc.schemas) /\ IsList(doc.operations)
  BY ListAssumption
<1>3. IsList(<<>>) /\ ToSet(<<>>) = {} /\ \A e : IsList(<<e>>) /\ ToSet(<<e>>) = {e}
  BY DEF IsList, ToSet
<1>4. \A s : /\ IsList(SchemaNode(s))
             /\ \A n \in ToSet(SchemaNode(s)) : n.id = Schema(s.name)
  BY <1>3
<1>5. \A o : /\ IsList(EndpointNode(o))
             /\ \A n \in ToSet(EndpointNode(o)) : IsOperation(o) /\ n.id = Endpoint(o)
  BY <1>3
<1>6. \A o \in ToSet(doc.operations) :
         /\ IsList(EndpointEdges(o))
         /\ \A e \in ToSet(EndpointEdges(o)) :
               /\ IsOperation(o) /\ e.source = Endpoint(o)
               /\ \E n \in Promised(o) : e.target = Schema(n)
         /\ IsOperation(o) => \A n \in Promised(o) :
               \E e \in ToSet(EndpointEdges(o)) : e.source = Endpoint(o) /\ e.target = Schema(n)
  BY <1>3, EndpointLeadsTo DEF LeadsTo
<1> HIDE DEF g, SchemaNode, EndpointNode, EndpointEdges
<1>7. /\ \A i \in DOMAIN doc.schemas : doc.schemas[i] \in ToSet(doc.schemas)
      /\ \A i \in DOMAIN doc.operations : doc.operations[i] \in ToSet(doc.operations)
      /\ \A o \in ToSet(doc.operations) : \E i \in DOMAIN doc.operations : o = doc.operations[i]
  BY DEF ToSet
<1>8. /\ IsList(FlattenSeq(schemaNodes))
      /\ ToSet(FlattenSeq(schemaNodes)) = UNION {ToSet(schemaNodes[i]) : i \in DOMAIN doc.schemas}
  BY <1>2, <1>4, FlattenLists
<1>9. /\ IsList(FlattenSeq(endpointNodes))
      /\ ToSet(FlattenSeq(endpointNodes)) = UNION {ToSet(endpointNodes[i]) : i \in DOMAIN doc.operations}
  BY <1>2, <1>5, FlattenLists
<1>10. /\ IsList(FlattenSeq(schemaEdges))
       /\ ToSet(FlattenSeq(schemaEdges)) = UNION {ToSet(schemaEdges[i]) : i \in DOMAIN doc.schemas}
  BY <1>2, <1>7, SchemaEdges, FlattenLists
<1>11. /\ IsList(FlattenSeq(endpointEdges))
       /\ ToSet(FlattenSeq(endpointEdges)) = UNION {ToSet(endpointEdges[i]) : i \in DOMAIN doc.operations}
  BY <1>2, <1>6, <1>7, FlattenLists
<1>12. \A n \in ToSet(g.nodes) :
         \/ \E s \in ToSet(doc.schemas) : n.id = Schema(s.name)
         \/ \E o \in ToSet(doc.operations) : IsOperation(o) /\ n.id = Endpoint(o)
  <2>1. ToSet(g.nodes) = ToSet(FlattenSeq(schemaNodes)) \cup ToSet(FlattenSeq(endpointNodes))
    BY <1>1, <1>8, <1>9, ConcatLists
  <2>2. \A n \in ToSet(FlattenSeq(schemaNodes)) : \E s \in ToSet(doc.schemas) : n.id = Schema(s.name)
    BY <1>4, <1>7, <1>8
  <2>3. \A n \in ToSet(FlattenSeq(endpointNodes)) :
           \E o \in ToSet(doc.operations) : IsOperation(o) /\ n.id = Endpoint(o)
    BY <1>5, <1>7, <1>9
  <2> QED BY <2>1, <2>2, <2>3
<1>13. IsList(g.edges)
       /\ ToSet(g.edges) = ToSet(FlattenSeq(schemaEdges)) \cup ToSet(FlattenSeq(endpointEdges))
  BY <1>1, <1>10, <1>11, ConcatLists
<1>14. \A e \in ToSet(FlattenSeq(schemaEdges)) : IsSchemaId(e.source) /\ IsSchemaId(e.target)
  BY <1>7, <1>10, SchemaEdges
<1>15. \A e \in ToSet(FlattenSeq(endpointEdges)) : \E o \in ToSet(doc.operations) :
          IsOperation(o) /\ e.source = Endpoint(o) /\ \E n \in Promised(o) : e.target = Schema(n)
  BY <1>6, <1>7, <1>11
<1>16. \A o \in ToSet(doc.operations) : IsOperation(o) => \A n \in Promised(o) :
          \E e \in ToSet(FlattenSeq(endpointEdges)) : e.source = Endpoint(o) /\ e.target = Schema(n)
  <2>1. \A o \in ToSet(doc.operations) : ToSet(EndpointEdges(o)) \subseteq ToSet(FlattenSeq(endpointEdges))
    BY <1>7, <1>11
  <2>2. ASSUME NEW o \in ToSet(doc.operations), IsOperation(o), NEW n \in Promised(o)
        PROVE  \E e \in ToSet(FlattenSeq(endpointEdges)) :
                  e.source = Endpoint(o) /\ e.target = Schema(n)
    <3>1. PICK e \in ToSet(EndpointEdges(o)) : e.source = Endpoint(o) /\ e.target = Schema(n)
      BY <1>6, <2>2
    <3> QED BY <2>1, <3>1
  <2> QED BY <2>2
<1>17. \A e \in ToSet(g.edges) :
          \/ IsSchemaId(e.source) /\ IsSchemaId(e.target)
          \/ \E o \in ToSet(doc.operations) :
                IsOperation(o) /\ e.source = Endpoint(o) /\ \E n \in Promised(o) : e.target = Schema(n)
  BY <1>13, <1>14, <1>15
<1>18. \A o \in ToSet(doc.operations) : IsOperation(o) => \A n \in Promised(o) :
          \E e \in ToSet(g.edges) : e.source = Endpoint(o) /\ e.target = Schema(n)
  BY <1>13, <1>16
<1>19. GraphOf(doc, g)
  BY <1>12, <1>13, <1>17, <1>18 DEF GraphOf
<1> QED BY <1>19 DEF g
------------------------------------------------------------------------------
(* What the filters leave of a graph. *)

KeptIds == {n.id : n \in {m \in ToSet(graph.nodes) : KeptEndpoint(m)}}

Stays(n) == KeptEndpoint(n) \/ (IsSchema(n) /\ (n.id \in Connected(graph, KeptIds) \/ Found(n)))

StayIds == {n.id : n \in {m \in ToSet(graph.nodes) : Stays(m)}}

LEMMA DrawnIds == HasFilters => Ids(Drawn.nodes) = StayIds
<1> SUFFICES ASSUME HasFilters PROVE Ids(Drawn.nodes) = StayIds
  OBVIOUS
<1>1. /\ DOMAIN Drawn.nodes = {i \in DOMAIN graph.nodes : Stays(graph.nodes[i])}
      /\ \A i \in DOMAIN Drawn.nodes : Drawn.nodes[i] = graph.nodes[i]
  BY DEF Drawn, FilteredGraph, RestrictValues, Restrict, Stays, KeptIds
<1> QED BY <1>1 DEF Ids, ToSet, StayIds

LEMMA DrawnIdsThen == (HasFilters => Ids(Drawn.nodes) = StayIds)'
BY DrawnIds, PTL

(* A link is an edge whose ends are drawn. *)
LEMMA LinksAre ==
    /\ DOMAIN Links = {i \in DOMAIN graph.edges : Ends(graph.edges[i]) \subseteq Ids(Drawn.nodes)}
    /\ \A i \in DOMAIN Links : Links[i] = graph.edges[i]
<1> DEFINE drawn == Ids(Drawn.nodes)
<1>1. /\ DOMAIN Links = {i \in DOMAIN Drawn.edges : Ends(Drawn.edges[i]) \subseteq drawn}
      /\ \A i \in DOMAIN Links : Links[i] = Drawn.edges[i]
  BY DEF Links, LinksOf, RestrictValues, Restrict
<1>2. CASE HasFilters
  <2>1. /\ DOMAIN Drawn.edges = {i \in DOMAIN graph.edges : Ends(graph.edges[i]) \subseteq StayIds}
        /\ \A i \in DOMAIN Drawn.edges : Drawn.edges[i] = graph.edges[i]
    BY <1>2 DEF Drawn, FilteredGraph, RestrictValues, Restrict, Stays, StayIds, KeptIds
  <2> QED BY <1>1, <1>2, <2>1, DrawnIds
<1>3. CASE ~HasFilters
  <2>1. Drawn = graph
    BY <1>3 DEF Drawn, FilteredGraph
  <2> QED BY <1>1, <2>1
<1> QED BY <1>2, <1>3

LEMMA IdKinds ==
    /\ \A name : IsSchemaId(Schema(name))
    /\ \A o : IsOperation(o) => ~IsSchemaId(Endpoint(o))
    /\ \A m, n : Schema(m) = Schema(n) => m = n
    /\ \A n : IsSchema(n) <=> IsSchemaId(n.id)
BY DEF IsSchemaId, Schema, Endpoint, IsOperation, HttpMethods, IsSchema

(* The graph is that of the document loaded. *)
Loaded == raw # None => raw \in Documents /\ graph = BuildSpecGraph(raw)

LEMMA LoadedFits == Loaded /\ raw # None => GraphOf(raw, graph)
BY BuiltOf DEF Loaded

LEMMA KeepsPromised == ASSUME Loaded PROVE EndpointsKeepSchemas
<1> SUFFICES ASSUME raw # None, NEW o \in DrawnOperations, NEW n \in Promised(o),
                    Schema(n) \in Ids(graph.nodes)
             PROVE  \E i \in DOMAIN Links : Ends(Links[i]) = {Endpoint(o), Schema(n)}
  BY DEF EndpointsKeepSchemas, KeepsSchemas
<1>1. o \in ToSet(raw.operations) /\ IsOperation(o) /\ Endpoint(o) \in Ids(Drawn.nodes)
  BY DEF DrawnOperations
<1>2. PICK e \in ToSet(graph.edges) : e.source = Endpoint(o) /\ e.target = Schema(n)
  BY <1>1, LoadedFits DEF GraphOf
<1>3. Ends(e) = {Endpoint(o), Schema(n)}
  BY <1>2 DEF Ends
<1>4. Schema(n) \in Ids(Drawn.nodes)
  <2>1. CASE HasFilters
    <3>1. PICK x \in ToSet(graph.nodes) : Stays(x) /\ x.id = Endpoint(o)
      BY <1>1, <2>1, DrawnIds DEF StayIds
    <3>2. Endpoint(o) \in KeptIds
      BY <1>1, <3>1, IdKinds DEF Stays, KeptIds
    <3>3. Schema(n) \in Connected(graph, KeptIds)
      BY <1>2, <1>3, <3>2 DEF Connected
    <3>4. PICK y \in ToSet(graph.nodes) : y.id = Schema(n)
      BY DEF Ids
    <3>5. Stays(y)
      BY <3>3, <3>4, IdKinds DEF Stays
    <3> QED BY <2>1, <3>4, <3>5, DrawnIds DEF StayIds
  <2>2. CASE ~HasFilters
    BY <2>2 DEF Drawn, FilteredGraph
  <2> QED BY <2>1, <2>2
<1>5. PICK i \in DOMAIN graph.edges : graph.edges[i] = e
  BY DEF ToSet
<1> QED BY <1>1, <1>3, <1>4, <1>5, LinksAre

LEMMA KeepsRelated == ASSUME Loaded PROVE SchemasRelated
<1> SUFFICES ASSUME raw # None, HasFilters, query = None, NEW s \in ToSet(raw.schemas),
                    Schema(s.name) \in Ids(Drawn.nodes)
             PROVE  \E o \in DrawnOperations : s.name \in Mentioned(o)
  BY DEF SchemasRelated
<1>1. PICK x \in ToSet(graph.nodes) : Stays(x) /\ x.id = Schema(s.name)
  BY DrawnIds DEF StayIds
<1>2. Schema(s.name) \in Connected(graph, KeptIds)
  BY <1>1, IdKinds DEF Stays, KeptEndpoint, Found
<1>3. PICK e \in ToSet(graph.edges) : Ends(e) \cap KeptIds # {} /\ Schema(s.name) \in Ends(e)
  BY <1>2 DEF Connected
<1>4. \A id \in KeptIds : ~IsSchemaId(id) /\ id \in Ids(Drawn.nodes)
  BY DrawnIds, IdKinds DEF KeptIds, KeptEndpoint, Stays, StayIds
<1>5. PICK o \in ToSet(raw.operations) :
         IsOperation(o) /\ e.source = Endpoint(o) /\ \E n \in Promised(o) : e.target = Schema(n)
  <2>1. ~(IsSchemaId(e.source) /\ IsSchemaId(e.target))
    BY <1>3, <1>4 DEF Ends
  <2> QED BY <2>1, LoadedFits DEF GraphOf
<1>6. PICK n \in Promised(o) : e.target = Schema(n)
  BY <1>5
<1>7. Ends(e) = {Endpoint(o), Schema(n)}
  BY <1>5, <1>6 DEF Ends
<1>8. Endpoint(o) \in Ids(Drawn.nodes)
  BY <1>3, <1>4, <1>7, IdKinds
<1>9. s.name = n
  BY <1>3, <1>5, <1>7, IdKinds
<1>10. Promised(o) \subseteq Mentioned(o)
  BY DEF Mentioned
<1> QED BY <1>5, <1>6, <1>8, <1>9, <1>10 DEF DrawnOperations

(* Parallel links are numbered one after the other. *)
LEMMA LinksApart == ASSUME Loaded, raw = None => graph = NoGraph PROVE ParallelLinksApart
<1> SUFFICES ASSUME NEW i \in DOMAIN Links, NEW j \in DOMAIN Links, i < j,
                    Links[i].source = Links[j].source, Links[i].target = Links[j].target
             PROVE  CurveOffset(Links, i) # CurveOffset(Links, j)
  BY DEF ParallelLinksApart
<1>1. IsList(graph.edges)
  <2>1. IsList(<<>>)
    BY DEF IsList
  <2> QED BY <2>1, LoadedFits DEF GraphOf, NoGraph
<1>2. DOMAIN Links \subseteq 1..Len(graph.edges) /\ Len(graph.edges) \in Nat
  BY <1>1, LinksAre DEF IsList
<1> DEFINE P == Parallel(Links, i)
           Before(k) == {x \in P : x < k}
<1>3. P = Parallel(Links, j) /\ i \in P /\ P \subseteq 1..Len(graph.edges)
  BY <1>2 DEF Parallel, Ends
<1>4. IsFiniteSet(P) /\ Cardinality(P) \in Nat
  <2>1. IsFiniteSet(1..Len(graph.edges))
    <3> DEFINE n == Len(graph.edges)
    <3>1. 1 \in Int /\ n \in Int
      BY <1>2
    <3> HIDE DEF n
    <3>2. IsFiniteSet(1..n)
      BY <3>1, FS_Interval
    <3> QED BY <3>2 DEF n
  <2>2. IsFiniteSet(P)
    BY <1>3, <2>1, FS_Subset
  <2> QED BY <2>2, FS_CardinalityType
<1>5. Before(i) \subseteq Before(j) /\ Before(i) # Before(j) /\ Before(j) \subseteq P
  BY <1>2, <1>3
<1>6. CurveOffset(Links, i) = 2 * Cardinality(Before(i)) - (Cardinality(P) - 1)
  BY DEF CurveOffset
<1>7. CurveOffset(Links, j) = 2 * Cardinality(Before(j)) - (Cardinality(P) - 1)
  BY <1>3 DEF CurveOffset
<1> HIDE DEF P, Before
<1>8. /\ Cardinality(Before(i)) \in Nat /\ Cardinality(Before(j)) \in Nat
      /\ Cardinality(Before(i)) < Cardinality(Before(j))
  <2>1. IsFiniteSet(Before(j))
    BY <1>4, <1>5, FS_Subset
  <2>2. IsFiniteSet(Before(i)) /\ Cardinality(Before(i)) <= Cardinality(Before(j))
        /\ Cardinality(Before(i)) # Cardinality(Before(j))
    BY <1>5, <2>1, FS_Subset
  <2> QED BY <2>1, <2>2, FS_CardinalityType
<1> QED BY <1>4, <1>6, <1>7, <1>8

ViewInv == Loaded /\ (raw = None => graph = NoGraph)

LEMMA ViewInit == CanvasInit => ViewInv
BY DEF CanvasInit, Init, ViewInv, Loaded

(* Only a tab that is opened gets a graph, and its document with it. *)
LEMMA GraphSteps ==
    ASSUME [CanvasNext]_canvasSpecVars
    PROVE  \/ raw = None /\ raw' \in Documents /\ graph' = BuildSpecGraph(raw')
           \/ UNCHANGED <<raw, graph>>
<1>1. CASE Opened
  BY <1>1 DEF Opened, Load
<1>2. CASE Filtered
  BY <1>2 DEF Filtered, Filter, Search, ToggleTag, ToggleMethod, ClearFilters
<1>3. CASE (\E kind \in Layouts : SetLayout(kind)) \/ Render \/ DragStep \/ GestureStep \/ GlideStep
           \/ (\E id \in Ids(canvas.graph.nodes) : Drag(id)) \/ UNCHANGED canvasSpecVars
  BY <1>3, ZoomStepKeeps DEF SetLayout, Render, DragStep, DragStart, DragEnd, Settle, ZoomStep,
                             Drag, vars, canvasSpecVars
<1>4. CASE \E id \in Ids(canvas.graph.nodes) : ClickDrawn(id)
  BY <1>4 DEF ClickDrawn, Click
<1>5. CASE \E id \in Offered : Navigate(id)
  BY <1>5 DEF Navigate, NavigateTo
<1> QED BY <1>1, <1>2, <1>3, <1>4, <1>5, StepKinds DEF TabStep

LEMMA ViewNext == ViewInv /\ [CanvasNext]_canvasSpecVars => ViewInv'
BY GraphSteps, ViewAssumption DEF ViewInv, Loaded

LEMMA ViewAlways == CanvasSpec => []ViewInv
BY ViewInit, ViewNext, PTL DEF CanvasSpec, canvasSpecVars

(* Whatever is filtered, an endpoint that filteredGraph keeps is drawn with   *)
(* all the declared schemas that its bodies and responses name by $ref or as  *)
(* the items of an array, and its parameters by $ref; and, without a search,  *)
(* no schema is drawn that none of them refers to in any form.                *)
THEOREM FilteringKeepsRelated == CanvasSpec => []FilterKeepsRelated
<1>1. ViewInv => FilterKeepsRelated
  BY KeepsPromised, KeepsRelated DEF ViewInv, FilterKeepsRelated
<1> QED BY <1>1, ViewAlways, PTL

(* However many references lead from one node to another, initGraph curves *)
(* each of their links by an offset of its own.                            *)
THEOREM LinksNeverCover == CanvasSpec => []ParallelLinksApart
<1>1. ViewInv => ParallelLinksApart
  BY LinksApart DEF ViewInv
<1> QED BY <1>1, ViewAlways, PTL

(* Tags widen each other in filteredGraph, schemas that are drawn because of *)
(* an endpoint included: one more tag never hides a node.                    *)
THEOREM TagsWidenEachOther == CanvasSpec => MoreTagsDrawMore
<1> DEFINE Widened == tags # {} /\ tags # tags' /\ tags \subseteq tags'
                      /\ UNCHANGED <<raw, query, methods>>
           A == Widened => Ids(Drawn.nodes) \subseteq Ids(Drawn.nodes)'
<1>1. ASSUME [CanvasNext]_canvasSpecVars PROVE A
  <2> SUFFICES ASSUME Widened PROVE Ids(Drawn.nodes) \subseteq Ids(Drawn.nodes)'
    OBVIOUS
  <2>1. graph' = graph
    BY <1>1, GraphSteps, ViewAssumption
  <2>2. HasFilters /\ HasFilters'
    BY DEF HasFilters
  <2>3. Ids(Drawn.nodes) = StayIds /\ Ids(Drawn.nodes)' = StayIds'
    <3>1. HasFilters => Ids(Drawn.nodes) = StayIds
      BY DrawnIds
    <3>2. (HasFilters => Ids(Drawn.nodes) = StayIds)'
      BY <2>1, <2>2, DrawnIdsThen
    <3> QED BY <2>2, <3>1, <3>2
  <2>4. \A n : KeptEndpoint(n) => KeptEndpoint(n)'
    BY DEF KeptEndpoint, WithTags, Found
  <2>5. KeptIds \subseteq KeptIds'
    BY <2>1, <2>4 DEF KeptIds
  <2>6. Connected(graph, KeptIds) \subseteq Connected(graph, KeptIds)'
    BY <2>1, <2>5 DEF Connected
  <2>7. \A n : Stays(n) => Stays(n)'
    BY <2>4, <2>6 DEF Stays, Found
  <2>8. StayIds \subseteq StayIds'
    BY <2>1, <2>7 DEF StayIds
  <2> QED BY <2>3, <2>8
<1> HIDE DEF A
<1>2. CanvasSpec => [][A]_vars
  BY <1>1, PTL DEF CanvasSpec, canvasSpecVars
<1> QED BY <1>2 DEF MoreTagsDrawMore, A

==============================================================================
