----------------------------- MODULE GraphCanvas -----------------------------
(***************************************************************************)
(* The canvas a tab's graph is drawn on.  Angular draws the page some time  *)
(* after the state has changed (Render); the canvas is replaced when the    *)
(* layout changes and is else given the graph anew, if that is another      *)
(* object.  Between two such steps the user drags nodes, pans and zooms,    *)
(* and the timers of simulations and of zoom transitions run.               *)
(*                                                                         *)
(* d3-zoom keeps two things at the svg, which outlives its drawings: the    *)
(* transform (__zoom), and, while one is under way, a gesture (__zooming)   *)
(* that moves the drawing whose zoom behaviour it began with.  Whatever      *)
(* else moves the svg meanwhile does so by that gesture.  A user has one     *)
(* such gesture under way at a time here: a pointer's, or the wheel's until  *)
(* it has been still for a while.                                            *)
(*                                                                         *)
(* Positions are counts of drags and transforms are named; sizes, curves    *)
(* and colours are left out.  What the steps of a simulation compute is not *)
(* modelled: each redraws every node, link and label from the positions.    *)
(***************************************************************************)
EXTENDS SpecView

CONSTANT MaxTurns   \* what the user does before a run of the model ends

VARIABLES
    layout,
    canvas,    \* [kind, graph, whole]: the component, the graph it drew, and
               \*   whether that is the tab's own and not a filtered copy
    due,       \* the page is to be drawn again
    picture,   \* [place, routed, path, label]: what the structured canvas drew
    zoom,      \* [svg, root, glide, gesture, lost]: the svg's own transform,
               \*   the drawing's, the transition to another, the gesture under
               \*   way, and whether the drawing's fit went to the one before it
    made,      \* the simulations made so far
    born,      \* those made before this canvas
    own,       \* the simulation field of the canvas, or 0
    ticking,   \* the simulations whose timer runs
    warm,      \* the ones with an alphaTarget above 0
    held,      \* [sim, node]: the drags under way on interactive canvases
    turns

simVars == <<made, born, own, ticking, warm, held>>

drawingVars == <<picture, zoom, simVars>>

canvasVars == <<layout, canvas, due, drawingVars>>

Layouts == {"structured", "interactive"}

Transforms == {"identity", "fit", "moved"}

ASSUME CanvasAssumption == None \notin Layouts \cup Transforms

NoCanvas == [kind |-> None, graph |-> NoGraph, whole |-> FALSE]

NoGlide == [to |-> None, live |-> FALSE]

(* What a gesture is under way for: the user's hand, a transition, or both; *)
(* `live' says that it moves the drawing that is shown.                     *)
NoGesture == [by |-> {}, live |-> FALSE]

NoZoom == [svg |-> None, root |-> None, glide |-> NoGlide, gesture |-> NoGesture, lost |-> FALSE]
------------------------------------------------------------------------------
(* Slips the runs must notice, each a variant of a definition below. *)
FilteredBefore(view) == view.whole
Outgoing(links, id) == {i \in DOMAIN links : links[i].source = id}
Unfitted(z) == [z EXCEPT !.svg = IF z.svg = None THEN "identity" ELSE z.svg,
                         !.root = "identity", !.glide = NoGlide, !.gesture = NoGesture]
AnyRelease(sim, hold) == warm \ {sim}
NeverCools(sim, hold) == warm
------------------------------------------------------------------------------
(* initGraph of the structured canvas. *)
Touching(links, id) == {i \in DOMAIN links : id \in Ends(links[i])}

(* buildPathPoints: where a link begins and ends, by dagre's points while it *)
(* has them and by its nodes from then on.                                   *)
PathPoints(place, routed, links, i) ==
    IF i \in routed THEN <<0, 0>> ELSE <<place[links[i].source], place[links[i].target]>>

Labelled(links) == {i \in DOMAIN links : links[i].label # None}

Pictured(place, routed, links) ==
    [place |-> place,
     routed |-> routed,
     path |-> [i \in DOMAIN links |-> PathPoints(place, routed, links, i)],
     label |-> [i \in Labelled(links) |-> PathPoints(place, routed, links, i)]]

(* buildSimNodes: a node for each of the graph's, where dagre puts it. *)
SimNodes(g) == [id \in Ids(g.nodes) |-> 0]

LaidOut(g) == LET links == LinksOf(g) IN Pictured(SimNodes(g), DOMAIN links, links)

Nothing == Pictured(<<>>, {}, <<>>)

(* The svg moves to t, and what is drawn does if the gesture is one of it. *)
Moved(z, t) ==
    IF z.gesture.live THEN [z EXCEPT !.svg = t, !.root = t, !.lost = FALSE]
                      ELSE [z EXCEPT !.svg = t]

LeftBy(gesture, who) == IF gesture.by \subseteq {who} THEN NoGesture
                        ELSE [gesture EXCEPT !.by = @ \ {who}]

(* interrupt: a transition ends where it is. *)
Interrupted(z) == [z EXCEPT !.glide = NoGlide, !.gesture = LeftBy(@, "glide")]

(* setupZoom: d3 keeps the transform the svg has, and a transition or gesture *)
(* goes on with the drawing that was removed.                                 *)
SetUp(z) == [svg |-> IF z.svg = None THEN "identity" ELSE z.svg,
             root |-> "identity",
             glide |-> [z.glide EXCEPT !.live = FALSE],
             gesture |-> [z.gesture EXCEPT !.live = FALSE],
             lost |-> FALSE]

(* zoom.transform after setupZoom: by the gesture that is under way, and so   *)
(* to the drawing before, or else by one of its own.                          *)
Fitted(z) ==
    LET new == Interrupted(SetUp(z))
    IN  IF new.gesture.by # {} THEN [new EXCEPT !.svg = "fit", !.lost = TRUE]
                               ELSE [new EXCEPT !.svg = "fit", !.root = "fit"]

Blank(g) == g.nodes = <<>>

(* The early return: the drawing is gone, the svg keeps its transform. *)
Cleared(z) == [z EXCEPT !.root = None, !.glide.live = FALSE, !.gesture.live = FALSE, !.lost = FALSE]

(* initGraph's first step: the simulation it made before is stopped. *)
Stopped(sim) == ticking \ {sim}

DrawStructured(g, z) ==
    /\ picture' = IF Blank(g) THEN Nothing ELSE LaidOut(g)
    /\ zoom' = IF Blank(g) THEN Cleared(z) ELSE Fitted(z)
    /\ own' = 0
    /\ UNCHANGED <<made, ticking>>

DrawInteractive(g, z, mine) ==
    LET next == made + 1
        rest == Stopped(mine)
    IN  /\ picture' = Nothing
        /\ IF Blank(g)
           THEN /\ zoom' = Cleared(z)
                /\ own' = 0
                /\ ticking' = rest
                /\ UNCHANGED made
           ELSE /\ zoom' = SetUp(z)
                /\ own' = next
                /\ ticking' = rest \cup {next}
                /\ made' = next

Draw(g, z, mine) ==
    /\ canvas' = [kind |-> layout, graph |-> g, whole |-> ~HasFilters]
    /\ \/ layout = "structured" /\ DrawStructured(g, z)
       \/ layout = "interactive" /\ DrawInteractive(g, z, mine)

(* The input is the object it was: without filters, filteredGraph returns the *)
(* tab's graph itself, and with any it makes a new object each time.          *)
SameInput(view) == view.whole /\ ~HasFilters
------------------------------------------------------------------------------
Turn == turns < MaxTurns /\ turns' = turns + 1

CanvasInit ==
    /\ Init
    /\ layout = "interactive"
    /\ canvas = NoCanvas
    /\ due = FALSE
    /\ picture = Nothing
    /\ zoom = NoZoom
    /\ made = 0 /\ born = 0 /\ own = 0
    /\ ticking = {} /\ warm = {} /\ held = {}
    /\ turns = 0

Opened == /\ Load
          /\ due' = TRUE
          /\ UNCHANGED <<layout, canvas, drawingVars, turns>>

Filtered == /\ Turn
            /\ Filter
            /\ due' = TRUE
            /\ UNCHANGED <<layout, canvas, drawingVars>>

SetLayout(kind) ==
    /\ Turn
    /\ raw # None
    /\ layout # kind
    /\ layout' = kind
    /\ due' = TRUE
    /\ UNCHANGED <<vars, canvas, drawingVars>>

(* A node of the canvas, or of the list beneath it, that was drawn last. *)
ClickDrawn(id) == Turn /\ Click(id) /\ UNCHANGED canvasVars

Navigate(id) == Turn /\ NavigateTo(id) /\ UNCHANGED canvasVars

(* The page is drawn: another layout's canvas replaces this one, and it then  *)
(* draws once (afterNextRender); else the effect draws if the graph is new.   *)
(* One evaluation of filteredGraph gives the object that is drawn.            *)
Render ==
    /\ due
    /\ due' = FALSE
    /\ \/ /\ canvas.kind # layout
          /\ \E g \in {Drawn} : Draw(g, NoZoom, 0)
          /\ born' = made
       \/ /\ canvas.kind = layout /\ ~SameInput(canvas)
          /\ \E g \in {Drawn} : Draw(g, zoom, own)
          /\ UNCHANGED born
       \/ canvas.kind = layout /\ SameInput(canvas) /\ UNCHANGED <<canvas, drawingVars>>
    /\ UNCHANGED <<vars, layout, warm, held, turns>>

(* One drag event on the structured canvas. *)
Drag(id) ==
    LET links == LinksOf(canvas.graph)
        touched == Touching(links, id)
        place == [picture.place EXCEPT ![id] = @ + 1]
        routed == picture.routed \ touched
        Redrawn(f) == [i \in DOMAIN f |-> IF i \in touched
                                          THEN PathPoints(place, routed, links, i) ELSE f[i]]
    IN  /\ Turn
        /\ canvas.kind = "structured"
        /\ picture' = [place |-> place, routed |-> routed,
                       path |-> Redrawn(picture.path), label |-> Redrawn(picture.label)]
        /\ UNCHANGED <<vars, layout, canvas, due, zoom, simVars>>

(* event.active: the drags of the same canvas drawing that are under way. *)
Active(sim) == {h \in held : h.sim = sim}

(* A pointer takes a node of the interactive canvas. *)
DragStart(id) ==
    LET hold == [sim |-> own, node |-> id]
    IN  /\ Turn
        /\ canvas.kind = "interactive"
        /\ hold \notin held
        /\ held' = held \cup {hold}
        /\ IF Active(own) = {}
           THEN warm' = warm \cup {own} /\ ticking' = ticking \cup {own}
           ELSE UNCHANGED <<warm, ticking>>
        /\ UNCHANGED <<vars, layout, canvas, due, picture, zoom, made, born, own>>

(* The last of them leaves its simulation to cool down. *)
Cooled(sim, hold) == IF Active(sim) = {hold} THEN warm \ {sim} ELSE warm

(* A pointer lets go, be its canvas still there or not. *)
DragEnd(hold) ==
    /\ held' = held \ {hold}
    /\ warm' = Cooled(hold.sim, hold)
    /\ UNCHANGED <<vars, layout, canvas, due, picture, zoom, made, born, own, ticking, turns>>

(* Cold enough, a simulation stops its timer. *)
Settle(sim) ==
    /\ sim \notin warm
    /\ ticking' = ticking \ {sim}
    /\ UNCHANGED <<vars, layout, canvas, due, picture, zoom, made, born, own, warm, held, turns>>

ZoomStep == zoom.svg # None /\ UNCHANGED <<vars, layout, canvas, due, picture, simVars>>

Held == "hand" \in zoom.gesture.by

(* The user's gesture begins: a transition is interrupted. *)
Taken(live) == [Interrupted(zoom) EXCEPT !.gesture = [by |-> {"hand"}, live |-> live]]

(* A pointer takes the background: always a gesture of the zoom behaviour *)
(* that is set up.                                                        *)
Grab ==
    /\ ZoomStep /\ Turn
    /\ ~Held
    /\ zoom' = Taken(zoom.root # None)

(* The wheel takes the gesture of the transition it interrupts, if one has *)
(* begun, and moves at once.                                               *)
Wheel ==
    /\ ZoomStep /\ Turn
    /\ ~Held
    /\ zoom' = Moved(Taken(IF zoom.gesture.by = {} THEN zoom.root # None
                                                  ELSE zoom.gesture.live), "moved")

(* The pointer moves, or the wheel does once more. *)
Pan ==
    /\ ZoomStep
    /\ Held
    /\ zoom' = Moved(zoom, "moved")
    /\ UNCHANGED turns

(* The pointer lets go, or the wheel has been still. *)
Release ==
    /\ ZoomStep
    /\ Held
    /\ zoom' = [zoom EXCEPT !.gesture = LeftBy(@, "hand")]
    /\ UNCHANGED turns

(* The buttons, or a double click: a transition is scheduled, by the zoom      *)
(* behaviour that is set up.                                                   *)
Zoom(to) ==
    /\ ZoomStep /\ Turn
    /\ zoom' = [Interrupted(zoom) EXCEPT !.glide = [to |-> to, live |-> zoom.root # None]]

OnZoomIn == Zoom("moved")
OnZoomOut == Zoom("moved")
OnResetZoom == Zoom("identity")

Gliding == "glide" \in zoom.gesture.by

(* It begins, by the gesture that is under way or one of its own, ... *)
GlideStart ==
    LET gesture == [by |-> zoom.gesture.by \cup {"glide"},
                    live |-> IF Held THEN zoom.gesture.live ELSE zoom.glide.live]
    IN  /\ ZoomStep
        /\ zoom.glide # NoGlide /\ ~Gliding
        /\ zoom' = Moved([zoom EXCEPT !.gesture = gesture], "moved")
        /\ UNCHANGED turns

(* ... and arrives. *)
GlideEnd ==
    /\ ZoomStep
    /\ Gliding
    /\ zoom' = Interrupted(Moved(zoom, zoom.glide.to))
    /\ UNCHANGED turns

CanvasNext ==
    \/ Opened
    \/ Filtered
    \/ \E kind \in Layouts : SetLayout(kind)
    \/ \E id \in Ids(canvas.graph.nodes) : ClickDrawn(id) \/ Drag(id) \/ DragStart(id)
    \/ \E id \in Offered : Navigate(id)
    \/ Render
    \/ \E hold \in held : DragEnd(hold)
    \/ \E sim \in ticking : Settle(sim)
    \/ Grab \/ Wheel \/ Pan \/ Release
    \/ OnZoomIn \/ OnZoomOut \/ OnResetZoom
    \/ GlideStart \/ GlideEnd

(* Timers fire, the page is drawn, and no pointer holds a node for ever. *)
CanvasSpec ==
    /\ CanvasInit
    /\ [][CanvasNext]_<<vars, canvasVars, turns>>
    /\ WF_<<vars, canvasVars, turns>>(Render)
    /\ WF_<<vars, canvasVars, turns>>(\E sim \in ticking : Settle(sim))
    /\ WF_<<vars, canvasVars, turns>>(\E hold \in held : DragEnd(hold))
------------------------------------------------------------------------------
(* What is drawn has a root to be moved by, and the picture is of the graph  *)
(* the canvas was given.                                                     *)
CanvasTypeOK ==
    /\ TypeOK
    /\ layout \in Layouts /\ canvas.kind \in Layouts \cup {None}
    /\ zoom.svg \in Transforms \cup {None} /\ zoom.root \in Transforms \cup {None}
    /\ (zoom.root = None) = (canvas.graph.nodes = <<>>)
    /\ zoom.gesture.by \subseteq {"hand", "glide"} /\ (Gliding => zoom.glide # NoGlide)
    /\ canvas.kind = "structured" => DOMAIN picture.place = Ids(canvas.graph.nodes)
    /\ own <= made /\ ticking \cup warm \subseteq 1..made
    /\ \A h \in held : h.sim \in 1..made

(* Unless the page is yet to be drawn, the canvas is the one of the chosen    *)
(* layout and shows what the filters leave.                                  *)
ShowsFiltered == ~due /\ raw # None => canvas.kind = layout /\ canvas.graph = Drawn

(* However nodes are dragged on the structured canvas, its links and their   *)
(* labels run between the places where their nodes are.                       *)
LinksMeetNodes ==
    LET links == LinksOf(canvas.graph)
        Meets(f) == \A i \in DOMAIN f :
                       f[i] = <<picture.place[links[i].source], picture.place[links[i].target]>>
    IN  canvas.kind = "structured" => Meets(picture.path) /\ Meets(picture.label)

(* The structured canvas is drawn where the next gesture will take it to be, *)
(* though the svg outlives every drawing, its gestures and its transitions.   *)
(* Excepted is a drawing made while the user's gesture was under way, until   *)
(* one of its own moves it: its fit went to the drawing before, and it is     *)
(* shown as it was laid out.                                                  *)
TransformShown ==
    canvas.kind = "structured" /\ zoom.root # None =>
        IF zoom.lost THEN zoom.root = "identity" ELSE zoom.svg = zoom.root

(* A canvas that was drawn again runs no simulation but the last. *)
OneSimulation == \A sim \in ticking : sim > born => sim = own

(* A simulation follows its nodes as long as one of them is held, by any of  *)
(* several pointers, and is let cool as soon as none is.                     *)
WarmWhileHeld ==
    /\ Active(own) # {} => own \in ticking \cap warm
    /\ \A sim \in warm : Active(sim) # {}

(* However often the interactive canvas draws and whoever holds its nodes, the *)
(* last simulation runs alone, and is hot exactly while it is needed.          *)
SimulationFollows == OneSimulation /\ WarmWhileHeld

(* Every simulation stops at last, those of canvases that are gone as well.  *)
Settles == <>[](ticking = {})
==============================================================================
