SPECIFICATION CanvasSpec
CONSTANTS
    A = A
    B = B
    X = X
    p1 = p1
    p2 = p2
    q = q
    t1 = t1
    t2 = t2
    path = path
    None = None
    MaxTurns = 3
    Searches = {q}
    Buttons = {"GET", "POST", "PUT"}
    Documents <- MCDocuments
INVARIANTS
    SelectionInGraph
    FilterKeepsRelated
    ParallelLinksApart
    ShowsFiltered
    LinksMeetNodes
    TransformShown
    SimulationFollows
PROPERTIES
    MoreTagsDrawMore
    Settles
CHECK_DEADLOCK FALSE
