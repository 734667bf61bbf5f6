SPECIFICATION Spec
CONSTANTS
    own = own
    d1 = d1
    d2 = d2
    first = first
    second = second
    h1 = h1
    h2 = h2
    h3 = h3
    Docs = {own, d1, d2}
    Blank = Blank
    Demos = {first, second}
    DemoText <- MCDemoText
    None = None
    Calls = {h1, h2, h3}
    MaxMounts = 2
SYMMETRY Symmetry
INVARIANTS
    LoadingIffUploading
    UndisturbedSummaryFits
    SettledDemoShown
