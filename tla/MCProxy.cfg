SPECIFICATION ProxySpec
CONSTANTS
    a = a
    x = x
    p = p
    r1 = r1
    r2 = r2
    r3 = r3
    r4 = r4
    i1 = i1
    Names <- MCNames
    Kind <- MCKind
    Literal <- MCLiteral
    Requests = {r1, r2, r3, r4}
    Ids = {i1}
    Documents <- MCDocuments
    Edits <- MCEdits
    Targets <- MCTargets
    MaxRestarts = 0
    None = None
    Redirects = {}
    Addrs = {p}
    Private = {}
    MaxVia = 1
    MaxBytes = 0
    MaxLength = 0
    TokenTime = 1
    Burst = 1
    NoBucket = NoBucket
    MaxTime = 1
SYMMETRY Symmetry
INVARIANTS
    ContactsVouched
    CallsTakeTokens
    ReachedWithinRate
CHECK_DEADLOCK FALSE
