SPECIFICATION Spec
CONSTANTS
    a = a
    b = b
    c = c
    x = x
    Names <- MCNames
    Kind <- MCKind
    r1 = r1
    r2 = r2
    r3 = r3
    r4 = r4
    i1 = i1
    i2 = i2
    Requests = {r1, r2, r3}
    Ids = {i1, i2}
    Documents <- MCDocuments
    Edits <- MCEdits
    Targets <- MCTargets
    MaxRestarts = 1
    None = None
SYMMETRY Symmetry
INVARIANTS
    OnlyApprovedHostsCalled
CHECK_DEADLOCK FALSE
