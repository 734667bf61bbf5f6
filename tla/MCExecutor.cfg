SPECIFICATION FairSpec
CONSTANTS
    a = a
    b = b
    x = x
    lo = lo
    p = p
    q = q
    c1 = c1
    c2 = c2
    Calls = {c1, c2}
    Names <- MCNames
    Kind <- MCKind
    Literal <- MCLiteral
    Inputs <- MCInputs
    Redirects <- MCRedirects
    Addrs = {p, q}
    Private = {q}
    None = None
    MaxVia = 2
    MaxBytes = 1
    MaxLength = 2
INVARIANT OnlyPublicContacted
INVARIANT BodyWithinCap
PROPERTY CallsRunDown
PROPERTY EveryCallEnds
PROPERTY ImplementsProxyCall
