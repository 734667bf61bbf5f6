SPECIFICATION Spec
CONSTANTS
    s1 = s1
    s2 = s2
    u1 = u1
    u2 = u2
    bad = bad
    None = None
    Specs = {s1, s2}
    Urls = {u1, u2, bad}
    Malformed = {bad}
    Endpoint <- MCEndpoint
    Approvals = {k1, k2}
    MaxClicks = 2
    MaxSends = 3
INVARIANT RetrySendsTheClick
