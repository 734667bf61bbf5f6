SPECIFICATION Spec
CONSTANTS
    Specs = {s1, s2, s3}
    None = None
    MaxTabs = 2
    Approvals = {k1}
    MaxMade = 3
SYMMETRY Symmetry
INVARIANT ActiveTabShown
INVARIANT LoadingIffAsked
INVARIANT ShownWasGranted
PROPERTY ApprovalStays
