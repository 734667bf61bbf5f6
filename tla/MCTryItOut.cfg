SPECIFICATION FormSpec
CONSTANTS
    MaxSends = 3
    Endpoints <- MCEndpoints
    Urls = {"u"}
    None = None
    MaxItems = 2
    MaxTurns = 6
INVARIANT EntriesPaired
INVARIANT NewestFirst
INVARIANT SelectionInHistory
INVARIANT LoadingHasFlight
INVARIANT RequestFits
INVARIANT BodyAsShown
CHECK_DEADLOCK FALSE
