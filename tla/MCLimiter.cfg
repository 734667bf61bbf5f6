SPECIFICATION Spec
CONSTANTS
    Hosts = {h1, h2}
    TokenTime = 2
    Burst = 2
    NoBucket = NoBucket
    MaxTime = 6
INVARIANTS
    WindowBound
PROPERTIES
    ImplementsRateLimit
