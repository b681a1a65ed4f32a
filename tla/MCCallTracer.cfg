CONSTANTS
    Items = 2
    MaxDepth = 3
    MaxCalls = 3
    MaxBegun = 2
    MaxOpen = 2
SPECIFICATION CSpec
INVARIANTS
    IterationsApart
    ValuesMatch
    CallsAccounted
PROPERTIES
    IterationsEnd
