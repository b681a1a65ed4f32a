CONSTANTS
    Hooks = {h1, h2, h3}
    GotSeq <- OneGot
    NoHandler = NoHandler
    MAX_SLOTS = 4
    MaxDepth = 3
    MaxStale = 2
SPECIFICATION HooksSpec
SYMMETRY AnyHook
VIEW Looked
CONSTRAINT FewStale
INVARIANTS
    CallOriginalIsHonoured
