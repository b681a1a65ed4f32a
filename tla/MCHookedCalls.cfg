CONSTANTS
    Hooks = {h1, h2, h3}
    GotSeq <- TwoGots
    NoHandler = NoHandler
    MAX_SLOTS = 7
    MaxDepth = 3
    MaxStale = 3
SPECIFICATION HooksSpec
SYMMETRY AnyHook
VIEW Looked
CONSTRAINT FewStale
INVARIANTS
    ReturnsToCaller
    FaultOnlyIfTorn
    CallsCompose
    SlotsOwned
    EntriesAgree
PROPERTIES
    FailureLeavesNothing
