CONSTANTS
    PAGE = 2
    HEAP_BASE = 2
    MMAP_BASE = 4
    LIB_BASE = 8
    RETURN_SENTINEL = 12
    LIMIT = 12
    RW = RW
    Unmapped = Unmapped
    Perms = {RX, RW}
    Requests = {1, 3}
    Targets = {2, 5, 6}
    MaxRegions = 2
    ALIGN = 2
    BASE = 2
    ARENA = 14
    Alignments = {1, 4, 8}
    MaxSize = 5
SPECIFICATION MemorySpec
CONSTRAINT FewRegions
INVARIANTS
    RegionsDisjoint
    RegionsMatchBackend
    HoleIsFree
    CursorsMoveOn
    Tiled
    Coalesced
    NullOnlyWhenFull
    WholeWhenEmpty
PROPERTIES
    ImplementsAddressSpace
    ImplementsHeap
