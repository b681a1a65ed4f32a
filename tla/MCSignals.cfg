CONSTANTS
    Sig = {usr, abrt}
    Fatal = {abrt}
    Point = {entry, point}
    Entry = entry
    Zero = zero
    STACK = 3
    MaxFrames = 4
SPECIFICATION Spec
INVARIANTS
    ResumesInterrupted
