CONSTANTS
    dir = dir
    inside = inside
    other = other
    Name = {dir, inside, other}
    Below <- Paths
    HostFiles = {inside}
    HostDirs = {dir}
    Data = {written}
    Empty = empty
    Nothing = nothing
    MaxFd = 2
    MaxRefs = 3
SPECIFICATION Spec
INVARIANTS
    GoneStaysGone
    HandlesFollowNames
VIEW View
CONSTRAINT FewRefs
PROPERTY ImplementsNames
