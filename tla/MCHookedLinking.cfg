CONSTANTS
    a = a  b = b  s = s
    Libs = {a, b}
    Syms = {s}
    Disks <- TwoLibs
    Nobody = Nobody  Poison = Poison  Host = Host
    Trampoline = Trampoline
SPECIFICATION HLSpec
INVARIANTS
    SlotsStayHooked
