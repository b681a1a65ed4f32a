CONSTANTS
    a = a  b = b  c = c  s = s  t = t
    Libs = {a, b, c}
    Syms = {s, t}
    Disks <- AllDisks
    Nobody = Nobody  Poison = Poison  Host = Host
SPECIFICATION LSpec
INVARIANTS
    LoadsSettle
    StartsInOrder
PROPERTIES
    CallsEnd
