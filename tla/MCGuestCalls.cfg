CONSTANTS
    TidSpace = 2
    TICK = 2
    Unit <- Units
    Times <- SomeTimes
    Durations <- SomeDurations
    MaxClones = 2
    Keys <- TheKeys
    Computed <- TheComputed
    Values = {"short", "long"}
    Unset = ""
    Bytes <- TheBytes
    REGION_BYTES = 850
    PrimitiveArrays = {array1, array2}
    Pointers = {1, 2, 3}
    MaxHandle = 3
SPECIFICATION SystemSpec
INVARIANTS
    FailuresLeaveNothing
    TimeAsTold
    ThreadsDistinct
    PropertiesAgree
    BuffersReturned
