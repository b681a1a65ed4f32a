CONSTANTS
    Obj = {o1, o2}
    NoObj = none
    MaxRef = 2
    MaxCount = 2
    MaxCalls = 2
    MaxFrames = 1
    MaxStrong = 2
SPECIFICATION Spec
SYMMETRY Symmetry
CONSTRAINT FewGlobals
VIEW Distinct
INVARIANTS
    KnownIffHeld
    GlobalsHeld
    CallersKeepLocals
    NothingLeftBehind
    AnswersAreValid
