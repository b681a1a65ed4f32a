CONSTANTS
    FIRST = 0
    MaxFd = 2
    MaxFiles = 3
    MaxData = 1
    MaxEntries = 2
SPECIFICATION Spec
CONSTRAINT FewEntries
VIEW InUse
INVARIANTS
    ClosedWithLastFd
    EndsAgree
    ReportsReadable
