\* Two commands at a time over one task and two receipt paths; the journal holds
\* an aborted transaction and the whole life of another.
SPECIFICATION Spec
CONSTANTS
    Proc = {p1, p2}
    Nobody = nobody
    Run = {r}
    TheRun = r
    Task = {t1}
    Path = {x1, x2}
    NoPath = nopath
    Note <- MCNote
    MaxCost = 3
    Total = 6
    MaxRevision = 6
    MaxResumed = 1
SYMMETRY Symmetry
INVARIANT TypeOK
INVARIANT OneLaunch
INVARIANT NoDrift
INVARIANT ReceiptsTrue
PROPERTY SpendJournaled
PROPERTY LedgerKept
