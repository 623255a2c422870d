\* One launch drifts and aborts, the next one runs and fails its audit.
SPECIFICATION Spec
CONSTANTS
    Proc = {p1, p2}
    Nobody = nobody
    Run = {r}
    TheRun = r
    Task = {t1}
    Path = {x1, x2}
    NoPath = nopath
    Note <- MCNote
    MaxCost = 3
    Total = 6
    MaxRevision = 6
    MaxResumed = 1
SYMMETRY Symmetry
INVARIANT AuditResumable
