\* Every runner, on two directories, with two processes; the budget is one short of
\* what the longest schedule may cost.
SPECIFICATION Spec
CONSTANTS
    Proc = {p1, p2}
    Dir = {d1, d2}
    NoDir = NoDir
    Nobody = Nobody
    Kind = {"chained", "arms", "plugin", "pilot", "block", "agent"}
    Length <- MCLength
    Run = {1, 2, 3}
    Note <- MCNote
    MaxCost = 2
    Total = 5
    MaxRevision = 10
SYMMETRY Symmetry
INVARIANT TypeOK
INVARIANT PaidOnce
INVARIANT SpendCovered
INVARIANT CheckpointTrue
INVARIANT ChainLinked
PROPERTY StopsEverything
PROPERTY ScheduleKept
