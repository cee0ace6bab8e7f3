\* A failed execution counts as the last completed one.
SPECIFICATION Spec
CONSTANTS
    p1 = p1
    p2 = p2
    Passes = {p1, p2}
    Statuses = {"COMPLETED", "FAILED", "TIMED_OUT"}
    Ids <- FirstRunIds
    NewIds = {}
    FirstMinutes <- FirstRunBeginnings
    Horizon = 30
    MaxFaults = 0
SYMMETRY AnyPass
INVARIANT LastStartIsCompleted
