\* A workflow that has not run yet is never started.
SPECIFICATION Spec
CONSTANTS
    p1 = p1
    p2 = p2
    Passes = {p1, p2}
    Statuses = {"COMPLETED"}
    Ids <- FirstRunIds
    NewIds = {"FindFuturePreprints"}
    FirstMinutes <- FirstRunBeginnings
    Horizon = 30
    MaxFaults = 0
SYMMETRY AnyPass
INVARIANT FirstRunHappens
