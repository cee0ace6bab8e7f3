\* One evening of cron passes, with a pass lost, missed or hanging.
SPECIFICATION Spec
CONSTANTS
    p1 = p1
    p2 = p2
    Passes = {p1, p2}
    Statuses = {"COMPLETED"}
    Ids <- EveningIds
    NewIds = {"AdminEmail"}
    FirstMinutes <- EveningBeginnings
    Horizon = 80
    MaxFaults = 2
SYMMETRY AnyPass
INVARIANTS
    TypeOK
    NotOverdue
    NoThirdStart
