\* An outbox with one file of three that cannot be sent, a fault, and attempts
\* that overlap.
SPECIFICATION FairSpec
CONSTANTS
    p1 = p1
    p2 = p2
    other = other
    revised = revised
    embargoed = embargoed
    Activities = {"DepositCrossref", "DepositCrossrefPendingPublication"}
    Names = {revised, embargoed, other}
    Contents <- SomeContents
    VersionDois = {revised}
    Withheld <- SomeWithheld
    Attempts = {p1, p2}
    MaxFaults = 1
INVARIANTS
    TypeOK
    NothingUnsent
    RepeatsAreFaults
    MovedWhenAllSent
PROPERTY EventuallyMoved
