\* Two pending publications in the outbox at once.
SPECIFICATION Spec
CONSTANTS
    p1 = p1
    p2 = p2
    other = other
    revised = revised
    embargoed = embargoed
    Activities = {"DepositCrossrefPendingPublication"}
    Names = {other, revised}
    Contents <- TwoContents
    VersionDois = {other, revised}
    Withheld = {}
    Attempts = {p1}
    MaxFaults = 0
INVARIANT VersionDoisSent
