\* Runs over an outbox that is written to meanwhile; one of them breaks off.
SPECIFICATION FairSpec
CONSTANTS
    Files <- MCFiles
    Doi <- MCDoi
    Insights <- MCInsights
    Related <- MCRelated
    Rule <- MCRule
    Features = {}
    NoDoi = "no DOI"
    MaxFaults = 1
INVARIANTS
    TypeOK
    PublishedWasMailed
    RepeatsAreFaults
PROPERTIES
    NothingLost
    EventuallyLeaves
CHECK_DEADLOCK FALSE
