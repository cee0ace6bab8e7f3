\* Every shipped workflow but PublicationEmail, with attempts that die anywhere.
SPECIFICATION FairSpec
CONSTANTS
    Scripts <- MCScripts
    Workflows <- MCWorkflows
    Inputs <- MCInputs
    Givens <- MCGivens
    Maximum <- MCMaximum
    Companions <- MCCompanions
    Outlines <- MCOutlines
INVARIANTS
    TypeOK
    ValuesArePresent
    ObjectsArePresent
    NamedArePresent
    NamesAgree
    RepeatsAreFaults
    DepositedBeforeIngest
    MovedWhenSent
    ChangesFound
PROPERTIES
    NothingLost
    EventuallyCloses
    EveryStepRuns
CHECK_DEADLOCK FALSE
