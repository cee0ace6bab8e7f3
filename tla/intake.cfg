\* Messages of three sources, each handled with one crash, time-out or lost call.
SPECIFICATION FairSpec
CONSTANTS
    worker = worker
    adapter = adapter
    era = era
    starter = starter
    Processes = {worker, adapter, era, starter}
    Reads <- SomeReads
    Inputs <- SomeInputs
    MaxFaults = 1
INVARIANTS
    TypeOK
    NothingDropped
    RepeatsAreFaults
    IngestedAtLeastOnce
PROPERTY EventuallyConsumed
