\* Two deciders and two workers on three steps, and on two activities at once.
SPECIFICATION Spec
CONSTANTS
    d1 = d1
    d2 = d2
    w1 = w1
    w2 = w2
    Deciders = {d1, d2}
    Workers = {w1, w2}
    NoActivity = NoActivity
    Activities <- OrderActivities
    Definitions <- OrderDefinitions
    MaxFailures = 1
    MaxFaults = 2
    MaxEvents <- OrderEvents
SYMMETRY Processes
INVARIANTS
    TypeOK
    StepOrder
    NoRepeatAfterCompletion
    OneOpenAttempt
    CancelStopsScheduling
    CompletedOnlyWhenDone
    FailedOnlyOnRequest
    CompletedIsPerformed
PROPERTY PipelineSpec
