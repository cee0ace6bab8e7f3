\* Under fairness of the processes and of SWF's time-outs the execution closes.
SPECIFICATION FairSpec
CONSTANTS
    d1 = d1
    d2 = d2
    w1 = w1
    w2 = w2
    Deciders = {d1, d2}
    Workers = {w1, w2}
    NoActivity = NoActivity
    Activities <- ShortActivities
    Definitions <- ShortDefinitions
    MaxFailures = 1
    MaxFaults = 2
    MaxEvents <- ShortEvents
PROPERTY EventuallyCloses
