\* A file that is modified while its first version is being ingested.
SPECIFICATION Spec
CONSTANTS
    worker = worker
    adapter = adapter
    era = era
    starter = starter
    Processes = {worker, starter}
    Reads <- UploadReads
    Inputs <- Uploads
    MaxFaults = 0
INVARIANT EveryFileTriggers
\* The queues become empty.
CHECK_DEADLOCK FALSE
