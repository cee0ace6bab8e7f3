\* An ingest that completes after an attempt of ApplyVersionNumber has died.
SPECIFICATION Spec
CONSTANTS
    Scripts <- MCScripts
    Workflows <- MCWorkflows
    Inputs <- MCInputs
    Givens <- MCGivens
    Maximum <- MCMaximum
    Companions <- MCCompanions
INVARIANT RenamedInXml
CHECK_DEADLOCK FALSE
