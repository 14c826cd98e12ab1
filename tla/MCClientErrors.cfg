SPECIFICATION Spec
CONSTANTS
    Files <- MCFiles
    Probes <- MCProbes
    Commands <- MCCommands
    Ids <- MCIds
    MaxEntries = 2
    MaxFailures = 1
PROPERTY ItemFailureReturned
CHECK_DEADLOCK FALSE
