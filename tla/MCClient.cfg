SPECIFICATION FairSpec
CONSTANTS
    Files <- MCFiles
    Probes <- MCProbes
    Commands <- MCCommands
    Ids <- MCIds
    MaxEntries = 2
    MaxFailures = 1
INVARIANTS TreeIsNesting HostAgrees LookupAgrees
PROPERTIES NotesPerQuery TrueMeansNoError VisitsSubtree Terminates
CHECK_DEADLOCK FALSE
