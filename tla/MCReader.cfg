SPECIFICATION FairSpec
CONSTANTS
    Preamble = 4
    TopicSize = 4
    Scripts <- MCScripts
INVARIANTS InStep HeadersSurvive
PROPERTY ImplementsStream
CHECK_DEADLOCK FALSE
