SPECIFICATION FairSpec
CONSTANTS
    Objects <- MCObjects
    Staged = {"SSID", "Status"}
    Virtual = {"Alias"}
    Fixed = {"AdapterNumberOfEntries"}
    Missing = {"SecurityType", "unnamed"}
    Values = {"", "x", "y"}
    Empty = ""
    RegisterOrder <- MCRegisterOrder
    Known <- MCObjects
    MaxListeners = 2
    MaxRequests = 2
    Properties <- MCProperties
    Wildcard = "*"
    Unnamed = "unnamed"
    Gets <- MCGets
    Sets <- MCSets
INVARIANTS SingleSetTakesEffect InStepUnlessOverlapped
PROPERTIES NoHalfTransaction MissedOnlyWhileRegistering EveryRequestAnswered
CHECK_DEADLOCK FALSE
