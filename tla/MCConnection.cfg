SPECIFICATION FairSpec
CONSTANTS
    MaxListeners = 3
    SendCap = 1
    MaxBreaks = 2
    MaxSends = 2
    MaxPublished = 2
    MaxTraffic = 3
    NoRouteReplies = TRUE
INVARIANTS ListenersRegistered IdsDistinct CallbacksInOrder DamageBounded
PROPERTY SendsReturn
CHECK_DEADLOCK FALSE
