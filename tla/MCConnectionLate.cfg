SPECIFICATION Spec
CONSTANTS
    MaxListeners = 1
    SendCap = 1
    MaxBreaks = 0
    MaxSends = 2
    MaxPublished = 0
    MaxTraffic = 2
    NoRouteReplies = FALSE
INVARIANTS ResponseIsToRequest
CHECK_DEADLOCK FALSE
