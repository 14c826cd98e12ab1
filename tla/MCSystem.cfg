SPECIFICATION MCSpec
CONSTANTS
    Servers = {"s"}
    Requesters = {"r1", "r2"}
    Conns = {"s", "r1", "r2"}
    Service = "service"
    Inbox <- MCInbox
    Nowhere = "nowhere"
    RecvCap = 1
    SendCap = 1
    MaxRequests = 2
    Messages <- SystemMessages
    Match <- MCMatch
    SubscribeTopic = "_RTROUTED.INBOX.SUBSCRIBE"
    HelloTopic = "_RTROUTED.INBOX.HELLO"
    NoRouteTopic = "NO.ROUTE.RESPONSE"
    InternalExp = "_RTROUTED.>"
    DebugExp = ">"
    NoClient = "nobody"
    TableCreated = TRUE
    MaxFds = 3
    MaxSent = 9
INVARIANTS AnswersMatch NoCircle
PROPERTIES EveryRequestServed
