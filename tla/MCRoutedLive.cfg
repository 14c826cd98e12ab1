SPECIFICATION FairSpec
CONSTANTS
    c1 = c1
    c2 = c2
    A = A
    B = B
    Rtrouted = Rtrouted
    Inbox = Inbox
    Subscribe = Subscribe
    Hello = Hello
    NoRoute = NoRoute
    Star = Star
    Gt = Gt
    NoClient = NoClient
    Match <- MCMatch
    SubscribeTopic <- MCSubscribeTopic
    HelloTopic <- MCHelloTopic
    NoRouteTopic <- MCNoRouteTopic
    InternalExp <- MCInternalExp
    DebugExp <- MCDebugExp
    TableCreated = TRUE
    Conns <- TwoConns
    Messages <- LiveMessages
    MaxFds = 1
    SendCap = 1
    MaxSent = 2
PROPERTIES EveryMessageRead HangUpsReaped
