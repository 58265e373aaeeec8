SPECIFICATION FairSpec
CONSTANTS
    Messages = {m1, m2, m3}
    MaxBreaks = 4
INVARIANTS
    TypeOK
    OneReconnection
    ConnectedMeansGreeted
    EventsAlternate
PROPERTIES
    KeepsSession
    EverySendSettles
    Reconnects
CHECK_DEADLOCK FALSE
