SPECIFICATION FairSpec
CONSTANTS
    Clients = {c1, c2}
    Topics = {kitchen, bedroom}
    Requests = {m1, m2}
    MaxBroadcasts = 2
    FatalRejections = FALSE
INVARIANTS
    TypeOK
    UniqueTopics
    SubscribersObserved
    NoClosedSubscriber
    NoUpdateBeforeState
PROPERTIES
    BroadcastsAsPromised
    RequestsAnswered
CHECK_DEADLOCK FALSE
