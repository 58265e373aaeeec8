SPECIFICATION ControllersOnly
CONSTANTS
    Clients = {c1}
    Topics = {kitchen}
    Requests = {m1}
    MaxBroadcasts = 1
    FatalRejections = TRUE
INVARIANT StaysOperational
CHECK_DEADLOCK FALSE
