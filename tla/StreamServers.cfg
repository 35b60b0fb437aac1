CONSTANTS
    Clients = {c1, c2, c3}
    NoFd = NoFd
    Backlog = 1
    Malformed = {c3}
    MaxServers = 3
    None = None
SPECIFICATION OneSpec
PROPERTY Reaped
PROPERTY BothImplement
INVARIANT OwnAnswer
CHECK_DEADLOCK FALSE
