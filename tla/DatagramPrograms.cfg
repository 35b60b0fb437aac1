CONSTANTS
    Senders = {s1, s2, s3}
    Waiting = {s1, s2}
    Lengths = {0, 1, 2, 3}
    BUFSIZ = 2
    MaxFaults = 1
    Nobody = Nobody
    Clients = {c1, c2, c3}
    Seats = 2
    MaxLoss = 2
    NULL = NULL
SPECIFICATION OneSpec
INVARIANT RepliesTrue
PROPERTY Answered
PROPERTY OnlyLeaks
CHECK_DEADLOCK FALSE
