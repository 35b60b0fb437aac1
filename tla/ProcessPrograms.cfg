CONSTANTS
    MaxCommands = 8
    MAXARGS = 3
    Args = {a, b}
    Capacity = 3
    MaxWrites = 8
    StartedWith = {{0, 1}, {0}, {1}, {}}
    Room = 19
    BUFSIZ = 11
    CHILD_MESS = 2
    PAR_MESS = 3
    MaxPieces = 3
SPECIFICATION OneSpec
INVARIANT Interruptible
PROPERTY Prompted
PROPERTY ImplementsJobControl
PROPERTY FirstShell
PROPERTY BothEnd
INVARIANT Pace
PROPERTY StuckForever
INVARIANT ReadAhead
CHECK_DEADLOCK FALSE
