CONSTANTS
    BUFSIZ = 2
    Char = {a, blank}
    Newline = nl
    MaxInput = 7
    Inputs <- MCInputs
    PtrSize = 1
    Delims = {blank}
SPECIFICATION CommandSpec
INVARIANT InBounds
INVARIANT Lines
INVARIANT Words
INVARIANT TwoBlocks
CHECK_DEADLOCK FALSE
