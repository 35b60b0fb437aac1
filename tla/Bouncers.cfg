CONSTANTS
    Y_INIT = 1
    X_INIT = 2
    Y_TTM = 3
    X_TTM = 2
    TOP_ROW = 3
    BOT_ROW = 8
    COLS = 5
    Len = 2
    FirstDelay = 200
    IntMax = 2047
    MaxKeys = 10
    NumMsg = 2
    StrCols = 6
    StrLen = 2
    StrKeys <- MCStrKeys
    NULL = NULL
SPECIFICATION OneSpec
INVARIANT OnTime
PROPERTY Bounces
PROPERTY ScreenKept
INVARIANT TimerArmed
INVARIANT WordBounded
INVARIANT DrawsNewPosts
INVARIANT StringsBounded
PROPERTY FrozenForever
CHECK_DEADLOCK FALSE
