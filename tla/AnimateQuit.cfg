CONSTANTS
    NumMsg = 1
    COLS = 6
    Len = 2
    MaxKeys <- MCMaxKeys
    NULL = NULL
SPECIFICATION FairSpec
PROPERTY QuitsOnQ
CHECK_DEADLOCK FALSE
