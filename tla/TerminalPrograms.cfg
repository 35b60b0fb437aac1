CONSTANTS
    TRIES = 2
    MaxKeys = 3
    NULL = NULL
    PAGELEN = 2
    StdinTexts <- MCStdinTexts
    FileLists <- MCFileLists
    MaxPresses = 4
SPECIFICATION OneSpec
 
PROPERTY Heard
PROPERTY OneReprieve
INVARIANT AllShown
CHECK_DEADLOCK FALSE
