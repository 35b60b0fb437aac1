CONSTANTS
    NRECS = 2
    MaxRecs = 5
    MaxWrites = 3
    MaxErrors = 1
    ErrorRecs = 7
    Root = Root
    Dirs = {Root, a, b, c}
    Inos = {2, 3, 4, 5}
    MaxMoves = 2
    Names = {1, 2, 3}
    Hidden = {3}
    Before <- MCBefore
    Length <- MCLength
    Places = {"top", "sub"}
    Start = "top"
    Resolve <- MCResolve
    ArgLists <- MCArgLists
    FirstSize = 1
    PerRead = 2
    WsCol = 4
    MaxChanges = 2
    Width = 8
    NumSize = 3
    Named = {0, 11}
    Infos <- MCInfos
    Bytes = {"x", "y", "z", "NUL", "?"}
    Contents <- MCContents
    Added = "z"
    BUFFSIZE = 2
    MaxAppends = 1
    MaxFails = 1
SPECIFICATION OneSpec
INVARIANT EachOnce
INVARIANT TruePath
INVARIANT Listed
INVARIANT LinesTrue
INVARIANT BlocksCopied
CHECK_DEADLOCK FALSE
