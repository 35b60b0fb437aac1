CONSTANTS
    Texts <- MCTexts
    ArgTexts <- MCArgTexts
    NotYet = NotYet
SPECIFICATION OneSpec
INVARIANT LosesNone
INVARIANT LastWordLost
PROPERTY MailKept
PROPERTY AllImplement
PROPERTY Ends
CHECK_DEADLOCK FALSE
