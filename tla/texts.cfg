SPECIFICATION Spec
CONSTANTS
    Given <- EveryGiven
    Junk <- Junks
INVARIANTS
    StoredIsSent
    CrashHasCause
    ReadBack
    PictureMatches
    ClickNamesRow
\* The file is listed and clicked once, or a worker crashed over it.
CHECK_DEADLOCK FALSE
