SPECIFICATION Spec
CONSTANTS
    MaxStatic = 2
    FileOpens = {TRUE, FALSE}
    Delays = {0, 1}
    MaxLines = 5
INVARIANTS
    TypeOK
    CountsAgree
    EveryCommandOnce
    BlocksAreRight
    PacedBlocksKeepTheirFiles
CHECK_DEADLOCK FALSE
