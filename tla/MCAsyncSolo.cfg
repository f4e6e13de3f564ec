\* One caller and every input of up to four lines; files may fail to open.
SPECIFICATION LiveSpec
CONSTANTS
    Submitters = {c1}
    Clients = {c1}
    FileOpens = {TRUE, FALSE}
    Bulk = 2
    Chunks <- MCLines
    MaxInput = 4
    MaxConnects = 1
    Orders = {TRUE}
INVARIANTS
    TypeOK
    BlocksRespectBraces
    OneFilePerBlock
PROPERTY EveryBlockWritten
CHECK_DEADLOCK FALSE
