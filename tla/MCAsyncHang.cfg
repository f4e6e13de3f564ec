\* Liveness: does disconnect return?.
SPECIFICATION LiveSpec
CONSTANTS
    Submitters = {c1}
    Clients = {c1}
    FileOpens = {TRUE}
    Bulk = 1
    Chunks <- MCPlain
    MaxInput = 1
    MaxConnects = 1
    Orders = {TRUE}
PROPERTY DisconnectReturns
CHECK_DEADLOCK FALSE
