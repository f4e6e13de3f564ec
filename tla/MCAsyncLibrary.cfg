\* Two callers that both connect before either disconnects, or call in any
\* order.
SPECIFICATION Spec
CONSTANTS
    Submitters = {c1, c2}
    Clients = {c1, c2}
    FileOpens = {TRUE}
    Bulk = 2
    Chunks <- MCChunks
    MaxInput = 3
    MaxConnects = 1
    Orders = {TRUE, FALSE}
INVARIANTS
    LoggedInOrder
    FileNamesDiffer
    NoBlockMissed
    ContextsDoNotMix
    DisconnectFlushes
SYMMETRY MCSymmetry
CHECK_DEADLOCK FALSE
