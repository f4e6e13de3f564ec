\* Two clients that send two or three lines each, in every interleaving;
\* the connection of the second may break.
SPECIFICATION LiveSpec
CONSTANTS
    Clients = {"c1", "c2"}
    Fragile = {"c2"}
    Scripts <- MCScripts
    Capacity = 3
INVARIANTS
    TypeOK
    RepliesDelivered
    RepliesFollowHistory
PROPERTY EveryLineAnswered
CHECK_DEADLOCK FALSE
