\* Replies that do not fit into the socket.
SPECIFICATION Spec
CONSTANTS
    Clients = {"c1", "c2"}
    Fragile = {"c2"}
    Scripts <- MCScripts
    Capacity = 3
INVARIANT RepliesExact
CHECK_DEADLOCK FALSE
