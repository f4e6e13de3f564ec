\* Liveness: two connections with a command or braces that stay open, ends of
\* file only.
SPECIFICATION LiveSpec
CONSTANTS
    Submitters = {"io"}
    FileOpens = {TRUE}
    Connections = {c1, c2}
    Scripts <- MCNested
    Bulk = 2
    Endings = {"eof"}
PROPERTY TailIsDisplayed
CHECK_DEADLOCK FALSE
