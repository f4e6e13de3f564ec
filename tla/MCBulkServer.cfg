\* Two connections that send static commands, the last without its newline,
\* or a dynamic block, in every combination; they close or break, and the
\* server may be stopped.
SPECIFICATION Spec
CONSTANTS
    Submitters = {"io"}
    FileOpens = {TRUE}
    Connections = {c1, c2}
    Scripts <- MCScripts
    Bulk = 2
    Endings = {"eof", "error"}
SYMMETRY MCSymmetry
INVARIANTS
    TypeOK
    StaticBlocksInOrder
    BraceEndsStaticBlock
    DynamicBlocksWhole
    EmptyServerHasWritten
CHECK_DEADLOCK FALSE
