\* Every content of four files beside the command lines of MCBayan.
SPECIFICATION LiveSpec
CONSTANTS
    Files <- MCFiles
    Dirs <- MCDirs
    Home <- MCHome
    StartsWith <- MCStartsWith
    Digest <- MCDigest
    Cases <- MCCases
INVARIANTS
    TypeOK
    ListedAsAsked
    GroupsAreClasses
    BlocksReadWhenNeeded
PROPERTY RunEnds
CHECK_DEADLOCK FALSE
