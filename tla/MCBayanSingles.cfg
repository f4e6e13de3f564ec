\* A group of one file is printed.
SPECIFICATION Spec
CONSTANTS
    Files <- MCFiles
    Dirs <- MCDirs
    Home <- MCHome
    StartsWith <- MCStartsWith
    Digest <- MCDigest
    Cases <- MCCases
INVARIANT NoFalsePositives
CHECK_DEADLOCK FALSE
