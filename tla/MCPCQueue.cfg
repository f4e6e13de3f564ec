\* Two producers and two consumers, every mode, with and without priorities,
\* unlimited and bounded.
SPECIFICATION Spec
CONSTANTS
    Producers = {p1, p2}
    Consumers = {c1, c2}
    Observers = {}
    Data = {a}
    Priorities = {1, 2}
    Timeouts = {"nowait", "timed", "forever"}
    Modes = {"SPSC", "MPSC", "SPMC", "MPMC"}
    Disciplines = {TRUE, FALSE}
    Capacities = {0, 1, 2}
    UnlimitedCap = 3
    TornSizes = {0}
    NoItem = NoItem
    NoOp = NoOp
SYMMETRY MCSymmetry
INVARIANTS
    TypeOK
    CapacityRespected
    NoLostPop
    NoLostPush
    ClosedWakesAll
    FlagsMatchWaiters
PROPERTIES
    NothingAddedAfterClose
    BufferSpec
