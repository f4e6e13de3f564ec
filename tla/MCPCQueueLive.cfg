\* Liveness: one producer beside two consumers that also read the size,
\* bounded queue, with fairness and without symmetry.
SPECIFICATION LiveSpec
CONSTANTS
    Producers = {p1}
    Consumers = {c1, c2}
    Observers = {c2}
    Data = {a}
    Priorities = {1}
    Timeouts = {"timed", "forever"}
    Modes = {"MPSC", "MPMC"}
    Disciplines = {FALSE}
    Capacities = {1}
    UnlimitedCap = 1
    TornSizes = {0, 9}
    NoItem = NoItem
    NoOp = NoOp
PROPERTIES
    CloseReleasesWaiters
    TimedCallsReturn
    NobodySleepsForNothing
