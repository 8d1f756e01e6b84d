\* One OpenClaw process and two more pids, each used any number of times.
SPECIFICATION Spec
CONSTANTS
    Pids = {p1, p2, p3}
    OpenClaw = {p1}
    LineageMaxDepth = 2
    MaxSessions = 1
    MaxBirths = 3
SYMMETRY Symmetry
VIEW WithoutHistory
INVARIANTS ChildConnectIsReported TrackedIsInTree PendingIsInvisible
PROPERTIES TrackedUntilExit
