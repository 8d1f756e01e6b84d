\* A flag that a rule scored on disappears when a shell is pruned;
\* both limits are beyond the number of events, so that nothing is trimmed.
SPECIFICATION Spec
CONSTANTS
    SessionIDs = {1}
    Pids = {p1, p2}
    Files = {"tool", "secret", "quiet"}
    Executables = {"sh", "tool"}
    Shells = {"sh"}
    ShellNames = {"sh"}
    Postures = {"unread", "capable", "unfiltered"}
    NetworkTools = {"tool"}
    SuspiciousPaths = {"tool"}
    DeletedFiles = {"secret"}
    SensitiveTargets = {"secret"}
    QuietTargets = {"quiet"}
    BurstThreshold <- MCBurstThreshold
    BurstWindow = 1
    SensitiveHistoryWindow = 1
    DeepChainThreshold = 1
    RecentEventLimit = 4
    MaxPerProcessArtifacts = 4
    MaxEvents = 3
SYMMETRY Symmetry
INVARIANTS FlagsExplainScore
CHECK_DEADLOCK FALSE
