\* One session, two pids, three accepted events and any number of ignored ones.
SPECIFICATION Spec
CONSTANTS
    SessionIDs = {1}
    Pids = {p1, p2}
    Files = {"tool", "secret", "quiet"}
    Executables = {"sh", "tool"}
    Shells = {"sh"}
    ShellNames = {"sh"}
    Postures = {"unread", "capable", "unfiltered"}
    NetworkTools = {"tool"}
    SuspiciousPaths = {"tool"}
    DeletedFiles = {"secret"}
    SensitiveTargets = {"secret"}
    QuietTargets = {"quiet"}
    BurstThreshold <- MCBurstThreshold
    BurstWindow = 1
    SensitiveHistoryWindow = 1
    DeepChainThreshold = 1
    RecentEventLimit = 2
    MaxPerProcessArtifacts = 1
    MaxEvents = 3
SYMMETRY Symmetry
INVARIANTS RecentIsEndOfHistory ProcessesAreThoseOfEvents HistoryHappened FlagsCoverProcesses
CHECK_DEADLOCK FALSE
