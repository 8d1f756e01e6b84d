\* Two sessions, so that a flush can fail between them; any write may fail.
SPECIFICATION Spec
CONSTANTS
    SessionIDs = {s1, s2}
    MaxFolded = 1
    MaxRecords = 2
    WritesMayFail = TRUE
INVARIANTS LatestIsLoggedOrBuffered CloseLeavesNothingBehind LogsNest
PROPERTIES OnlyShutdownAfterClose
