\* All lists of up to four events, with times that may step back by one; then
\* the enumeration stops.
SPECIFICATION RecordSpec
CONSTANTS
    SensitiveTargets = {"secret"}
    QuietTargets = {"quiet"}
    BurstThreshold <- MCBurstThreshold
    BurstWindow = 2
    SensitiveHistoryWindow = 2
    Shapes <- MCShapes
    MaxBack = 1
    MaxLen = 4
    MaxTime = 6
INVARIANTS ThenExecIsPair SensitivePairIsFound BurstIsGroup
CHECK_DEADLOCK FALSE
