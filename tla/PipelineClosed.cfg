\* A session whose end the pipeline's own sweep saw has no session_closed record.
SPECIFICATION Spec
CONSTANTS
    Pids = {p1}
    Grace = 1
    MaxTime = 3
    MaxLag = 1
    MaxSkew = 0
    MaxSessions = 1
    BootTimeKnown = TRUE
    r1 = r1
    Rules = {r1}
    RuleName <- MCRuleName
    Configs <- MCConfigs
    Enabled = TRUE
    WritesMayFail = FALSE
    MaxEvents = 4
    MaxFlushes = 1
INVARIANTS EndedHasClosedRecord
