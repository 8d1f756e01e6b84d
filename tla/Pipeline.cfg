\* Two sessions: one is closed out, or shut down, while the next one starts.
SPECIFICATION FairSpec
CONSTANTS
    Pids = {p1}
    Grace = 1
    MaxTime = 3
    MaxLag = 1
    MaxSkew = 0
    MaxSessions = 2
    BootTimeKnown = TRUE
    r1 = r1
    Rules = {r1}
    RuleName <- MCRuleName
    Configs <- MCConfigs
    Enabled = TRUE
    WritesMayFail = FALSE
    MaxEvents = 3
    MaxFlushes = 1
INVARIANTS AtMostOneLateEvent AtMostTwoAccounts HandedIsClosedOut LastRecordLagsOneEvent TracesComplete SpanShowsItsWorst
PROPERTIES ShutdownCompletes
