\* Two pids, up to three invocations, event times up to two ticks old and one ahead.
SPECIFICATION FairSpec
CONSTANTS
    Pids = {p1, p2}
    Grace = 1
    MaxTime = 4
    MaxLag = 2
    MaxSkew = 1
    MaxSessions = 3
    BootTimeKnown = TRUE
INVARIANTS SingleWindow SessionsAccountedFor GraceHonoured
PROPERTIES ImplementsSessionLife ClosingSessionEnds
