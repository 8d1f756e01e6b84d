\* A pid that is used again appears in the lineage of its former children.
SPECIFICATION Spec
CONSTANTS
    Pids = {p1, p2, p3}
    OpenClaw = {p1}
    LineageMaxDepth = 2
    MaxSessions = 1
    MaxBirths = 3
SYMMETRY Symmetry
INVARIANTS LineageIsAncestry
