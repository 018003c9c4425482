CONSTANTS
    Requests = {r1, r2, r3}
    Sessions = {s1, s2}
    Prompts <- MCPrompts
    Detectors = {d1}
    Ceiling = 1
    Capacity = 1
    MaxSessions = 1
    MaxPolicies = 1
    MaxShadows = 1
SPECIFICATION Spec
INVARIANTS ReplaysAreValid ReworkNamesLatestTurn
SYMMETRY Symmetric
CHECK_DEADLOCK FALSE
