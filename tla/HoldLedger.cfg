CONSTANTS
    Requests = {r1, r2}
    Reviewed = {r1}
    Operators = {o1, o2}
    Rows = 2
    MaxQueue = 1
    MaxFaults = 2
SPECIFICATION Spec
INVARIANTS ToldIsTrue AnnouncedHoldsSurvive BatchesAreAccountedFor
PROPERTIES HoldsResolveOnce OverdueHoldsExpire
CHECK_DEADLOCK FALSE
