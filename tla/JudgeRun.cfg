CONSTANTS
    Plans = 2
    Items = 2
    MaxAttempts = 2
    Cap = 9
    Sizes = {1, 2}
    MaxCommands = 3
    MaxFaults = 2
SPECIFICATION Spec
INVARIANTS ChargesAreOnDisk SpendStaysUnderCap RowsArePaidOnce
PROPERTIES NothingMoreAboveCap
CHECK_DEADLOCK FALSE
