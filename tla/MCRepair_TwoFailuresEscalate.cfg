SPECIFICATION RepairSpec
CONSTANTS
    Completions <- MCCompletions
    Originals <- MCOriginals
    ClauseLists <- MCClauseLists
    Retrieved <- MCRetrieved
    Supports = {0, 4, 7, 99}
    MinClaimChars = 25  MaxAttempts = 2  MaxRepairAttempts = 2
INVARIANTS TwoFailuresEscalate
CHECK_DEADLOCK FALSE
