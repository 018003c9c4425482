CONSTANTS
    MaxSentences = 2
    MaxRepairAttempts = 2
    HasRepair = TRUE
    Escalates = FALSE
    MaxCalls = 2
SPECIFICATION StreamSpec
INVARIANTS CachedAnswersPassed
CHECK_DEADLOCK FALSE
