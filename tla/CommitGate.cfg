CONSTANTS
    MaxSentences = 3
    MaxRepairAttempts = 2
    HasRepair = TRUE
    Escalates = TRUE
SPECIFICATION Spec
INVARIANTS CommitBeforeEmit InOrderOnce UnbufferedIsVerbatim OneInFlight FinishedIsComplete
PROPERTIES SilentOnceTerminated CallsReturn
CHECK_DEADLOCK FALSE
