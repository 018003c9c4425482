SPECIFICATION BackgroundSpec
CONSTANTS
    FailureThreshold = 2
    FailureWindow = 1
    OpenFor = 2
    Window = 3
    MinSamples = 2
    Percent = 50
    ThinAt = 4
    ShallowAt = 6
    ProbeOnlyAt = 8
    BypassAt = 12
    Overheads = {3, 4, 8, 12}
    MaxCalls = 2
    Observers = {o1, o2}
    Contexts <- MCContexts
    Room = 1
    Null = 2
    Warmup = 2
    Alarm = 3
    MaxSeen = 7
    Pairs = {1, 2, 3}
    Answers <- MCAnswers
    Words <- MCWords
    Prices <- MCPrices
    Fallback <- MCFallback
    Strong <- MCStrong
    Models <- MCModels
    Tokens = {0, 3}
    Savings = {0, 5}
    Review = 4
    RetryWindow = 2
    Terms = {"fee"}
    MaxRequests = 2
    MaxTurns = 3
    Readings = {0, 1, 2}  Unit = 24  MaxItems = 4
    MinPositives = 2  Folds = 2  Bins = 3
    BatchItems = {1, 2}  Attempts = 3  Projected = 2
    Wordings <- MCWordings  MaxEntries = 2
    Schemes = {"ws", "wss"}  Origins <- MCOrigins  MaxFrames = 2
    Documents = {1, 2, 3, 4, 5}
    DocDomains = {"loans", "fees"}
    EvalPinned = {5}
    CaseCounts <- MCCounts
    LoopStrikes = 3
    EvalRungs = {"L0_pass", "L1_annotate", "L4_hold"}
    Seeds = {1, 2}
    Candidates = {1, 2}
    MinCatchPercent = 50
INVARIANTS OneProbePerOpening SharedStateIsSound BetsAreFair AccountsAddUp CalibrationIsHonest JudgmentsAreSound EvaluationIsSound
PROPERTIES FollowsSteadyLoad WorkEnds
CHECK_DEADLOCK FALSE
