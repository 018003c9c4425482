SPECIFICATION PipelineSpec
CONSTANTS
    Alphabets <- MCAlphabets
    MaxText <- MCMaxText
    MaxChunk = 2
    HardFlush = 5
    MaxTag = 3
    One = 4
    Policy <- MCPolicy
    Impacts = {3, 12, 40}
    SampleSize = 3
    Alpha = 3
    Delta = 450
    LogDelta = 798
    MaxClaims = 2
    Passages <- MCPassages
    Tools <- MCTools
    Calls <- MCCalls
    Short = {"of"}
    MaxTurns = 2  MaxCalls = 2  MaxPassages = 2
    Figures <- MCFigures
    Clauses = {"9.1"}
    Words = {"w1", "w2"}
    Domains <- MCDomains
    Bands <- MCBands
    Amounts = {0, 10, 100}
    ToolClasses = {"costly", "irreversible"}
    Canaries = {"c1", "c2"}
    MaxChars = 7  MinChars = 3
    Corpora <- MCCorpora
    Embedders <- MCEmbedders
    ArmDepth = 2  TopK = 2  MaxBuilds = 2
    Completions <- MCCompletions
    Originals <- MCOriginals
    ClauseLists <- MCClauseLists
    Retrieved <- MCRetrieved
    Supports = {0, 4, 7, 99}
    MinClaimChars = 25  MaxAttempts = 2  MaxRepairAttempts = 2
INVARIANTS SegmentationIsSound DecisionIsSound CallsAreJudgedWhole SignalsAreSound RetrievalIsSound ShipsOneSpokenSentence
CHECK_DEADLOCK FALSE
