CONSTANTS
    ReplayBuffer = 2
    Transit = 1
    MaxEvents = 5
    MaxStreams = 2
    MaxFaults = 2
SPECIFICATION Spec
INVARIANTS FeedIsExact
PROPERTIES FeedCatchesUp
CHECK_DEADLOCK FALSE
