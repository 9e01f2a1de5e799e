SPECIFICATION FairSpec
CONSTANTS
    SHORT_POLL_INTERVAL = 2
    LONG_POLL_INTERVAL = 6
    TICK_INTERVAL_LIMIT = 3
    Start = 7
    MaxJump = 3
    MaxTime = 21
INVARIANTS RestIsBounded SilenceIsPolled
PROPERTY RequestsAreServed
