SPECIFICATION FairSpec
CONSTANTS
    Setups <- AllSetups
    Amount = 1
    MinOrderSize = 1
    _max_retries = 2
 
 
PROPERTY ShutdownEnds
CHECK_DEADLOCK FALSE
