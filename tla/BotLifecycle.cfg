SPECIFICATION FairSpec
CONSTANTS
    s1 = s1
    s2 = s2
    Stops = {s1, s2}
    MaxRuns = 2
    Gateways = {FALSE, TRUE}
INVARIANTS OverIsStopped RunningIsKnown StrategyRestsDuringCancellation
PROPERTY CancellationsEndRuns
