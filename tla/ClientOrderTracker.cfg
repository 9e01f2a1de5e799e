SPECIFICATION Spec
CONSTANTS
    o1 = o1
    o2 = o2
    t1 = t1
    t2 = t2
    Orders = {o1}
    Trades = {t1, t2}
    Amount <- MCAmount
    FillAmount <- MCFillAmount
    ReportedStates = {"PENDING_CREATE", "OPEN", "PENDING_CANCEL", "CANCELED", "PARTIALLY_FILLED", "FILLED", "FAILED"}
    LostOrderLimit = 1
    MaxTasks = 2
INVARIANTS TypeOK ActiveAreOpen TrackedOnce EndedAreAnnounced FillsAddUp
PROPERTY ImplementsLifecycle
SYMMETRY TradeSymmetry
