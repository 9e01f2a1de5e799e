SPECIFICATION RSpec
CONSTANTS
    o1 = o1
    o2 = o2
    t1 = t1
    t2 = t2
    Orders = {o1, o2}
    Trades = {t1}
    Amount <- MCAmount
    FillAmount <- MCFillAmount
    ReportedStates = {"OPEN", "CANCELED"}
    LostOrderLimit = 0
    MaxTasks = 1
INVARIANTS RecoveryMatchesTracking SavedFillsAreCurrent
SYMMETRY OrderSymmetry
