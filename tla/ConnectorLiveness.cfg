SPECIFICATION FairXSpec
CONSTANTS
    o1 = o1
    o2 = o2
    t1 = t1
    t2 = t2
    Orders = {o1}
    Trades = {t1}
    Amount <- MCAmount
    FillAmount <- MCWholeFill
    ReportedStates = {"PENDING_CREATE", "OPEN", "PENDING_CANCEL", "CANCELED", "PARTIALLY_FILLED", "FILLED", "FAILED"}
    LostOrderLimit = 0
    MaxTasks = 2
    is_cancel_request_in_exchange_synchronous = FALSE
    Cancellable = {}
    MaxStream = 0
PROPERTIES FinalReportEndsTracking EndedOrdersStopBeingActive EndedOrdersStopBeingLost 
