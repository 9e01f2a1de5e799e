SPECIFICATION ThrottlerSpec
CONSTANTS
    pool = pool
    orders = orders
    r1 = r1
    r2 = r2
    r3 = r3
    r4 = r4
    Requests = {r1, r2, r3, r4}
    LimitIds <- MCLimitIds
    Limit <- MCLimit
    Interval <- MCInterval
    Margin <- MCMargin
    Counts <- MCCounts
    LimitsPct = 50
    RetryInterval = 2
INVARIANTS CallsStayWithinLimits
 
