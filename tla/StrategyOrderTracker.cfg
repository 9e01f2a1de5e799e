SPECIFICATION Spec
CONSTANTS
    o1 = o1
    o2 = o2
    Orders = {o1, o2}
    CANCEL_EXPIRY_DURATION = 1
    SHADOW_MAKER_ORDER_KEEP_ALIVE_DURATION = 2
    MaxTime = 6
INVARIANTS TrackingFollowsEvents ShadowOutlivesTracking 
PROPERTY CancelsAreSpaced
SYMMETRY OrderSymmetry
