\* Three listeners, two tags, triggers nested twice.
CONSTANTS
    Listeners = {l1, l2, l3}
    Tags = {t1, t2}
    NoTag = NoTag
    NoListener = NoListener
    MaxDepth = 2
SPECIFICATION Spec
SYMMETRY ListenerSymmetry
CHECK_DEADLOCK FALSE
INVARIANTS OnlyLostMidTrigger
PROPERTY TriggerReachesItsListeners
