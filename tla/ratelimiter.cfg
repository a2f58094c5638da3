\* Two keys, two calls per window of three ticks, eight instants.
CONSTANTS
    Keys = {k1, k2}
    MaxCalls = 2
    Period = 3
    MaxTime = 7
SPECIFICATION Spec
INVARIANTS TypeOK WindowHolds
PROPERTIES ImplementsSlidingWindow
CHECK_DEADLOCK FALSE
