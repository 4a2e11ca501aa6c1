\* Tasks i1 and i2 posted by threads; each starts a timer.
CONSTANTS
    i1 = i1
    i2 = i2
    d1 = d1
    d2 = d2
    None = None
    Outside = Outside
    Task = {i1, i2, d1, d2}
    Instant = {i1, i2}
    Timed = {d1, d2}
    Delay = 2
    MaxLate = 1
    Origin <- NestedOrigin
SPECIFICATION Spec
INVARIANTS
    NoTaskLostOrDoubled
PROPERTIES
    DeadlineOrder
    PostedRuns
    StopReturns
CHECK_DEADLOCK FALSE
