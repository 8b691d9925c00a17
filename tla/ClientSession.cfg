SPECIFICATION Spec
CONSTANTS
    Tasks = {t1, t2}
    Accounts = {alice, bob}
    None = None
    MaxCalls = 2
    MaxEvents = 1
INVARIANTS
    LogoutsHitTheirSession
    OneAccountNoGap
PROPERTIES
    NoEventTwice
    StreamCatchesUp
CHECK_DEADLOCK FALSE
