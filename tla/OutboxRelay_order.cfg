SPECIFICATION Spec
CONSTANTS
    Events = {e1, e2}
    Relays = {p1}
    BatchSize = 2
    MaxClock = 1
    MaxFaults = 0
INVARIANT NeverAheadOfEarlier
CHECK_DEADLOCK FALSE
