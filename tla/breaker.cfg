CONSTANTS
    Callers = {p1, p2, p3, p4}
    MaxRequests = 5
    MinRequests = 3
    Num = 3
    Den = 5
    Interval = 2
    Timeout = 3
    MaxCount = 7
SPECIFICATION TrafficSpec
INVARIANTS
    CountsAddUp
    HalfOpenProbes
PROPERTIES
    EarnedClosing
    Recovers
