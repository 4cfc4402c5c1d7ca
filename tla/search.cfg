CONSTANTS
    Servers = {s1, s2}
    Searches = {q1, q2}
    Modes = {"hybrid", "nil"}
    SearchTTL = 2
    MemoryTTL = 1
    Latency = 1
    MaxVersion = 1
    Chunks = {c1, c2, c3}
    Repos = {r1, r2}
    Distances = {0, 60, 61, 75, 76, 150}
    Limits <- SampleLimits
    StandardLimit = 2
    SafetyLimit = 2
SPECIFICATION FairPartsSpec
CHECK_DEADLOCK FALSE
INVARIANTS
    BoundedStaleness
    BestFirst
PROPERTIES
    Converges
