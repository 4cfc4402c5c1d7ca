CONSTANTS
    nomic = nomic
    other = other
    large = large
    Models = {nomic, other, large}
    Configured = nomic
    Repos = {r1, r2}
    ListLimit = 2
    NumFiles = 1
    Calls = {c1, c2}
    MaxFaults = 0
    MaxRestarts = 0
    Dim <- Lengths
CHECK_DEADLOCK FALSE
SPECIFICATION Spec
INVARIANTS
    IndicesAreReplaced
