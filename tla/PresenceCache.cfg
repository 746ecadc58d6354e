SPECIFICATION Spec
CONSTANTS
    Key = {k1, k2, k3}
    None = None
    Timeouts = {1, 2}
    MaxCounts = {1, 2}
    MaxTime = 4
INVARIANTS TypeOK Bounded OldestFirst
PROPERTY Refines
