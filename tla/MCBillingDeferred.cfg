SPECIFICATION BillSpec
CONSTANTS
    Users = {u1, u2}
    Subs = {s1, s2}
    MaxEvents <- MCDeferred
    None = None
SYMMETRY MCSymmetry
CHECK_DEADLOCK FALSE
INVARIANTS
    AcknowledgedIsApplied
