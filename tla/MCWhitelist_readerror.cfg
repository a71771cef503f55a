\* A query of the table fails.
SPECIFICATION Spec
CONSTANTS
    Users = {u1, u2}
    Names = {n1, n2}
    Slots = {s1}
    None = None
    MaxOps = 3
    FaultRegimes <- MCReadError
SYMMETRY MCSymmetry
INVARIANT Deduplicated
