\* Applications and removals in four fault regimes.
SPECIFICATION Spec
CONSTANTS
    Users = {u1, u2}
    Names = {n1, n2}
    Slots = {s1, s2}
    None = None
    MaxOps = 5
    FaultRegimes <- MCFaultRegimes
SYMMETRY MCSymmetry
INVARIANTS
    TypeOK
    OneNamePerUser
    RecordedIsListed
    TablesAgree
PROPERTY
    RowsFollowTheGame
