\* Messages and edits of the blacklist in three fault regimes.
SPECIFICATION Spec
CONSTANTS
    u = u
    g = g
    Sources = {u, g}
    Messages <- MCMessages
    Keys <- MCKeys
    NoBucket = NoBucket
    Unit = 2
    Burst = 1
    IdleLimit = 2
    MaxTime = 3
    Slots = {s1, s2}
    Editors = {e1, e2}
    None = None
    MaxOps = 3
    MaxEdits = 2
    FaultRegimes <- MCFaultRegimes
SYMMETRY MCSymmetry
INVARIANTS
    TypeOK
    RateBounded
    CacheFollowsRows
    BarredStayOut
    BarredSpendNothing
CONSTRAINT MCConstraint
