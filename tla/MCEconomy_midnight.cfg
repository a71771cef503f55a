\* A check-in at midnight, nothing fails.
SPECIFICATION Spec
CONSTANTS
    Users = {u1, u2}
    Slots = {s1}
    None = None
    MaxInt = 100
    InitialRows <- MCInitialRows
    Withdrawals <- MCWithdrawals
    Rewards <- MCRewards
    Price <- MCPrice
    FaultRegimes <- MCReliable
    MaxOps = 3
    MaxDay = 4
SYMMETRY MCSymmetry
INVARIANT StreakContinues
