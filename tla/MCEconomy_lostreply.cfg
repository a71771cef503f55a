\* An answer of the game is lost; integers are wide enough for every sum.
SPECIFICATION Spec
CONSTANTS
    Users = {u1, u2}
    Slots = {s1}
    None = None
    MaxInt = 100
    InitialRows <- MCInitialRows
    Withdrawals <- MCWithdrawals
    Rewards <- MCRewards
    Price <- MCPrice
    FaultRegimes <- MCLostReply
    MaxOps = 3
    MaxDay = 4
SYMMETRY MCSymmetry
INVARIANT WithdrawalTakesGold
