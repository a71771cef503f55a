\* bank, store and checkin under the event loop, in four fault regimes.
SPECIFICATION Spec
CONSTANTS
    Users = {u1, u2}
    Slots = {s1, s2}
    None = None
    MaxInt = 4
    InitialRows <- MCInitialRows
    Withdrawals <- MCWithdrawals
    Rewards <- MCRewards
    Price <- MCPrice
    FaultRegimes <- MCFaultRegimes
    MaxOps = 3
    MaxDay = 4
SYMMETRY MCSymmetry
INVARIANTS
    TypeOK
    NoDebt
    NeverOvercharged
    BooksBalance
    StreakBacked
    StreakExact
PROPERTY
    RewardOncePerDay
