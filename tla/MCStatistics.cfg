\* Messages, interactions and guild events over three local dates.
SPECIFICATION Spec
CONSTANTS
    Users = {u1}
    Groups = {g}
    Channels = {c}
    Slots = {s1}
    None = None
    UnitsPerDay = 2
    Zone = 1
    MaxTime = 3
    MaxDelay = 1
    MaxOps = 2
    FaultRegimes <- MCFaultRegimes
INVARIANTS
    TypeOK
    ActiveIsSeen
    NoMoreThanHappened
    NothingLost
    NewUsersAreRecent
CONSTRAINT MCTime
