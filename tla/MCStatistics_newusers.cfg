\* One user, no faults.
SPECIFICATION Spec
CONSTANTS
    Users = {u1}
    Groups = {g}
    Channels = {c}
    Slots = {s1}
    None = None
    UnitsPerDay = 2
    Zone = 1
    MaxTime = 0
    MaxDelay = 0
    MaxOps = 3
    FaultRegimes <- MCReliable
INVARIANT NewUsersAreUsers
