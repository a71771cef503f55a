\* Deadlock is not checked: the bot may be idle, its bounds used up.
SPECIFICATION Spec
CHECK_DEADLOCK FALSE
CONSTANTS
    None = None
    NoCommand = NoCommand
    Nobody = Nobody
    Never = Never
    NoPassword = NoPassword
    Slots <- MCSlots
    MaxOps = 2
    Commands <- MCCommands
    Words <- MCWords
    Configs <- MCConfigs
    Chatter = "chatter"
    Listeners <- MCListeners
    EventTypes = {"message", "guild"}
    Clients = {k1, k2}
    Tellers <- MCTellers
    Writers = {w1, w2}
    Room = 1
    Batch = 1
    MaxLogs = 3
    Fns = {f, g}
    LockingFns = {g}
    Jobs = {j1, j2}
    Callers <- MCCallers
    MaxTasks = 1
    MaxFires = 2
    Passwords = {p, q}
    TTL = 1
    MaxRequests = 3
    MaxTime = 2
    Keys = {x}
    Getters = {r1, r2}
    Lifetimes = {0, 1}
    MaxSets = 3
    InitialWait = 1
    MaxWait = 5
    MaxSessions = 4
    MaxEdits = 3
    Loads <- MCLoads
INVARIANTS
    TypeOK
    SessionEnds
    MapIsExact
    LogsShown
    RunsWhatIsMeant
    ListenersInOrder
    FreshSurvives
PROPERTIES
    PasswordKept
    StopReturns
    LoopGoesOn
    Reconnected
