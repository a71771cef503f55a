\* A channel for one event, and two shutdowns that may overlap.
SPECIFICATION Spec
CONSTANTS
    Capacity = 1
    MaxEvents = 3
    Callers <- MCTwoCallers
INVARIANTS
    TypeOK
    AcceptedInOrder
    StorageOutlivesLoop
    PanicNeedsCause
PROPERTIES
    EventsAreTaken
    ShutdownEnds
    LoopRuns
