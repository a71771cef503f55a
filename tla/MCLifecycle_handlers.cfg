\* One shutdown, while a handler runs.
SPECIFICATION Spec
CONSTANTS
    Capacity = 1
    MaxEvents = 1
    Callers <- MCSignal
INVARIANT GoroutinesFinish
