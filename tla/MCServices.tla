------------------------------ MODULE MCServices ----------------------------
EXTENDS Services

Of(mode, names) == [mode |-> mode, of |-> names]

MCCommands == {
    [name |-> "bank", aliases |-> <<"money">>, level |-> AnyLevel],
    [name |-> "give", aliases |-> <<"hand", "bank">>,
     level |-> Of("list", {"admin", "owner"})],
    [name |-> "take", aliases |-> <<"money">>, level |-> Of("exact", {"owner"})],
    [name |-> "take", aliases |-> <<>>, level |-> Of("least", {"admin"})]}

MCWords == {"bank", "give", "take", "money", "hand", "chatter"}

MCConfigs == {
    <<>>,
    "money" :> Of("least", {"admin"}),
    ("hand" :> Of("list", {"member", "public"}))
        @@ ("take" :> Of("list", {"owner", "unknown"})),
    ("give" :> Of("exact", {"member"})) @@ ("bank" :> Of("least", {"member"}))}

MCListeners == {
    [name |-> "l1", event |-> "guild", order |-> 1],
    [name |-> "l2", event |-> "guild", order |-> 0],
    [name |-> "l3", event |-> "message", order |-> 2],
    [name |-> "l4", event |-> "message", order |-> 1],
    [name |-> "l5", event |-> "message", order |-> 1]}

With(parts, breaks) == [load |-> parts, faults |-> breaks]

MCLoads == {
    With({"commands"}, {}),
    With({"commands", "streams"}, {}),
    With({"events", "stop"}, {"hang"}),
    With({"events", "streams"}, {"sameInstant", "timeout"}),
    With({"events", "edits"}, {}),
    With({"streams", "logs"}, {}),
    With({"streams", "logs"}, {"readError", "writeError", "overlap", "lateCommit"}),
    With({"requests"}, {"readError", "writeError", "crash"}),
    With({"requests", "time"}, {}),
    With({"requests", "jobs"}, {}),
    With({"jobs", "stop"}, {}),
    With({"cache", "time"}, {}),
    With({"session", "stop"}, {})}

MCSlots == {"s1", "s2"}
MCTellers == MCSlots \cup {LoopTeller}
MCCallers == {"signal", Panel}
=============================================================================
