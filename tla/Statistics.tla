----------------------------- MODULE Statistics -----------------------------
(***************************************************************************)
(* internal/storage's daily statistics and tables of what has been seen,   *)
(* as internal/bot writes them.  The event loop records an event in        *)
(* several writes before it starts a handler, the handler counts the       *)
(* command and then its reply, if the message is one and if it is sent.    *)
(* Every change of a day's row is a transaction that reads the row,        *)
(* changes the struct and saves all of it; no error of any write is looked *)
(* at.                                                                     *)
(*                                                                         *)
(* A transaction whose row was changed since it was read fails (SQLite) or *)
(* overwrites the change (MySQL); two that create a row collide in both.   *)
(* Left out: SeenGroupUsers, which is written and never used, the texts    *)
(* and counts of the tables of what has been seen, the table of channel    *)
(* users, from which nothing is counted, and replies after the first.      *)
(*                                                                         *)
(* The faults: "readError" and "saveError" of any statement, "crash" and   *)
(* "timeout" of MessageLoop.                                               *)
(***************************************************************************)
EXTENDS MessageLoop, FiniteSets, Sequences

CONSTANTS
    Users, Groups, Channels,
    UnitsPerDay,   \* the clock's units in a day
    Zone,          \* the local time is this far ahead of UTC
    MaxTime,       \* bound: the last unit
    MaxDelay,      \* bound: the time the loop takes to record an event
    FaultRegimes   \* the sets of faults a behaviour may be given

Scene == {"c2c", "group", "channel"}
Fault == {"readError", "saveError", "crash", "timeout"}
Never == -1
Seen == Users \cup Groups \cup Channels

ASSUME StatisticsAssumption ==
    /\ UnitsPerDay \in Nat \ {0} /\ Zone \in Nat /\ MaxTime \in Nat
    /\ FaultRegimes \subseteq SUBSET Fault
    /\ "loop" \notin Slots
    /\ None \notin Seen

\* An event that midnight in UTC meets is recorded before local midnight.
ASSUME DelayAssumption == MaxDelay \in Nat /\ MaxDelay + Zone <= UnitsPerDay

VARIABLES
    days,      \* the daily_records table: the row of a date, or None
    firstSeen, \* first_seen_at of the tables of users, groups and channels
    clock,     \* UTC
    event,     \* the event the loop is recording, with its writes to do
    tx,        \* the open transaction of the loop and of each handler
    ideal      \* auxiliary: the rows if every change begun had been made

table == <<days, firstSeen, ideal>>
vars == <<handlers, loop, ops, faults, table, clock, event, tx>>

LocalDate(t) == (t + Zone) \div UnitsPerDay
Dates == 0 .. LocalDate(MaxTime)

\* Mutant: new is who has been recorded, whenever that was.
NewEver(k) == firstSeen[k] # Never

\* IsNew...Today: Truncate(24h) goes back to midnight in UTC.
NewToday(k) ==
    firstSeen[k] # Never /\ firstSeen[k] >= clock - (clock % UnitsPerDay)

Row == [incoming : [Scene -> Nat], active : [Scene -> Nat],
        fresh : [Scene -> Nat], removed : [Scene -> Nat],
        outgoing : [Scene -> Nat], seen : [Scene -> SUBSET Seen],
        commands : Nat, interactions : Nat]

NoCount == [s \in Scene |-> 0]
EmptyRow ==
    [incoming |-> NoCount, active |-> NoCount, fresh |-> NoCount,
     removed |-> NoCount, outgoing |-> NoCount,
     seen |-> [s \in Scene |-> {}], commands |-> 0, interactions |-> 0]

-----------------------------------------------------------------------------
(* Changes of a row.  A change is a kind, a scene and who is active in it. *)

Change(kind, s, k) == [kind |-> kind, scene |-> s, who |-> k]

\* Mutant: everyone who writes is counted as active, again and again.
CountedAgain(r, s, k) == 1

\* addToJSONSet: one for who is not in the set yet.
Counted(r, s, k) == IF k \in r.seen[s] THEN 0 ELSE 1

Apply(c, r) ==
    CASE c.kind = "incoming" ->
            [r EXCEPT !.incoming[c.scene] = @ + 1,
                      !.active[c.scene] = @ + Counted(r, c.scene, c.who),
                      !.seen[c.scene] = @ \cup {c.who}]
      [] c.kind = "fresh" -> [r EXCEPT !.fresh[c.scene] = @ + 1]
      [] c.kind = "removed" -> [r EXCEPT !.removed[c.scene] = @ + 1]
      [] c.kind = "outgoing" -> [r EXCEPT !.outgoing[c.scene] = @ + 1]
      [] c.kind = "command" -> [r EXCEPT !.commands = @ + 1]
      [] c.kind = "interaction" -> [r EXCEPT !.interactions = @ + 1]

\* upsertDaily reads or makes up the row of today's date.
Begin(a, c) ==
    LET d == LocalDate(clock) IN
    /\ tx[a] = None
    /\ ideal' = [ideal EXCEPT ![d] = Apply(c, @)]
    /\ \/ tx' = [tx EXCEPT ![a] = [date |-> d, row |-> days[d], change |-> c]]
       \/ /\ "readError" \in faults
          /\ tx' = [tx EXCEPT ![a] = [date |-> d, row |-> None,
                                      change |-> None]]

\* Mutant: the row of a new day is not created.
SaveExisting(t) ==
    days' = IF t.row = None THEN days
            ELSE [days EXCEPT ![t.date] = Apply(t.change, t.row)]

\* Mutant: the change is made on the row as it is now, and once more.
SaveTwice(t) ==
    days' = [days EXCEPT ![t.date] =
                Apply(t.change, Apply(t.change,
                    IF t.row = None THEN EmptyRow ELSE t.row))]

Save(t) ==
    /\ t.row = None => days[t.date] = None
    /\ days' = [days EXCEPT ![t.date] =
                    Apply(t.change, IF t.row = None THEN EmptyRow
                                    ELSE t.row)]

\* It saves the whole row, or fails and changes nothing.
End(a) ==
    LET t == tx[a] IN
    /\ t # None
    /\ tx' = [tx EXCEPT ![a] = None]
    /\ \/ t.change # None /\ Save(t)
       \/ /\ \/ t.change = None
             \/ "saveError" \in faults
             \/ days[t.date] # t.row
          /\ UNCHANGED days

-----------------------------------------------------------------------------
(* What the loop does for an event, before it starts a handler.            *)

Todo(kind, m) ==
    CASE kind = "message" -> <<"incoming", "check", "user", "place">>
      [] kind = "interaction" -> <<"interaction", "user", "place">>
      [] kind = "guildCreate" -> <<"freshChannel", "freshGroup", "guild">>
      [] kind = "guildDelete" -> <<"goneChannel", "goneGroup", "guild">>
      [] kind = "guildOther" -> <<"guild">>

Messages ==
    [scene : {"c2c"}, user : Users, place : {None}]
    \cup [scene : {"group"}, user : Users, place : Groups]
    \cup [scene : {"channel"}, user : {None}, place : Channels]

\* An interaction has a user and possibly a group, a guild event a channel.
EventsOf(kind) ==
    CASE kind = "message" -> Messages
      [] kind = "interaction" ->
            [scene : {"c2c"}, user : Users, place : Groups \cup {None}]
      [] OTHER -> [scene : {"channel"}, user : {None}, place : Channels]

EventKind == {"message", "interaction", "guildCreate", "guildDelete",
              "guildOther"}

\* Whom a message's scene counts: the user, the group or the channel.
Who(m) == IF m.scene = "c2c" THEN m.user ELSE m.place

ChangeTodo(step, m) ==
    CASE step = "incoming" -> Change("incoming", m.scene, Who(m))
      [] step = "fresh" -> Change("fresh", m.scene, None)
      [] step = "interaction" -> Change("interaction", m.scene, None)
      [] step = "freshChannel" -> Change("fresh", "channel", None)
      [] step = "freshGroup" -> Change("fresh", "group", None)
      [] step = "goneChannel" -> Change("removed", "channel", None)
      [] step = "goneGroup" -> Change("removed", "group", None)

Counting == {"incoming", "fresh", "interaction", "freshChannel",
             "freshGroup", "goneChannel", "goneGroup"}

Arrive ==
    /\ loop = None /\ event = None
    /\ ops < MaxOps
    /\ \E kind \in EventKind : \E m \in EventsOf(kind) :
         event' = [kind |-> kind, msg |-> m, todo |-> Todo(kind, m),
                   since |-> clock]
    /\ ops' = ops + 1
    /\ UNCHANGED <<handlers, loop, faults, table, clock, tx>>

Doing(steps) == event # None /\ event.todo # <<>> /\ Head(event.todo) \in steps
Drop == event' = [event EXCEPT !.todo = Tail(@)]

LoopBegin ==
    /\ Doing(Counting)
    /\ Begin("loop", ChangeTodo(Head(event.todo), event.msg))
    /\ UNCHANGED <<handlers, loop, ops, faults, days, firstSeen, clock, event>>

LoopEnd ==
    /\ End("loop")
    /\ Drop
    /\ UNCHANGED <<handlers, loop, ops, faults, firstSeen, ideal, clock>>

\* The new-user check: a row that is there already and from today.
LoopCheck ==
    /\ Doing({"check"})
    /\ \/ /\ NewToday(Who(event.msg))
          /\ event' = [event EXCEPT !.todo = <<"fresh">> \o Tail(@)]
       \/ /\ ~ NewToday(Who(event.msg)) \/ "readError" \in faults
          /\ Drop
    /\ UNCHANGED <<handlers, loop, ops, faults, table, clock, tx>>

\* Insert a row, or update the one that is there except for first_seen_at.
UpsertSeen(k) ==
    firstSeen' = [firstSeen EXCEPT ![k] = IF @ = Never THEN clock ELSE @]

\* RecordUser, RecordGroup, RecordChannel: nothing for an empty id.
LoopUpsert ==
    /\ Doing({"user", "place", "guild"})
    /\ LET k == IF Head(event.todo) = "user" THEN event.msg.user
                ELSE event.msg.place
       IN  \/ k # None /\ UpsertSeen(k)
           \/ (k = None \/ "saveError" \in faults) /\ UNCHANGED firstSeen
    /\ Drop
    /\ UNCHANGED <<handlers, loop, ops, faults, days, ideal, clock, tx>>

\* Everything is recorded: a message's handler is started.
LoopDispatch ==
    /\ event # None /\ event.todo = <<>>
    /\ event' = None
    /\ IF event.kind = "message"
       THEN \E s \in Slots :
              /\ ~ Running(s)
              /\ handlers' = [handlers EXCEPT ![s] =
                    [pc |-> "command", op |-> event.msg.scene]]
              /\ loop' = s
       ELSE UNCHANGED <<handlers, loop>>
    /\ UNCHANGED <<ops, faults, table, clock, tx>>

-----------------------------------------------------------------------------
(* A handler counts the command, if the message is one, and its reply.     *)

HandlerChange(s) ==
    IF handlers[s].pc = "command" THEN Change("command", "c2c", None)
    ELSE Change("outgoing", handlers[s].op, None)

HandlerBegin(s) ==
    /\ Running(s)
    /\ Begin(s, HandlerChange(s))
    /\ UNCHANGED <<handlers, loop, ops, faults, days, firstSeen, clock, event>>

HandlerEnd(s) ==
    /\ Running(s)
    /\ End(s)
    /\ IF handlers[s].pc = "command" THEN Goto(s, "reply") ELSE Finish(s)
    /\ UNCHANGED <<ops, faults, firstSeen, ideal, clock, event>>

\* No command, or no reply.
HandlerSkip(s) ==
    /\ Running(s) /\ tx[s] = None
    /\ IF handlers[s].pc = "command" THEN Goto(s, "reply") ELSE Finish(s)
    /\ UNCHANGED <<ops, faults, table, clock, event, tx>>

-----------------------------------------------------------------------------

Timeout == WaitEnds /\ UNCHANGED <<faults, table, clock, event, tx>>

Crash ==
    /\ "crash" \in faults
    /\ event # None \/ ~ Idle
    /\ handlers' = [s \in Slots |-> None]
    /\ loop' = None
    /\ event' = None
    /\ tx' = [a \in DOMAIN tx |-> None]
    /\ UNCHANGED <<ops, faults, table, clock>>

Tick ==
    /\ clock < MaxTime
    /\ event # None => clock < event.since + MaxDelay
    /\ clock' = clock + 1
    /\ UNCHANGED <<handlers, loop, ops, faults, table, event, tx>>

Init ==
    /\ handlers = [s \in Slots |-> None]
    /\ loop = None
    /\ ops = 0
    /\ faults \in FaultRegimes
    /\ days = [d \in Dates |-> None]
    /\ firstSeen = [k \in Seen |-> Never]
    /\ clock = 0
    /\ event = None
    /\ tx = [a \in Slots \cup {"loop"} |-> None]
    /\ ideal = [d \in Dates |-> EmptyRow]

Done == Idle /\ event = None /\ ops = MaxOps /\ clock = MaxTime /\ UNCHANGED vars

Next ==
    \/ Arrive \/ LoopBegin \/ LoopEnd \/ LoopCheck \/ LoopUpsert
    \/ LoopDispatch
    \/ \E s \in Slots : HandlerBegin(s) \/ HandlerEnd(s) \/ HandlerSkip(s)
    \/ Timeout \/ Crash \/ Tick \/ Done

Spec == Init /\ [][Next]_vars

-----------------------------------------------------------------------------
(* What the variables hold. *)

Handler == [pc : {"command", "reply"}, op : Scene]

Event ==
    [kind : EventKind, msg : UNION {EventsOf(kind) : kind \in EventKind},
     todo : Seq(Counting \cup {"check", "user", "place", "guild"}),
     since : 0 .. MaxTime]

SomeChange ==
    [kind : {"incoming"}, scene : Scene, who : Seen]
    \cup [kind : {"fresh", "removed", "outgoing", "command", "interaction"},
          scene : Scene, who : {None}]

Transaction ==
    [date : Dates, row : Row \cup {None}, change : SomeChange \cup {None}]

ASSUME StatisticsNoneAssumption ==
    /\ None \notin Row /\ None \notin Handler /\ None \notin Event
    /\ None \notin SomeChange /\ None \notin Transaction

-----------------------------------------------------------------------------
(* Properties. *)

TypeOK ==
    /\ handlers \in [Slots -> Handler \cup {None}]
    /\ loop \in Slots \cup {None}
    /\ loop # None => Running(loop) /\ event = None
    /\ ops \in 0 .. MaxOps
    /\ faults \in SUBSET Fault
    /\ days \in [Dates -> Row \cup {None}]
    /\ firstSeen \in [Seen -> 0 .. MaxTime \cup {Never}]
    /\ clock \in 0 .. MaxTime
    /\ event \in Event \cup {None}
    /\ tx \in [Slots \cup {"loop"} -> Transaction \cup {None}]
    /\ tx["loop"] # None => Doing(Counting)
    /\ \A s \in Slots : tx[s] # None => Running(s)
    /\ ideal \in [Dates -> Row]

(***************************************************************************)
(* The number of active users, groups or channels of a day is the size of  *)
(* the set of those seen, whatever transactions fail or overwrite others:  *)
(* the two are in one row.                                                 *)
(***************************************************************************)
ActiveIsSeen ==
    \A d \in Dates : days[d] # None =>
        \A s \in Scene : days[d].active[s] = Cardinality(days[d].seen[s])

(***************************************************************************)
(* A day's row never counts what did not happen: handlers that overlap,    *)
(* failed writes and crashes lose counts and add none.                     *)
(***************************************************************************)
NoMoreThanHappened ==
    \A d \in Dates : days[d] # None =>
        /\ \A s \in Scene :
             /\ days[d].incoming[s] <= ideal[d].incoming[s]
             /\ days[d].fresh[s] <= ideal[d].fresh[s]
             /\ days[d].removed[s] <= ideal[d].removed[s]
             /\ days[d].outgoing[s] <= ideal[d].outgoing[s]
             /\ days[d].seen[s] \subseteq ideal[d].seen[s]
        /\ days[d].commands <= ideal[d].commands
        /\ days[d].interactions <= ideal[d].interactions

(***************************************************************************)
(* Without faults nothing is lost either, across any number of midnights.  *)
(***************************************************************************)
NothingLost ==
    faults = {} /\ (\A a \in DOMAIN tx : tx[a] = None) =>
        \A d \in Dates :
            ideal[d] = IF days[d] = None THEN EmptyRow ELSE days[d]

(* The check of a new user counts days in UTC, the row that is counted in  *)
(* has a local date.  A date whose row has a new user has one all the      *)
(* same: a user was first seen in the UTC day that begins during that date *)
(* or in the one before, and not after that date.                          *)
(***************************************************************************)
NewUsersAreRecent ==
    \A d \in Dates : days[d] # None /\ days[d].fresh["c2c"] > 0 =>
        \E u \in Users :
            /\ firstSeen[u] # Never
            /\ firstSeen[u] \div UnitsPerDay \in {d - 1, d}
            /\ LocalDate(firstSeen[u]) <= d

(***************************************************************************)
(* daily.go:73 says of RecordC2CNewUser that it "records a new C2C user    *)
(* (first time seen)": a day has no more new users than it has users.  The *)
(* check looks for a row of the user before the user is recorded, so it is *)
(* false for the first message and true for every later one of the day.    *)
(***************************************************************************)
NewUsersAreUsers ==
    \A d \in Dates : days[d] # None =>
        days[d].fresh["c2c"] <= Cardinality(ideal[d].seen["c2c"])

=============================================================================
