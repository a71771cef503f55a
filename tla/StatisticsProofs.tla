-------------------------- MODULE StatisticsProofs --------------------------
(***************************************************************************)
(* Proofs about the daily statistics, for any users, groups and channels,  *)
(* any number of handlers, any length of a day, any time zone ahead of UTC *)
(* and every fault: what a day's row never gets wrong, and that without    *)
(* faults it gets nothing wrong.                                           *)
(***************************************************************************)
EXTENDS Statistics, FiniteSetTheorems, TLAPS

-----------------------------------------------------------------------------
(* Dates. *)

(* Division by the units of a day does not reverse an order. *)
LEMMA DivMonotone ==
    ASSUME NEW a \in Nat, NEW b \in Nat, a <= b, NEW n \in Nat \ {0}
    PROVE  a \div n \in Nat /\ a \div n <= b \div n
<1> DEFINE p == a \div n
           q == b \div n
<1>1. /\ p \in Nat /\ q \in Nat
      /\ a = n * p + (a % n) /\ b = n * q + (b % n)
      /\ a % n \in 0 .. n - 1 /\ b % n \in 0 .. n - 1
  OBVIOUS
<1>2. CASE p > q
  <2>1. p >= q + 1
    BY <1>1, <1>2
  <2>2. n * p >= n * (q + 1)
    BY <1>1, <2>1
  <2>3. n * (q + 1) = n * q + n
    BY <1>1
  <2>4. QED
    BY <1>1, <2>2, <2>3
<1>3. QED
  BY <1>1, <1>2

(* Between midnight and a moment there is one day. *)
LEMMA SameDay ==
    ASSUME NEW c \in Nat, NEW f \in Nat, NEW U \in Nat \ {0}, f >= c - (c % U), f <= c
    PROVE  f \div U = c \div U
<1> DEFINE p == f \div U
           q == c \div U
<1>1. /\ p \in Nat /\ f = U * p + (f % U) /\ f % U \in 0 .. U - 1
      /\ q \in Nat /\ c = U * q + (c % U) /\ c % U \in 0 .. U - 1
  OBVIOUS
<1>2. p <= q
  BY DivMonotone
<1> HIDE DEF p, q
<1>3. ASSUME p + 1 <= q
      PROVE  FALSE
  <2>1. U * (p + 1) <= U * q
    BY <1>1, <1>3
  <2>2. U * (p + 1) = U * p + U
    BY <1>1
  <2>3. QED
    BY <1>1, <2>1, <2>2
<1>4. p = q
  BY <1>1, <1>2, <1>3
<1>5. QED
  BY <1>4 DEF p, q

(* Today's date is one of the table's. *)
LEMMA TodayIsADate ==
    ASSUME clock \in 0 .. MaxTime
    PROVE  LocalDate(clock) \in Dates
<1>1. clock + Zone \in Nat /\ MaxTime + Zone \in Nat /\ UnitsPerDay \in Nat \ {0}
      /\ clock + Zone <= MaxTime + Zone
  BY StatisticsAssumption
<1>2. /\ (clock + Zone) \div UnitsPerDay \in Nat
      /\ (MaxTime + Zone) \div UnitsPerDay \in Nat
      /\ (clock + Zone) \div UnitsPerDay <= (MaxTime + Zone) \div UnitsPerDay
  BY <1>1, DivMonotone
<1>3. QED
  BY <1>2 DEF LocalDate, Dates

-----------------------------------------------------------------------------
(* Changes. *)

(* The row that is made up for a day without one. *)
LEMMA EmptyRowType == EmptyRow \in Row
BY DEF EmptyRow, Row, NoCount

(* A change of a row gives a row. *)
LEMMA ApplyType ==
    ASSUME NEW c \in SomeChange, NEW r \in Row
    PROVE  Apply(c, r) \in Row
<1>1. c.kind \in {"incoming", "fresh", "removed", "outgoing", "command", "interaction"}
      /\ c.scene \in Scene
  BY DEF SomeChange
<1>2. CASE c.kind = "incoming"
  <2>1. c.who \in Seen
    BY <1>2 DEF SomeChange
  <2>2. Counted(r, c.scene, c.who) \in Nat
    BY DEF Counted
  <2>3. /\ [r.incoming EXCEPT ![c.scene] = @ + 1] \in [Scene -> Nat]
        /\ [r.active EXCEPT ![c.scene] = @ + Counted(r, c.scene, c.who)]
              \in [Scene -> Nat]
        /\ [r.seen EXCEPT ![c.scene] = @ \cup {c.who}] \in [Scene -> SUBSET Seen]
    BY <1>1, <2>1, <2>2 DEF Row
  <2>4. [r EXCEPT !.incoming[c.scene] = @ + 1,
                  !.active[c.scene] = @ + Counted(r, c.scene, c.who),
                  !.seen[c.scene] = @ \cup {c.who}] \in Row
    BY <2>3 DEF Row
  <2>5. QED
    BY <1>2, <2>4 DEF Apply
<1>3. CASE c.kind = "fresh"
  <2>1. [r EXCEPT !.fresh[c.scene] = @ + 1] \in Row
    BY <1>1 DEF Row
  <2>2. QED
    BY <1>3, <2>1 DEF Apply
<1>4. CASE c.kind = "removed"
  <2>1. [r EXCEPT !.removed[c.scene] = @ + 1] \in Row
    BY <1>1 DEF Row
  <2>2. QED
    BY <1>4, <2>1 DEF Apply
<1>5. CASE c.kind = "outgoing"
  <2>1. [r EXCEPT !.outgoing[c.scene] = @ + 1] \in Row
    BY <1>1 DEF Row
  <2>2. QED
    BY <1>5, <2>1 DEF Apply
<1>6. CASE c.kind = "command"
  <2>1. [r EXCEPT !.commands = @ + 1] \in Row
    BY DEF Row
  <2>2. QED
    BY <1>6, <2>1 DEF Apply
<1>7. CASE c.kind = "interaction"
  <2>1. [r EXCEPT !.interactions = @ + 1] \in Row
    BY DEF Row
  <2>2. QED
    BY <1>7, <2>1 DEF Apply
<1>8. QED
  BY <1>1, <1>2, <1>3, <1>4, <1>5, <1>6, <1>7

(* Whom an event is about. *)
LEMMA WhoType ==
    ASSUME NEW kind \in EventKind, NEW m \in EventsOf(kind)
    PROVE  /\ m.scene \in Scene /\ Who(m) \in Seen
           /\ m.user \in Users \cup {None}
           /\ m.place \in Groups \cup Channels \cup {None}
<1>1. CASE kind = "message"
  BY <1>1 DEF EventsOf, Messages, Who, Seen, Scene
<1>2. CASE kind = "interaction"
  BY <1>2 DEF EventsOf, Who, Seen, Scene
<1>3. CASE kind \notin {"message", "interaction"}
  BY <1>3 DEF EventsOf, Who, Seen, Scene, EventKind
<1>4. QED
  BY <1>1, <1>2, <1>3

(* What the loop counts for an event is a change. *)
LEMMA ChangeTodoType ==
    ASSUME NEW kind \in EventKind, NEW m \in EventsOf(kind), NEW step \in Counting
    PROVE  ChangeTodo(step, m) \in SomeChange
<1>1. m.scene \in Scene /\ Who(m) \in Seen
  BY WhoType
<1>2. CASE step = "incoming"
  BY <1>1, <1>2 DEF ChangeTodo, Change, SomeChange
<1>3. CASE step # "incoming"
  BY <1>1, <1>3 DEF ChangeTodo, Change, SomeChange, Counting, Scene
<1>4. QED
  BY <1>2, <1>3

(* So is what a handler counts. *)
LEMMA HandlerChangeType ==
    ASSUME TypeOK, NEW s \in Slots, Running(s)
    PROVE  HandlerChange(s) \in SomeChange
<1>1. handlers[s] \in Handler
  BY DEF TypeOK, Running
<1>2. QED
  BY <1>1 DEF HandlerChange, Handler, Change, SomeChange, Scene

-----------------------------------------------------------------------------
(* Types. *)

Actor == Slots \cup {"loop"}

(* A transaction that begins. *)
LEMMA BeginType ==
    ASSUME TypeOK, NEW a \in Actor, NEW c \in SomeChange, Begin(a, c)
    PROVE  /\ tx' \in [Actor -> Transaction \cup {None}]
           /\ ideal' \in [Dates -> Row]
           /\ \A b \in Actor : b # a => tx'[b] = tx[b]
<1> DEFINE d == LocalDate(clock)
<1>1. d \in Dates
  BY TodayIsADate DEF TypeOK
<1>2. ideal[d] \in Row /\ days[d] \in Row \cup {None}
  BY <1>1 DEF TypeOK
<1>3. Apply(c, ideal[d]) \in Row
  BY <1>2, ApplyType
<1>4. ideal' \in [Dates -> Row]
  <2>1. ideal' = [ideal EXCEPT ![d] = Apply(c, ideal[d])]
    BY DEF Begin
  <2>2. QED
    BY <1>1, <1>3, <2>1 DEF TypeOK
<1>5. \A row \in Row \cup {None}, change \in SomeChange \cup {None} :
          [date |-> d, row |-> row, change |-> change] \in Transaction
  BY <1>1 DEF Transaction
<1>6. \E t \in Transaction : tx' = [tx EXCEPT ![a] = t]
  BY <1>2, <1>5 DEF Begin
<1>7. QED
  BY <1>4, <1>6 DEF TypeOK, Actor

(* One that ends. *)
LEMMA EndType ==
    ASSUME TypeOK, NEW a \in Actor, End(a)
    PROVE  /\ days' \in [Dates -> Row \cup {None}]
           /\ tx' \in [Actor -> Transaction \cup {None}]
           /\ tx'[a] = None
           /\ \A b \in Actor : b # a => tx'[b] = tx[b]
<1> DEFINE t == tx[a]
<1>1. t \in Transaction
  BY DEF TypeOK, End, Actor
<1>2. t.date \in Dates /\ t.row \in Row \cup {None} /\ t.change \in SomeChange \cup {None}
  BY <1>1 DEF Transaction
<1>3. days' \in [Dates -> Row \cup {None}]
  <2>1. CASE t.change # None /\ Save(t)
    <3>1. Apply(t.change, IF t.row = None THEN EmptyRow ELSE t.row) \in Row
      BY <1>2, <2>1, ApplyType, EmptyRowType
    <3>2. QED
      BY <1>2, <2>1, <3>1 DEF Save, TypeOK
  <2>2. CASE UNCHANGED days
    BY <2>2 DEF TypeOK
  <2>3. QED
    BY <2>1, <2>2 DEF End
<1>4. tx' = [tx EXCEPT ![a] = None]
  BY DEF End
<1>5. QED
  BY <1>3, <1>4 DEF TypeOK, Actor

LEMMA TypeInit == Init => TypeOK
<1> SUFFICES ASSUME Init
             PROVE  TypeOK
  OBVIOUS
<1>1. ideal \in [Dates -> Row]
  BY EmptyRowType DEF Init
<1>2. 0 \in 0 .. MaxTime /\ 0 \in 0 .. MaxOps
  BY StatisticsAssumption, LoopAssumption
<1>3. firstSeen \in [Seen -> 0 .. MaxTime \cup {Never}]
  BY DEF Init
<1>4. tx \in [Slots \cup {"loop"} -> Transaction \cup {None}]
      /\ \A a \in Slots \cup {"loop"} : tx[a] = None
  BY DEF Init
<1>5. faults \in SUBSET Fault
  BY StatisticsAssumption DEF Init
<1>6. QED
  BY <1>1, <1>2, <1>3, <1>4, <1>5 DEF Init, TypeOK

Steps == Counting \cup {"check", "user", "place", "guild"}

(* What an event gives the loop to do. *)
LEMMA TodoType ==
    ASSUME NEW kind \in EventKind, NEW m
    PROVE  Todo(kind, m) \in Seq(Steps)
<1>1. \A x, y \in Steps : <<x>> \in Seq(Steps) /\ <<x, y>> \in Seq(Steps)
  OBVIOUS
<1>2. \A w, x, y, z \in Steps :
          <<w, x, y>> \in Seq(Steps) /\ <<w, x, y, z>> \in Seq(Steps)
  OBVIOUS
<1>3. {"incoming", "check", "user", "place", "interaction", "freshChannel",
       "freshGroup", "guild", "goneChannel", "goneGroup"} \subseteq Steps
  BY DEF Steps, Counting
<1>4. CASE kind = "message"
  BY <1>2, <1>3, <1>4 DEF Todo
<1>5. CASE kind = "interaction"
  BY <1>2, <1>3, <1>5 DEF Todo
<1>6. CASE kind = "guildCreate"
  BY <1>2, <1>3, <1>6 DEF Todo
<1>7. CASE kind = "guildDelete"
  BY <1>2, <1>3, <1>7 DEF Todo
<1>8. CASE kind = "guildOther"
  BY <1>1, <1>3, <1>8 DEF Todo
<1>9. QED
  BY <1>4, <1>5, <1>6, <1>7, <1>8 DEF EventKind

(* What is left to do after a step. *)
LEMMA DropType ==
    ASSUME TypeOK, event # None, event.todo # <<>>,
           NEW ahead \in {<<>>, <<"fresh">>},
           event' = [event EXCEPT !.todo = ahead \o Tail(@)]
    PROVE  event' \in Event /\ event' # None
<1>1. event \in Event
  BY DEF TypeOK
<1>2. event.todo \in Seq(Steps)
  BY <1>1 DEF Event, Steps
<1>3. ahead \in Seq(Steps)
  <2>1. "fresh" \in Steps
    BY DEF Steps, Counting
  <2>2. <<>> \in Seq(Steps) /\ <<"fresh">> \in Seq(Steps)
    BY <2>1
  <2>3. QED
    BY <2>2
<1>4. ahead \o Tail(event.todo) \in Seq(Steps)
  BY <1>2, <1>3
<1>5. event' \in Event
  BY <1>1, <1>4 DEF Event, Steps
<1>6. QED
  BY <1>5, StatisticsNoneAssumption

(* A handler that goes on or returns. *)
LEMMA HandlerMoves ==
    ASSUME TypeOK, NEW s \in Slots, Running(s),
           IF handlers[s].pc = "command" THEN Goto(s, "reply") ELSE Finish(s)
    PROVE  /\ handlers' \in [Slots -> Handler \cup {None}]
           /\ loop' \in Slots \cup {None}
           /\ loop' # None => loop' = loop /\ Running(loop)'
           /\ \A t \in Slots : t # s => handlers'[t] = handlers[t]
<1>1. handlers[s] \in Handler
  BY DEF TypeOK, Running
<1>2. [handlers[s] EXCEPT !.pc = "reply"] \in Handler
  BY <1>1 DEF Handler
<1>3. [handlers[s] EXCEPT !.pc = "reply"] # None
  BY <1>2, StatisticsNoneAssumption
<1>4. CASE Goto(s, "reply")
  BY <1>2, <1>3, <1>4 DEF Goto, TypeOK, Running
<1>5. CASE Finish(s)
  BY <1>5, LoopAssumption DEF Finish, TypeOK, Running
<1>6. QED
  BY <1>4, <1>5

LEMMA TypeStep == TypeOK /\ [Next]_vars => TypeOK'
<1> SUFFICES ASSUME TypeOK, [Next]_vars
             PROVE  TypeOK'
  OBVIOUS
<1> USE DEF table
<1>0. "loop" \notin Slots
  BY StatisticsAssumption
<1>1. CASE Arrive
  <2>1. PICK kind \in EventKind : \E m \in EventsOf(kind) :
            event' = [kind |-> kind, msg |-> m, todo |-> Todo(kind, m), since |-> clock]
    BY <1>1 DEF Arrive
  <2>2. PICK m \in EventsOf(kind) :
            event' = [kind |-> kind, msg |-> m, todo |-> Todo(kind, m), since |-> clock]
    BY <2>1
  <2>3. Todo(kind, m) \in Seq(Steps) /\ clock \in 0 .. MaxTime
    BY TodoType DEF TypeOK
  <2>4. event' \in Event
    BY <2>2, <2>3 DEF Event, Steps
  <2>5. tx["loop"] = None
    BY <1>1 DEF Arrive, TypeOK, Doing
  <2>6. QED
    BY <1>1, <2>4, <2>5, LoopAssumption DEF Arrive, TypeOK, Running
<1>2. CASE LoopBegin
  <2>1. event \in Event /\ event # None /\ Head(event.todo) \in Counting
    BY <1>2 DEF LoopBegin, Doing, TypeOK
  <2>2. PICK kind \in EventKind : event.msg \in EventsOf(kind)
    BY <2>1 DEF Event
  <2>3. ChangeTodo(Head(event.todo), event.msg) \in SomeChange
    BY <2>1, <2>2, ChangeTodoType
  <2>4. /\ tx' \in [Actor -> Transaction \cup {None}]
        /\ ideal' \in [Dates -> Row]
        /\ \A b \in Actor : b # "loop" => tx'[b] = tx[b]
    BY <1>2, <2>3, BeginType DEF LoopBegin, Actor
  <2>5. Doing(Counting)'
    BY <1>2 DEF LoopBegin, Doing
  <2>6. QED
    BY <1>0, <1>2, <2>4, <2>5 DEF LoopBegin, TypeOK, Running, Actor
<1>3. CASE LoopEnd
  <2>1. event # None /\ event.todo # <<>>
    BY <1>3 DEF LoopEnd, End, TypeOK, Doing
  <2>2. /\ days' \in [Dates -> Row \cup {None}]
        /\ tx' \in [Actor -> Transaction \cup {None}]
        /\ tx'["loop"] = None
        /\ \A b \in Actor : b # "loop" => tx'[b] = tx[b]
    BY <1>3, EndType DEF LoopEnd, Actor
  <2>3. event' \in Event
    <3>1. event' = [event EXCEPT !.todo = <<>> \o Tail(@)]
      BY <1>3, <2>1 DEF LoopEnd, Drop, TypeOK, Event
    <3>2. QED
      BY <2>1, <3>1, DropType
  <2>4. loop = None
    BY <2>1 DEF TypeOK
  <2>5. QED
    BY <1>0, <1>3, <2>2, <2>3, <2>4 DEF LoopEnd, TypeOK, Running, Actor
<1>4. CASE LoopCheck
  <2>1. event # None /\ event.todo # <<>> /\ tx["loop"] = None /\ loop = None
    BY <1>4 DEF LoopCheck, Doing, TypeOK, Counting
  <2>2. \/ event' = [event EXCEPT !.todo = <<"fresh">> \o Tail(@)]
        \/ event' = [event EXCEPT !.todo = <<>> \o Tail(@)]
    BY <1>4, <2>1 DEF LoopCheck, Drop, TypeOK, Event
  <2>3. event' \in Event
    BY <2>1, <2>2, DropType
  <2>4. QED
    BY <1>4, <2>1, <2>3 DEF LoopCheck, TypeOK, Running
<1>5. CASE LoopUpsert
  <2>1. event # None /\ event.todo # <<>> /\ tx["loop"] = None /\ loop = None
    BY <1>5 DEF LoopUpsert, Doing, TypeOK, Counting
  <2>2. event' = [event EXCEPT !.todo = <<>> \o Tail(@)]
    BY <1>5, <2>1 DEF LoopUpsert, Drop, TypeOK, Event
  <2>3. event' \in Event
    BY <2>1, <2>2, DropType
  <2>4. firstSeen' \in [Seen -> 0 .. MaxTime \cup {Never}]
    BY <1>5 DEF LoopUpsert, UpsertSeen, TypeOK
  <2>5. QED
    BY <1>5, <2>1, <2>3, <2>4 DEF LoopUpsert, TypeOK, Running
<1>6. CASE LoopDispatch
  <2>1. event \in Event /\ event # None /\ tx["loop"] = None /\ loop = None
    BY <1>6 DEF LoopDispatch, TypeOK, Doing
  <2>2. event.msg.scene \in Scene
    BY <2>1, WhoType DEF Event
  <2>3. CASE event.kind = "message"
    <3>1. PICK s \in Slots :
            /\ ~ Running(s)
            /\ handlers' = [handlers EXCEPT ![s] =
                  [pc |-> "command", op |-> event.msg.scene]]
            /\ loop' = s
      BY <1>6, <2>3 DEF LoopDispatch
    <3>2. [pc |-> "command", op |-> event.msg.scene] \in Handler
      BY <2>2 DEF Handler
    <3>3. [pc |-> "command", op |-> event.msg.scene] # None
      BY <3>2, StatisticsNoneAssumption
    <3>4. QED
      BY <1>6, <2>1, <3>1, <3>2, <3>3 DEF LoopDispatch, TypeOK, Running
  <2>4. CASE event.kind # "message"
    BY <1>6, <2>1, <2>4 DEF LoopDispatch, TypeOK, Running
  <2>5. QED
    BY <2>3, <2>4
<1>7. ASSUME NEW s \in Slots, HandlerBegin(s)
      PROVE  TypeOK'
  <2>1. /\ tx' \in [Actor -> Transaction \cup {None}]
        /\ ideal' \in [Dates -> Row]
        /\ \A b \in Actor : b # s => tx'[b] = tx[b]
    BY <1>7, HandlerChangeType, BeginType DEF HandlerBegin, Actor
  <2>2. tx'["loop"] = tx["loop"]
    BY <1>0, <2>1 DEF Actor
  <2>3. Doing(Counting)' = Doing(Counting)
    BY <1>7 DEF HandlerBegin, Doing
  <2>4. QED
    BY <1>7, <2>1, <2>2, <2>3 DEF HandlerBegin, TypeOK, Running, Actor
<1>8. ASSUME NEW s \in Slots, HandlerEnd(s)
      PROVE  TypeOK'
  <2>1. /\ days' \in [Dates -> Row \cup {None}]
        /\ tx' \in [Actor -> Transaction \cup {None}]
        /\ tx'[s] = None
        /\ \A b \in Actor : b # s => tx'[b] = tx[b]
    BY <1>8, EndType DEF HandlerEnd, Actor
  <2>2. /\ handlers' \in [Slots -> Handler \cup {None}]
        /\ loop' \in Slots \cup {None}
        /\ loop' # None => loop' = loop /\ Running(loop)'
        /\ \A t \in Slots : t # s => handlers'[t] = handlers[t]
    BY <1>8, HandlerMoves DEF HandlerEnd
  <2>3. tx'["loop"] = tx["loop"]
    BY <1>0, <2>1 DEF Actor
  <2>4. Doing(Counting)' = Doing(Counting)
    BY <1>8 DEF HandlerEnd, Doing
  <2>5. QED
    BY <1>8, <2>1, <2>2, <2>3, <2>4 DEF HandlerEnd, TypeOK, Running, Actor
<1>9. ASSUME NEW s \in Slots, HandlerSkip(s)
      PROVE  TypeOK'
  <2>1. /\ handlers' \in [Slots -> Handler \cup {None}]
        /\ loop' \in Slots \cup {None}
        /\ loop' # None => loop' = loop /\ Running(loop)'
        /\ \A t \in Slots : t # s => handlers'[t] = handlers[t]
    BY <1>9, HandlerMoves DEF HandlerSkip
  <2>2. Doing(Counting)' = Doing(Counting)
    BY <1>9 DEF HandlerSkip, Doing
  <2>3. QED
    BY <1>9, <2>1, <2>2 DEF HandlerSkip, TypeOK, Running
<1>10. CASE Timeout
  BY <1>10 DEF Timeout, WaitEnds, TypeOK, Doing, Running
<1>11. CASE Crash
  <2>1. tx' \in [Slots \cup {"loop"} -> Transaction \cup {None}]
        /\ \A a \in Slots \cup {"loop"} : tx'[a] = None
    BY <1>11 DEF Crash, TypeOK
  <2>2. QED
    BY <1>11, <2>1 DEF Crash, TypeOK
<1>12. CASE Tick
  <2>1. clock' \in 0 .. MaxTime
    BY <1>12, StatisticsAssumption DEF Tick, TypeOK
  <2>2. QED
    BY <1>12, <2>1 DEF Tick, TypeOK, Doing, Running
<1>13. CASE UNCHANGED vars
  BY <1>13 DEF vars, TypeOK, Doing, Running
<1>14. QED
  BY <1>1, <1>2, <1>3, <1>4, <1>5, <1>6, <1>7, <1>8, <1>9, <1>10, <1>11, <1>12,
     <1>13 DEF Next, Done

(* The variables keep their types; a transaction is open only while its    *)
(* owner has a change to make.                                             *)
THEOREM TypeCorrect == Spec => []TypeOK
BY TypeInit, TypeStep, PTL DEF Spec

-----------------------------------------------------------------------------
(* Rows. *)

(* The steps that touch rows: a transaction begins, or it ends, or         *)
(* transactions are dropped with their process.                            *)
LEMMA RowSteps ==
    ASSUME TypeOK, [Next]_vars
    PROVE  \/ \E a \in Actor, c \in SomeChange : Begin(a, c) /\ UNCHANGED days
           \/ \E a \in Actor : End(a) /\ UNCHANGED ideal
           \/ /\ UNCHANGED <<days, ideal>>
              /\ \A a \in Actor : tx'[a] \in {tx[a], None}
<1> USE DEF table
<1>1. CASE LoopBegin
  <2>1. event \in Event /\ Head(event.todo) \in Counting
    BY <1>1 DEF LoopBegin, Doing, TypeOK
  <2>2. PICK kind \in EventKind : event.msg \in EventsOf(kind)
    BY <2>1 DEF Event
  <2>3. PICK c \in SomeChange : c = ChangeTodo(Head(event.todo), event.msg)
    BY <2>1, <2>2, ChangeTodoType
  <2>4. Begin("loop", c) /\ UNCHANGED days
    BY <1>1, <2>3 DEF LoopBegin
  <2>5. QED
    BY <2>4 DEF Actor
<1>2. CASE LoopEnd
  BY <1>2 DEF LoopEnd, Actor
<1>3. CASE Arrive \/ LoopCheck \/ LoopUpsert \/ LoopDispatch
  BY <1>3 DEF Arrive, LoopCheck, LoopUpsert, LoopDispatch
<1>4. ASSUME NEW s \in Slots, HandlerBegin(s)
      PROVE  \E a \in Actor, c \in SomeChange : Begin(a, c) /\ UNCHANGED days
  <2>1. PICK c \in SomeChange : c = HandlerChange(s)
    BY <1>4, HandlerChangeType DEF HandlerBegin
  <2>2. Begin(s, c) /\ UNCHANGED days
    BY <1>4, <2>1 DEF HandlerBegin
  <2>3. QED
    BY <2>2 DEF Actor
<1>5. ASSUME NEW s \in Slots, HandlerEnd(s)
      PROVE  \E a \in Actor : End(a) /\ UNCHANGED ideal
  BY <1>5 DEF HandlerEnd, Actor
<1>6. ASSUME NEW s \in Slots, HandlerSkip(s)
      PROVE  UNCHANGED <<days, ideal, tx>>
  BY <1>6 DEF HandlerSkip
<1>7. CASE Timeout \/ Tick
  BY <1>7 DEF Timeout, Tick
<1>8. CASE Crash
  BY <1>8 DEF Crash, TypeOK, Actor
<1>9. CASE UNCHANGED vars
  BY <1>9 DEF vars
<1>10. QED
  BY <1>1, <1>2, <1>3, <1>4, <1>5, <1>6, <1>7, <1>8, <1>9 DEF Next, Done

(* What begins, as a record. *)
LEMMA Begun ==
    ASSUME TypeOK, NEW a \in Actor, NEW c \in SomeChange, Begin(a, c)
    PROVE  \E d \in Dates :
              /\ tx[a] = None
              /\ ideal' = [ideal EXCEPT ![d] = Apply(c, ideal[d])]
              /\ \/ tx' = [tx EXCEPT ![a] =
                             [date |-> d, row |-> days[d], change |-> c]]
                 \/ /\ "readError" \in faults
                    /\ tx' = [tx EXCEPT ![a] =
                                [date |-> d, row |-> None, change |-> None]]
<1>1. LocalDate(clock) \in Dates
  BY TodayIsADate DEF TypeOK
<1>2. QED
  BY <1>1 DEF Begin

(* The fields of a transaction. *)
LEMMA TransactionFields ==
    ASSUME TypeOK, NEW a \in Actor, tx[a] # None
    PROVE  /\ tx[a].date \in Dates /\ tx[a].row \in Row \cup {None}
           /\ tx[a].change \in SomeChange \cup {None}
<1>1. tx[a] \in Transaction
  BY DEF TypeOK, Actor
<1>2. QED
  BY <1>1 DEF Transaction

-----------------------------------------------------------------------------
(* Who was active. *)

Agrees(r) ==
    \A s \in Scene :
        IsFiniteSet(r.seen[s]) /\ r.active[s] = Cardinality(r.seen[s])

(***************************************************************************)
(* ActiveIsSeen, for the rows of the table and for those in the hands of a *)
(* transaction, whose sets are finite.                                     *)
(***************************************************************************)
ActiveInv ==
    /\ \A d \in Dates : days[d] # None => Agrees(days[d])
    /\ \A a \in Actor : tx[a] # None /\ tx[a].row # None => Agrees(tx[a].row)

LEMMA EmptyAgrees == Agrees(EmptyRow)
BY FS_EmptySet DEF Agrees, EmptyRow, NoCount

(* A change counts someone exactly when it adds someone to the set. *)
LEMMA ApplyAgrees ==
    ASSUME NEW c \in SomeChange, NEW r \in Row, Agrees(r)
    PROVE  Agrees(Apply(c, r))
<1>1. c.kind \in {"incoming", "fresh", "removed", "outgoing", "command", "interaction"}
      /\ c.scene \in Scene
  BY DEF SomeChange
<1>2. CASE c.kind = "incoming"
  <2> DEFINE q == Apply(c, r)
  <2>1. /\ q.active = [r.active EXCEPT ![c.scene] = @ + Counted(r, c.scene, c.who)]
        /\ q.seen = [r.seen EXCEPT ![c.scene] = @ \cup {c.who}]
    BY <1>2 DEF Apply, Row
  <2>2. SUFFICES ASSUME NEW s \in Scene
                 PROVE  IsFiniteSet(q.seen[s]) /\ q.active[s] = Cardinality(q.seen[s])
    BY DEF Agrees
  <2>3. /\ r.active \in [Scene -> Nat] /\ r.seen \in [Scene -> SUBSET Seen]
        /\ IsFiniteSet(r.seen[s]) /\ r.active[s] = Cardinality(r.seen[s])
    BY DEF Row, Agrees
  <2>4. CASE s # c.scene
    BY <1>1, <2>1, <2>3, <2>4
  <2>5. CASE s = c.scene
    <3>1. q.seen[s] = r.seen[s] \cup {c.who}
      BY <1>1, <2>1, <2>3, <2>5
    <3>2. q.active[s] = r.active[s] + Counted(r, s, c.who)
      BY <1>1, <2>1, <2>3, <2>5
    <3>3. /\ IsFiniteSet(r.seen[s] \cup {c.who})
          /\ Cardinality(r.seen[s] \cup {c.who}) =
               IF c.who \in r.seen[s] THEN Cardinality(r.seen[s])
               ELSE Cardinality(r.seen[s]) + 1
      BY <2>3, FS_AddElement
    <3>4. r.active[s] \in Nat
      BY <2>3
    <3>5. QED
      BY <2>3, <3>1, <3>2, <3>3, <3>4 DEF Counted
  <2>6. QED
    BY <2>4, <2>5
<1>3. CASE c.kind # "incoming"
  <2>1. Apply(c, r).active = r.active /\ Apply(c, r).seen = r.seen
    BY <1>1, <1>3 DEF Apply, Row
  <2>2. QED
    BY <2>1 DEF Agrees
<1>4. QED
  BY <1>2, <1>3

LEMMA ActiveInit == Init => ActiveInv
BY DEF Init, ActiveInv, Actor

LEMMA ActiveStep == TypeOK /\ ActiveInv /\ [Next]_vars => ActiveInv'
<1> SUFFICES ASSUME TypeOK, ActiveInv, [Next]_vars
             PROVE  ActiveInv'
  OBVIOUS
<1>1. ASSUME NEW a \in Actor, NEW c \in SomeChange, Begin(a, c), UNCHANGED days
      PROVE  ActiveInv'
  <2>1. PICK d \in Dates :
              \/ tx' = [tx EXCEPT ![a] = [date |-> d, row |-> days[d], change |-> c]]
              \/ tx' = [tx EXCEPT ![a] = [date |-> d, row |-> None, change |-> None]]
    BY <1>1, Begun
  <2>2. \A b \in Actor : b # a => tx'[b] = tx[b]
    BY <1>1, BeginType
  <2>3. tx'[a].row \in {days[d], None}
    BY <2>1 DEF TypeOK, Actor
  <2>4. QED
    BY <1>1, <2>1, <2>2, <2>3 DEF ActiveInv
<1>2. ASSUME NEW a \in Actor, End(a)
      PROVE  ActiveInv'
  <2> DEFINE t == tx[a]
             r == IF t.row = None THEN EmptyRow ELSE t.row
  <2>1. /\ t # None /\ t.date \in Dates /\ t.row \in Row \cup {None}
        /\ t.change \in SomeChange \cup {None}
    BY <1>2, TransactionFields DEF End
  <2>2. tx'[a] = None /\ \A b \in Actor : b # a => tx'[b] = tx[b]
    BY <1>2, EndType
  <2>3. r \in Row /\ Agrees(r)
    BY <2>1, EmptyRowType, EmptyAgrees DEF ActiveInv
  <2>4. CASE t.change # None /\ Save(t)
    <3>1. Agrees(Apply(t.change, r))
      BY <2>1, <2>3, <2>4, ApplyAgrees
    <3>2. days' = [days EXCEPT ![t.date] = Apply(t.change, r)]
      BY <2>4 DEF Save
    <3>3. \A d \in Dates : days'[d] # None => Agrees(days'[d])
      BY <3>1, <3>2 DEF ActiveInv, TypeOK
    <3>4. QED
      BY <2>2, <3>3 DEF ActiveInv
  <2>5. CASE UNCHANGED days
    BY <2>2, <2>5 DEF ActiveInv
  <2>6. QED
    BY <1>2, <2>4, <2>5 DEF End
<1>3. CASE UNCHANGED days /\ \A a \in Actor : tx'[a] \in {tx[a], None}
  BY <1>3 DEF ActiveInv
<1>4. QED
  BY <1>1, <1>2, <1>3, RowSteps

(* The number of the active is the size of the set of those seen.          *)
THEOREM ActiveAreSeen == Spec => []ActiveIsSeen
<1>1. ActiveInv => ActiveIsSeen
  BY DEF ActiveInv, ActiveIsSeen, Agrees
<1>2. Init => TypeOK /\ ActiveInv
  BY TypeInit, ActiveInit
<1>3. TypeOK /\ ActiveInv /\ [Next]_vars => (TypeOK /\ ActiveInv)'
  BY TypeStep, ActiveStep
<1>4. QED
  BY <1>1, <1>2, <1>3, PTL DEF Spec

-----------------------------------------------------------------------------
(* Who was first seen when. *)


-----------------------------------------------------------------------------
(* What did not happen is not counted. *)

\* Row r counts nothing that row q does not.
Within(r, q) ==
    /\ \A s \in Scene :
         /\ r.incoming[s] <= q.incoming[s]
         /\ r.fresh[s] <= q.fresh[s]
         /\ r.removed[s] <= q.removed[s]
         /\ r.outgoing[s] <= q.outgoing[s]
         /\ r.seen[s] \subseteq q.seen[s]
    /\ r.commands <= q.commands
    /\ r.interactions <= q.interactions

(***************************************************************************)
(* NoMoreThanHappened, with what a transaction is about to save: the row   *)
(* it has read with its change made to it.  The change is among what has   *)
(* happened since the transaction began.                                   *)
(***************************************************************************)
WithinInv ==
    /\ \A d \in Dates : days[d] # None => Within(days[d], ideal[d])
    /\ \A a \in Actor : tx[a] # None /\ tx[a].change # None =>
         Within(Apply(tx[a].change,
                      IF tx[a].row = None THEN EmptyRow ELSE tx[a].row),
                ideal[tx[a].date])

LEMMA EmptyWithin ==
    ASSUME NEW r \in Row
    PROVE  Within(EmptyRow, r)
BY DEF Within, EmptyRow, NoCount, Row

LEMMA WithinTrans ==
    ASSUME NEW p \in Row, NEW q \in Row, NEW r \in Row, Within(p, q), Within(q, r)
    PROVE  Within(p, r)
BY DEF Within, Row

\* What a change adds to a count of a scene.
Adds(c, kind, s) == IF c.kind = kind /\ c.scene = s THEN 1 ELSE 0

(* The fields of a changed row, but for who counts as active. *)
LEMMA ApplyFields ==
    ASSUME NEW c \in SomeChange, NEW r \in Row, NEW s \in Scene
    PROVE  /\ Apply(c, r).incoming[s] = r.incoming[s] + Adds(c, "incoming", s)
           /\ Apply(c, r).fresh[s] = r.fresh[s] + Adds(c, "fresh", s)
           /\ Apply(c, r).removed[s] = r.removed[s] + Adds(c, "removed", s)
           /\ Apply(c, r).outgoing[s] = r.outgoing[s] + Adds(c, "outgoing", s)
           /\ Apply(c, r).seen[s] =
                r.seen[s] \cup IF Adds(c, "incoming", s) = 1 THEN {c.who} ELSE {}
           /\ Apply(c, r).commands =
                r.commands + IF c.kind = "command" THEN 1 ELSE 0
           /\ Apply(c, r).interactions =
                r.interactions + IF c.kind = "interaction" THEN 1 ELSE 0
<1> DEFINE q == Apply(c, r)
<1>1. c.kind \in {"incoming", "fresh", "removed", "outgoing", "command", "interaction"}
      /\ c.scene \in Scene
  BY DEF SomeChange
<1>2. /\ r.incoming \in [Scene -> Nat] /\ r.fresh \in [Scene -> Nat]
      /\ r.removed \in [Scene -> Nat] /\ r.outgoing \in [Scene -> Nat]
      /\ r.seen \in [Scene -> SUBSET Seen]
      /\ r.commands \in Nat /\ r.interactions \in Nat
  BY DEF Row
<1>3. CASE c.kind = "incoming"
  <2>1. /\ q.incoming = [r.incoming EXCEPT ![c.scene] = @ + 1]
        /\ q.seen = [r.seen EXCEPT ![c.scene] = @ \cup {c.who}]
        /\ q.fresh = r.fresh /\ q.removed = r.removed /\ q.outgoing = r.outgoing
        /\ q.commands = r.commands /\ q.interactions = r.interactions
    BY <1>3 DEF Apply, Row
  <2>2. q.incoming[s] = r.incoming[s] + Adds(c, "incoming", s)
    BY <1>1, <1>2, <1>3, <2>1 DEF Adds
  <2>3. q.seen[s] = r.seen[s] \cup IF Adds(c, "incoming", s) = 1 THEN {c.who} ELSE {}
    BY <1>1, <1>2, <1>3, <2>1 DEF Adds
  <2>4. QED
    BY <1>1, <1>2, <1>3, <2>1, <2>2, <2>3 DEF Adds
<1>4. CASE c.kind = "fresh"
  BY <1>1, <1>2, <1>4 DEF Apply, Row, Adds
<1>5. CASE c.kind = "removed"
  BY <1>1, <1>2, <1>5 DEF Apply, Row, Adds
<1>6. CASE c.kind = "outgoing"
  BY <1>1, <1>2, <1>6 DEF Apply, Row, Adds
<1>7. CASE c.kind = "command"
  BY <1>1, <1>2, <1>7 DEF Apply, Row, Adds
<1>8. CASE c.kind = "interaction"
  BY <1>1, <1>2, <1>8 DEF Apply, Row, Adds
<1>9. QED
  BY <1>1, <1>3, <1>4, <1>5, <1>6, <1>7, <1>8

(* A change adds something, ... *)
LEMMA ApplyGrows ==
    ASSUME NEW c \in SomeChange, NEW r \in Row
    PROVE  Within(r, Apply(c, r))
<1> DEFINE q == Apply(c, r)
<1>1. ASSUME NEW s \in Scene
      PROVE  /\ r.incoming[s] <= q.incoming[s]
             /\ r.fresh[s] <= q.fresh[s]
             /\ r.removed[s] <= q.removed[s]
             /\ r.outgoing[s] <= q.outgoing[s]
             /\ r.seen[s] \subseteq q.seen[s]
             /\ r.commands <= q.commands
             /\ r.interactions <= q.interactions
  <2>1. /\ r.incoming[s] \in Nat /\ r.fresh[s] \in Nat
        /\ r.removed[s] \in Nat /\ r.outgoing[s] \in Nat
        /\ r.commands \in Nat /\ r.interactions \in Nat
    BY DEF Row
  <2>2. /\ q.incoming[s] = r.incoming[s] + Adds(c, "incoming", s)
        /\ q.fresh[s] = r.fresh[s] + Adds(c, "fresh", s)
        /\ q.removed[s] = r.removed[s] + Adds(c, "removed", s)
        /\ q.outgoing[s] = r.outgoing[s] + Adds(c, "outgoing", s)
        /\ q.seen[s] = r.seen[s] \cup IF Adds(c, "incoming", s) = 1 THEN {c.who} ELSE {}
        /\ q.commands = r.commands + IF c.kind = "command" THEN 1 ELSE 0
        /\ q.interactions = r.interactions + IF c.kind = "interaction" THEN 1 ELSE 0
    BY ApplyFields
  <2>3. \A kind : Adds(c, kind, s) \in 0 .. 1
    BY DEF Adds
  <2>4. QED
    BY <2>1, <2>2, <2>3
<1>2. QED
  BY <1>1 DEF Within, Scene

(* ... and the same to a row that counts less. *)
LEMMA ApplyMonotone ==
    ASSUME NEW c \in SomeChange, NEW p \in Row, NEW r \in Row, Within(p, r)
    PROVE  Within(Apply(c, p), Apply(c, r))
<1> DEFINE q == Apply(c, r)
           o == Apply(c, p)
<1>1. ASSUME NEW s \in Scene
      PROVE  /\ o.incoming[s] <= q.incoming[s]
             /\ o.fresh[s] <= q.fresh[s]
             /\ o.removed[s] <= q.removed[s]
             /\ o.outgoing[s] <= q.outgoing[s]
             /\ o.seen[s] \subseteq q.seen[s]
             /\ o.commands <= q.commands
             /\ o.interactions <= q.interactions
  <2>1. /\ r.incoming[s] \in Nat /\ r.fresh[s] \in Nat
        /\ r.removed[s] \in Nat /\ r.outgoing[s] \in Nat
        /\ r.commands \in Nat /\ r.interactions \in Nat
        /\ p.incoming[s] \in Nat /\ p.fresh[s] \in Nat
        /\ p.removed[s] \in Nat /\ p.outgoing[s] \in Nat
        /\ p.commands \in Nat /\ p.interactions \in Nat
    BY DEF Row
  <2>2. /\ p.incoming[s] <= r.incoming[s] /\ p.fresh[s] <= r.fresh[s]
        /\ p.removed[s] <= r.removed[s] /\ p.outgoing[s] <= r.outgoing[s]
        /\ p.seen[s] \subseteq r.seen[s]
        /\ p.commands <= r.commands /\ p.interactions <= r.interactions
    BY DEF Within
  <2>3. /\ q.incoming[s] = r.incoming[s] + Adds(c, "incoming", s)
        /\ q.fresh[s] = r.fresh[s] + Adds(c, "fresh", s)
        /\ q.removed[s] = r.removed[s] + Adds(c, "removed", s)
        /\ q.outgoing[s] = r.outgoing[s] + Adds(c, "outgoing", s)
        /\ q.seen[s] = r.seen[s] \cup IF Adds(c, "incoming", s) = 1 THEN {c.who} ELSE {}
        /\ q.commands = r.commands + IF c.kind = "command" THEN 1 ELSE 0
        /\ q.interactions = r.interactions + IF c.kind = "interaction" THEN 1 ELSE 0
    BY ApplyFields
  <2>4. /\ o.incoming[s] = p.incoming[s] + Adds(c, "incoming", s)
        /\ o.fresh[s] = p.fresh[s] + Adds(c, "fresh", s)
        /\ o.removed[s] = p.removed[s] + Adds(c, "removed", s)
        /\ o.outgoing[s] = p.outgoing[s] + Adds(c, "outgoing", s)
        /\ o.seen[s] = p.seen[s] \cup IF Adds(c, "incoming", s) = 1 THEN {c.who} ELSE {}
        /\ o.commands = p.commands + IF c.kind = "command" THEN 1 ELSE 0
        /\ o.interactions = p.interactions + IF c.kind = "interaction" THEN 1 ELSE 0
    BY ApplyFields
  <2>5. \A kind : Adds(c, kind, s) \in 0 .. 1
    BY DEF Adds
  <2>6. QED
    BY <2>1, <2>2, <2>3, <2>4, <2>5
<1>2. QED
  BY <1>1 DEF Within, Scene

LEMMA WithinInit == Init => WithinInv
BY DEF Init, WithinInv, Actor

LEMMA WithinStep == TypeOK /\ WithinInv /\ [Next]_vars => WithinInv'
<1> SUFFICES ASSUME TypeOK, WithinInv, [Next]_vars
             PROVE  WithinInv'
  OBVIOUS
<1> DEFINE Read(t) == IF t.row = None THEN EmptyRow ELSE t.row
<1>0. ASSUME NEW a \in Actor, tx[a] # None
      PROVE  /\ tx[a].date \in Dates /\ Read(tx[a]) \in Row
             /\ tx[a].change \in SomeChange \cup {None}
             /\ ideal[tx[a].date] \in Row
  <2>1. /\ tx[a].date \in Dates /\ tx[a].row \in Row \cup {None}
        /\ tx[a].change \in SomeChange \cup {None}
    BY <1>0, TransactionFields
  <2>2. QED
    BY <2>1, EmptyRowType DEF TypeOK
<1>1. ASSUME NEW a \in Actor, NEW c \in SomeChange, Begin(a, c), UNCHANGED days
      PROVE  WithinInv'
  <2>1. PICK d \in Dates :
              /\ ideal' = [ideal EXCEPT ![d] = Apply(c, ideal[d])]
              /\ \/ tx' = [tx EXCEPT ![a] = [date |-> d, row |-> days[d], change |-> c]]
                 \/ tx' = [tx EXCEPT ![a] = [date |-> d, row |-> None, change |-> None]]
    BY <1>1, Begun
  <2>2. \A b \in Actor : b # a => tx'[b] = tx[b]
    BY <1>1, BeginType
  <2>3. \A e \in Dates : ideal[e] \in Row /\ ideal'[e] \in Row
    BY <1>1, BeginType DEF TypeOK
  <2>4. \A e \in Dates : Within(ideal[e], ideal'[e])
    <3>1. Within(ideal[d], ideal'[d])
      BY <2>1, <2>3, ApplyGrows DEF TypeOK
    <3>2. \A e \in Dates : e # d => ideal'[e] = ideal[e]
      BY <2>1 DEF TypeOK
    <3>3. \A e \in Dates : Within(ideal[e], ideal[e])
      BY <2>3 DEF Within, Row
    <3>4. QED
      BY <3>1, <3>2, <3>3
  <2>5. ASSUME NEW e \in Dates, days[e] # None
        PROVE  Within(days[e], ideal'[e])
    <3>1. days[e] \in Row /\ Within(days[e], ideal[e])
      BY <2>5 DEF TypeOK, WithinInv
    <3>2. QED
      BY <2>3, <2>4, <3>1, WithinTrans
  <2>6. ASSUME NEW b \in Actor, b # a, tx[b] # None, tx[b].change # None
        PROVE  Within(Apply(tx[b].change, Read(tx[b])), ideal'[tx[b].date])
    <3>1. /\ tx[b].date \in Dates /\ Read(tx[b]) \in Row
          /\ tx[b].change \in SomeChange
      BY <1>0, <2>6
    <3>2. Within(Apply(tx[b].change, Read(tx[b])), ideal[tx[b].date])
      BY <2>6 DEF WithinInv
    <3>3. Apply(tx[b].change, Read(tx[b])) \in Row
      BY <3>1, ApplyType
    <3>4. QED
      BY <2>3, <2>4, <3>1, <3>2, <3>3, WithinTrans
  <2>7. ASSUME tx'[a] # None, tx'[a].change # None
        PROVE  Within(Apply(tx'[a].change, Read(tx'[a])), ideal'[tx'[a].date])
    <3>1. tx'[a] = [date |-> d, row |-> days[d], change |-> c]
      BY <2>1, <2>7 DEF TypeOK, Actor
    <3>2. Read(tx'[a]) \in Row /\ Within(Read(tx'[a]), ideal[d])
      BY <2>3, <3>1, EmptyRowType, EmptyWithin DEF TypeOK, WithinInv
    <3>3. Within(Apply(c, Read(tx'[a])), Apply(c, ideal[d]))
      BY <2>3, <3>2, ApplyMonotone
    <3>4. ideal'[d] = Apply(c, ideal[d])
      BY <2>1 DEF TypeOK
    <3>5. QED
      BY <3>1, <3>3, <3>4
  <2>8. QED
    BY <1>1, <2>2, <2>5, <2>6, <2>7 DEF WithinInv
<1>2. ASSUME NEW a \in Actor, End(a), UNCHANGED ideal
      PROVE  WithinInv'
  <2> DEFINE t == tx[a]
  <2>1. tx'[a] = None /\ \A b \in Actor : b # a => tx'[b] = tx[b]
    BY <1>2, EndType
  <2>2. CASE t.change # None /\ Save(t)
    <3>1. t # None
      BY <1>2 DEF End
    <3>2. t.date \in Dates /\ Within(Apply(t.change, Read(t)), ideal[t.date])
      BY <1>0, <2>2, <3>1 DEF WithinInv
    <3>3. days' = [days EXCEPT ![t.date] = Apply(t.change, Read(t))]
      BY <2>2 DEF Save
    <3>4. \A d \in Dates : days'[d] # None => Within(days'[d], ideal[d])
      BY <3>2, <3>3 DEF WithinInv, TypeOK
    <3>5. QED
      BY <1>2, <2>1, <3>4 DEF WithinInv
  <2>3. CASE UNCHANGED days
    BY <1>2, <2>1, <2>3 DEF WithinInv
  <2>4. QED
    BY <1>2, <2>2, <2>3 DEF End
<1>3. CASE UNCHANGED <<days, ideal>> /\ \A a \in Actor : tx'[a] \in {tx[a], None}
  BY <1>3 DEF WithinInv
<1>4. QED
  BY <1>1, <1>2, <1>3, RowSteps

(* A day's row never counts what did not happen, whatever transactions     *)
(* overwrite each other or fail and wherever the process dies.             *)
THEOREM NothingInvented == Spec => []NoMoreThanHappened
<1>1. WithinInv => NoMoreThanHappened
  BY DEF WithinInv, Within, NoMoreThanHappened
<1>2. Init => TypeOK /\ WithinInv
  BY TypeInit, WithinInit
<1>3. TypeOK /\ WithinInv /\ [Next]_vars => (TypeOK /\ WithinInv)'
  BY TypeStep, WithinStep
<1>4. QED
  BY <1>1, <1>2, <1>3, PTL DEF Spec

-----------------------------------------------------------------------------
(* Who is counted as new. *)

\* Someone was first seen when a new user of date d can have been.
Backed(d) ==
    \E u \in Users :
        /\ firstSeen[u] # Never
        /\ firstSeen[u] \div UnitsPerDay \in {d - 1, d}
        /\ LocalDate(firstSeen[u]) <= d

\* The check of a new user has found one since the event came.
Found ==
    \E u \in Users, t \in event.since .. clock :
        /\ firstSeen[u] # Never /\ firstSeen[u] <= t
        /\ firstSeen[u] \div UnitsPerDay = t \div UnitsPerDay

NewUser(c) == c.kind = "fresh" /\ c.scene = "c2c"

\* Nothing is seen before its time.
SeenInv == \A k \in Seen : firstSeen[k] # Never => firstSeen[k] <= clock

\* The loop has not recorded its event for longer than MaxDelay.
EventInv ==
    event # None =>
        /\ event.since <= clock /\ clock <= event.since + MaxDelay
        /\ \A i \in DOMAIN event.todo : i > 1 => event.todo[i] # "fresh"

\* A new user is counted in the step after the check that found one.
FoundInv == Doing({"fresh"}) /\ event.msg.scene = "c2c" => Found

(***************************************************************************)
(* NewUsersAreRecent, also for the rows and the changes in the hands of    *)
(* transactions.                                                           *)
(***************************************************************************)
BackedInv ==
    /\ \A d \in Dates : days[d] # None /\ days[d].fresh["c2c"] > 0 => Backed(d)
    /\ \A a \in Actor : tx[a] # None =>
         /\ tx[a].row # None /\ tx[a].row.fresh["c2c"] > 0 => Backed(tx[a].date)
         /\ tx[a].change # None /\ NewUser(tx[a].change) => Backed(tx[a].date)

RecentInv == SeenInv /\ EventInv /\ FoundInv /\ BackedInv

(* Whoever is found by the check, today's date can count.                  *)
LEMMA FoundIsBacked ==
    ASSUME TypeOK, EventInv, event # None, Found
    PROVE  Backed(LocalDate(clock))
<1> DEFINE U == UnitsPerDay
           d == LocalDate(clock)
<1>1. PICK u \in Users, t \in event.since .. clock :
        /\ firstSeen[u] # Never /\ firstSeen[u] <= t
        /\ firstSeen[u] \div UnitsPerDay = t \div UnitsPerDay
  BY DEF Found
<1> DEFINE f == firstSeen[u]
<1>2. /\ U \in Nat \ {0} /\ Zone \in Nat /\ MaxDelay \in Nat /\ MaxDelay + Zone <= U
      /\ clock \in Nat /\ event.since \in Nat /\ f \in Nat
  BY <1>1, StatisticsAssumption, DelayAssumption DEF TypeOK, Event, Seen
<1>3. t \in Nat /\ f <= t /\ t <= clock /\ clock <= t + MaxDelay
  BY <1>1, <1>2 DEF EventInv
<1>4. f \div U = t \div U
  BY <1>1
<1> HIDE DEF U, f
<1>5. (f + Zone) \div U <= (clock + Zone) \div U
  BY <1>2, <1>3, DivMonotone
<1>6. t \div U \in Nat /\ t \div U <= (clock + Zone) \div U /\ (clock + Zone) \div U \in Nat
  BY <1>2, <1>3, DivMonotone
<1>7. (t + U) \div U = t \div U + 1
  <2> DEFINE q == t \div U
             r == t % U
             p == (t + U) \div U
             s == (t + U) % U
  <2>1. /\ q \in Nat /\ t = U * q + r /\ r \in 0 .. U - 1
        /\ p \in Nat /\ t + U = U * p + s /\ s \in 0 .. U - 1
    BY <1>2, <1>3
  <2> HIDE DEF q, r, p, s
  <2>2. U * (q + 1) = U * q + U
    BY <1>2, <2>1
  <2>3. ASSUME p >= q + 2
        PROVE  FALSE
    <3>1. U * p >= U * (q + 2)
      BY <1>2, <2>1, <2>3
    <3>2. U * (q + 2) = U * q + U + U
      BY <1>2, <2>1
    <3>3. QED
      BY <1>2, <2>1, <3>1, <3>2
  <2>4. ASSUME p <= q
        PROVE  FALSE
    <3>1. U * p <= U * q
      BY <1>2, <2>1, <2>4
    <3>2. QED
      BY <1>2, <2>1, <3>1
  <2>5. p = q + 1
    BY <2>1, <2>3, <2>4
  <2>6. QED
    BY <2>5 DEF p, q
<1>8. (clock + Zone) \div U <= t \div U + 1
  <2>1. clock + Zone \in Nat /\ t + U \in Nat /\ clock + Zone <= t + U
    BY <1>2, <1>3
  <2>2. QED
    BY <1>2, <1>7, <2>1, DivMonotone
<1>9. /\ f \div U \in {d - 1, d}
      /\ LocalDate(f) <= d
  <2>1. d = (clock + Zone) \div U /\ LocalDate(f) = (f + Zone) \div U
    BY DEF U, LocalDate
  <2> HIDE DEF d
  <2>2. QED
    BY <1>4, <1>5, <1>6, <1>8, <2>1
<1>10. QED
  BY <1>1, <1>9 DEF Backed, U, f

(* When something was first seen never changes, ... *)
LEMMA FirstSeenStays ==
    ASSUME TypeOK, [Next]_vars, NEW k \in Seen
    PROVE  /\ firstSeen[k] # Never => firstSeen'[k] = firstSeen[k]
           /\ firstSeen'[k] \in {firstSeen[k], clock}
<1>1. CASE LoopUpsert
  BY <1>1 DEF LoopUpsert, UpsertSeen, TypeOK
<1>2. CASE UNCHANGED firstSeen
  BY <1>2
<1>3. QED
  BY <1>1, <1>2 DEF Next, Arrive, LoopBegin, LoopEnd, LoopCheck, LoopDispatch,
     HandlerBegin, HandlerEnd, HandlerSkip, Timeout, Crash, Tick, Done, vars, table

(* ... and what a date can count it always can. *)
LEMMA BackedStays ==
    ASSUME TypeOK, [Next]_vars, NEW d
    PROVE  Backed(d) => Backed(d)'
<1>1. \A u \in Users : firstSeen[u] # Never => firstSeen'[u] = firstSeen[u]
  BY FirstSeenStays DEF Seen
<1>2. QED
  BY <1>1 DEF Backed, LocalDate

LEMMA RecentInit == Init => RecentInv
BY DEF Init, RecentInv, SeenInv, EventInv, FoundInv, BackedInv, Doing, Actor

LEMMA SeenStep == TypeOK /\ SeenInv /\ [Next]_vars => SeenInv'
<1> SUFFICES ASSUME TypeOK, SeenInv, [Next]_vars, NEW k \in Seen, firstSeen'[k] # Never
             PROVE  firstSeen'[k] <= clock'
  BY DEF SeenInv
<1>1. clock \in Nat /\ clock' \in {clock, clock + 1}
  BY DEF TypeOK, Next, Arrive, LoopBegin, LoopEnd, LoopCheck, LoopUpsert, LoopDispatch,
     HandlerBegin, HandlerEnd, HandlerSkip, Timeout, Crash, Tick, Done, vars
<1>2. firstSeen'[k] \in {firstSeen[k], clock} /\ firstSeen[k] \in 0 .. MaxTime \cup {Never}
  BY FirstSeenStays DEF TypeOK
<1>3. QED
  BY <1>1, <1>2, StatisticsAssumption DEF SeenInv

(* What becomes of an event: it stays while time passes, or the first of   *)
(* what is to do is done, which for a check may leave a user to count.     *)
LEMMA EventSteps ==
    ASSUME TypeOK, [Next]_vars, event' # None
    PROVE  \/ Arrive
           \/ event' = event /\ event # None /\ Tick
           \/ event' = event /\ event # None /\ clock' = clock
           \/ LoopCheck /\ event # None /\ event.todo # <<>> /\ clock' = clock
                /\ NewToday(Who(event.msg))
                /\ event' = [event EXCEPT !.todo = <<"fresh">> \o Tail(@)]
           \/ /\ event # None /\ event.todo # <<>> /\ clock' = clock
              /\ event' = [event EXCEPT !.todo = Tail(@)]
<1>1. CASE LoopEnd
  BY <1>1 DEF LoopEnd, End, Drop, TypeOK, Doing
<1>2. CASE LoopCheck
  BY <1>2 DEF LoopCheck, Drop, Doing
<1>3. CASE LoopUpsert
  BY <1>3 DEF LoopUpsert, Drop, Doing
<1>4. CASE LoopDispatch \/ Crash
  BY <1>4 DEF LoopDispatch, Crash
<1>5. CASE UNCHANGED <<event, clock>>
  BY <1>5
<1>6. QED
  BY <1>1, <1>2, <1>3, <1>4, <1>5 DEF Next, LoopBegin, HandlerBegin, HandlerEnd,
     HandlerSkip, Timeout, Tick, Done, vars

(* No event begins with a user to count. *)
LEMMA NothingToCountYet ==
    ASSUME NEW kind \in EventKind, NEW m
    PROVE  \A i \in DOMAIN Todo(kind, m) : Todo(kind, m)[i] # "fresh"
BY DEF Todo, EventKind

LEMMA EventStep == TypeOK /\ EventInv /\ [Next]_vars => EventInv'
<1> SUFFICES ASSUME TypeOK, EventInv, [Next]_vars, event' # None
             PROVE  EventInv'
  BY DEF EventInv
<1>0. clock \in Nat /\ MaxDelay \in Nat
  BY StatisticsAssumption, DelayAssumption DEF TypeOK
<1>1. CASE Arrive
  <2>1. PICK kind \in EventKind : \E m \in EventsOf(kind) :
            event' = [kind |-> kind, msg |-> m, todo |-> Todo(kind, m), since |-> clock]
    BY <1>1 DEF Arrive
  <2>2. event'.since = clock /\ clock' = clock
        /\ \E m \in EventsOf(kind) : event'.todo = Todo(kind, m)
    BY <1>1, <2>1 DEF Arrive
  <2>3. \A i \in DOMAIN event'.todo : event'.todo[i] # "fresh"
    BY <2>2, NothingToCountYet
  <2>4. QED
    BY <1>0, <2>2, <2>3 DEF EventInv
<1>2. CASE event' = event /\ event # None /\ Tick
  <2>1. event.since \in Nat /\ clock' = clock + 1
        /\ clock < event.since + MaxDelay /\ event.since <= clock
    BY <1>2, StatisticsAssumption DEF Tick, TypeOK, Event, EventInv
  <2>2. QED
    BY <1>0, <1>2, <2>1 DEF EventInv
<1>3. CASE event' = event /\ event # None /\ clock' = clock
  BY <1>3 DEF EventInv
<1>4. CASE /\ event # None /\ event.todo # <<>> /\ clock' = clock
           /\ \/ event' = [event EXCEPT !.todo = <<"fresh">> \o Tail(@)]
              \/ event' = [event EXCEPT !.todo = Tail(@)]
  <2> DEFINE todo == event.todo
  <2>1. event \in Event /\ todo \in Seq(Steps) /\ todo # <<>>
    BY <1>4 DEF TypeOK, Event, Steps
  <2>2. event'.since = event.since /\ event'.todo \in {<<"fresh">> \o Tail(todo), Tail(todo)}
    BY <1>4, <2>1 DEF Event
  <2>3. \A i \in DOMAIN todo : i > 1 => todo[i] # "fresh"
    BY <1>4 DEF EventInv
  <2>4. ASSUME NEW i \in DOMAIN event'.todo, i > 1
        PROVE  event'.todo[i] # "fresh"
    <3> HIDE DEF todo
    <3>1. Tail(todo) \in Seq(Steps) /\ Len(Tail(todo)) = Len(todo) - 1 /\ Len(todo) \in Nat
          /\ \A j \in 1 .. Len(todo) - 1 : Tail(todo)[j] = todo[j + 1]
      BY <2>1
    <3>2. CASE event'.todo = Tail(todo)
      BY <2>1, <2>3, <2>4, <3>1, <3>2
    <3>3. CASE event'.todo = <<"fresh">> \o Tail(todo)
      <4>1. i \in 2 .. Len(todo) /\ (<<"fresh">> \o Tail(todo))[i] = Tail(todo)[i - 1]
        BY <2>4, <3>1, <3>3
      <4>2. Tail(todo)[i - 1] = todo[i]
        BY <3>1, <4>1
      <4>3. QED
        BY <2>1, <2>3, <2>4, <3>3, <4>1, <4>2
    <3>4. QED
      BY <2>2, <3>2, <3>3
  <2>5. QED
    BY <1>4, <2>2, <2>4 DEF EventInv
<1>5. QED
  BY <1>1, <1>2, <1>3, <1>4, EventSteps

LEMMA FoundStep ==
    TypeOK /\ SeenInv /\ EventInv /\ FoundInv /\ [Next]_vars => FoundInv'
<1> SUFFICES ASSUME TypeOK, SeenInv, EventInv, FoundInv, [Next]_vars,
                    Doing({"fresh"})', event'.msg.scene = "c2c"
             PROVE  Found'
  BY DEF FoundInv
<1>0. event' # None /\ event'.todo # <<>> /\ event'.todo[1] = "fresh"
  BY DEF Doing
<1>1. CASE Arrive
  <2>1. PICK kind \in EventKind : \E m \in EventsOf(kind) :
            event' = [kind |-> kind, msg |-> m, todo |-> Todo(kind, m), since |-> clock]
    BY <1>1 DEF Arrive
  <2>2. PICK m : event'.todo = Todo(kind, m)
    BY <2>1
  <2>3. Todo(kind, m)[1] # "fresh"
    BY DEF Todo, EventKind
  <2>4. QED
    BY <1>0, <2>2, <2>3
<1>2. CASE event' = event /\ event # None /\ clock' \in {clock, clock + 1}
  <2>1. Found
    BY <1>2 DEF FoundInv, Doing
  <2>2. PICK u \in Users, t \in event.since .. clock :
          /\ firstSeen[u] # Never /\ firstSeen[u] <= t
          /\ firstSeen[u] \div UnitsPerDay = t \div UnitsPerDay
    BY <2>1 DEF Found
  <2>3. firstSeen'[u] = firstSeen[u]
    BY <2>2, FirstSeenStays DEF Seen
  <2>4. t \in event'.since .. clock'
    <3>1. event.since \in Nat /\ clock \in Nat
      BY <1>2, StatisticsAssumption DEF TypeOK, Event
    <3>2. QED
      BY <1>2, <2>2, <3>1
  <2>5. QED
    BY <2>2, <2>3, <2>4 DEF Found
<1>3. CASE /\ LoopCheck /\ event # None /\ event.todo # <<>> /\ clock' = clock
           /\ NewToday(Who(event.msg))
           /\ event' = [event EXCEPT !.todo = <<"fresh">> \o Tail(@)]
  <2> DEFINE u == event.msg.user
             U == UnitsPerDay
  <2>1. event \in Event
    BY <1>3 DEF TypeOK
  <2>2. event'.msg = event.msg /\ event'.since = event.since /\ firstSeen' = firstSeen
    BY <1>3, <2>1 DEF Event, LoopCheck, table
  <2>3. Who(event.msg) = u
    BY <2>2 DEF Who
  <2>4. Who(event.msg) \in Seen /\ u \in Users \cup {None}
    BY <2>1, WhoType DEF Event
  <2>5. u \in Users
    BY <2>3, <2>4, StatisticsAssumption
  <2>6. /\ firstSeen[u] # Never /\ firstSeen[u] >= clock - (clock % U)
        /\ firstSeen[u] <= clock
    BY <1>3, <2>3, <2>5 DEF NewToday, SeenInv, Seen
  <2>7. firstSeen[u] \div U = clock \div U
    <3>1. clock \in Nat /\ firstSeen[u] \in Nat /\ U \in Nat \ {0}
      BY <2>5, <2>6, StatisticsAssumption DEF TypeOK, Seen
    <3> DEFINE f == firstSeen[u]
    <3>2. f >= clock - (clock % U) /\ f <= clock
      BY <2>6
    <3> HIDE DEF f, U, u
    <3>3. QED
      BY <3>1, <3>2, SameDay DEF f
  <2>8. clock \in event'.since .. clock'
    <3>1. event.since \in Nat /\ clock \in Nat /\ event.since <= clock
      BY <1>3, <2>1, StatisticsAssumption DEF TypeOK, Event, EventInv
    <3>2. QED
      BY <1>3, <2>2, <3>1
  <2> HIDE DEF u
  <2>9. QED
    BY <2>2, <2>5, <2>6, <2>7, <2>8 DEF Found
<1>4. CASE /\ event # None /\ event.todo # <<>> /\ clock' = clock
           /\ event' = [event EXCEPT !.todo = Tail(@)]
  <2> DEFINE todo == event.todo
  <2>1. event \in Event /\ todo \in Seq(Steps) /\ todo # <<>>
    BY <1>4 DEF TypeOK, Event, Steps
  <2>2. event'.todo = Tail(todo) /\ \A i \in DOMAIN todo : i > 1 => todo[i] # "fresh"
    BY <1>4, <2>1 DEF Event, EventInv
  <2> HIDE DEF todo
  <2>3. Tail(todo) # <<>> => Tail(todo)[1] = todo[2] /\ 2 \in DOMAIN todo
    BY <2>1
  <2>4. QED
    BY <1>0, <2>2, <2>3
<1>5. CASE event' = event /\ event # None /\ Tick
  BY <1>2, <1>5 DEF Tick
<1>6. CASE event' = event /\ event # None /\ clock' = clock
  BY <1>2, <1>6
<1>7. QED
  BY <1>0, <1>1, <1>3, <1>4, <1>5, <1>6, EventSteps

(* A transaction that begins with a change a date can count, ... *)
LEMMA BackedBegins ==
    ASSUME TypeOK, [Next]_vars, BackedInv,
           NEW a \in Actor, NEW c \in SomeChange, Begin(a, c), UNCHANGED days,
           NewUser(c) => Backed(LocalDate(clock))
    PROVE  BackedInv'
<1> DEFINE d == LocalDate(clock)
<1>1. d \in Dates
  BY TodayIsADate DEF TypeOK
<1>2. \/ tx' = [tx EXCEPT ![a] = [date |-> d, row |-> days[d], change |-> c]]
      \/ tx' = [tx EXCEPT ![a] = [date |-> d, row |-> None, change |-> None]]
  BY DEF Begin
<1>3. \A b \in Actor : b # a => tx'[b] = tx[b]
  BY BeginType
<1>4. /\ tx'[a].date = d
      /\ \/ tx'[a].row = days[d] /\ tx'[a].change = c
         \/ tx'[a].row = None /\ tx'[a].change = None
  BY <1>2 DEF TypeOK, Actor
<1>5. \A e : Backed(e) => Backed(e)'
  BY BackedStays
<1> HIDE DEF d
<1>6. NewUser(c) => Backed(d)
  BY DEF d
<1>7. \A e \in Dates : days'[e] # None /\ days'[e].fresh["c2c"] > 0 => Backed(e)'
  BY <1>5 DEF BackedInv
<1>8. ASSUME NEW b \in Actor, tx'[b] # None
      PROVE  /\ tx'[b].row # None /\ tx'[b].row.fresh["c2c"] > 0 => Backed(tx[b].date)'
             /\ tx'[b].change # None /\ NewUser(tx'[b].change) => Backed(tx[b].date)'
  <2>1. \A e : Backed(e)' => (e = tx'[b].date => Backed(tx[b].date)')
    BY DEF Backed, LocalDate
  <2>2. CASE b = a
    BY <1>1, <1>4, <1>5, <1>6, <2>1, <2>2 DEF BackedInv
  <2>3. CASE b # a
    BY <1>3, <1>5, <1>8, <2>1, <2>3 DEF BackedInv
  <2>4. QED
    BY <2>2, <2>3
<1>9. QED
  BY <1>7, <1>8 DEF BackedInv, NewUser

(* ... and one that ends. *)
LEMMA BackedEnds ==
    ASSUME TypeOK, [Next]_vars, BackedInv, NEW a \in Actor, End(a)
    PROVE  BackedInv'
<1> DEFINE t == tx[a]
           r == IF t.row = None THEN EmptyRow ELSE t.row
<1>1. /\ t # None /\ t.date \in Dates /\ t.row \in Row \cup {None}
      /\ t.change \in SomeChange \cup {None}
  BY TransactionFields DEF End
<1>2. tx'[a] = None /\ \A b \in Actor : b # a => tx'[b] = tx[b]
  BY EndType
<1>3. \A e : Backed(e) => Backed(e)'
  BY BackedStays
<1>4. \A e \in Dates : days'[e] # None /\ days'[e].fresh["c2c"] > 0 => Backed(e)'
  <2>1. CASE t.change # None /\ Save(t)
    <3>1. days' = [days EXCEPT ![t.date] = Apply(t.change, r)]
      BY <2>1 DEF Save
    <3>2. r \in Row /\ r.fresh["c2c"] \in Nat /\ "c2c" \in Scene /\ t.change \in SomeChange
      BY <1>1, <2>1, EmptyRowType DEF Row, Scene
    <3>3. Apply(t.change, r).fresh["c2c"] = r.fresh["c2c"] + Adds(t.change, "fresh", "c2c")
      BY <3>2, ApplyFields
    <3>4. r.fresh["c2c"] > 0 => Backed(t.date)
      BY <1>1 DEF BackedInv, EmptyRow, NoCount, Scene
    <3>5. Adds(t.change, "fresh", "c2c") # 0 => Backed(t.date)
      BY <1>1, <2>1 DEF Adds, BackedInv, NewUser
    <3>6. Apply(t.change, r).fresh["c2c"] > 0 => Backed(t.date)
      BY <3>2, <3>3, <3>4, <3>5
    <3>7. \A e \in Dates : days'[e] = IF e = t.date THEN Apply(t.change, r) ELSE days[e]
      BY <3>1 DEF TypeOK
    <3> HIDE DEF t, r
    <3>8. QED
      BY <1>3, <3>6, <3>7 DEF BackedInv
  <2>2. CASE UNCHANGED days
    BY <1>3, <2>2 DEF BackedInv
  <2>3. QED
    BY <2>1, <2>2 DEF End
<1>5. ASSUME NEW b \in Actor, tx'[b] # None
      PROVE  /\ tx'[b].row # None /\ tx'[b].row.fresh["c2c"] > 0 => Backed(tx[b].date)'
             /\ tx'[b].change # None /\ NewUser(tx'[b].change) => Backed(tx[b].date)'
  <2>1. b # a /\ tx'[b] = tx[b]
    BY <1>2, <1>5
  <2>2. Backed(tx[b].date) => Backed(tx[b].date)'
    BY <1>3, <2>1 DEF Backed, LocalDate
  <2>3. QED
    BY <1>5, <2>1, <2>2 DEF BackedInv
<1>6. QED
  BY <1>4, <1>5 DEF BackedInv, NewUser

LEMMA BackedStep ==
    TypeOK /\ RecentInv /\ [Next]_vars => BackedInv'
<1> SUFFICES ASSUME TypeOK, RecentInv, [Next]_vars
             PROVE  BackedInv'
  OBVIOUS
<1> USE DEF RecentInv
<1>1. CASE LoopBegin
  <2> DEFINE c == ChangeTodo(Head(event.todo), event.msg)
  <2>1. event \in Event /\ event # None /\ event.todo # <<>>
        /\ Head(event.todo) \in Counting
    BY <1>1 DEF LoopBegin, Doing, TypeOK
  <2>2. PICK kind \in EventKind : event.msg \in EventsOf(kind)
    BY <2>1 DEF Event
  <2>3. c \in SomeChange
    BY <2>1, <2>2, ChangeTodoType
  <2>4. NewUser(c) => Head(event.todo) = "fresh" /\ event.msg.scene = "c2c"
    BY <2>1 DEF NewUser, ChangeTodo, Change, Counting
  <2>5. NewUser(c) => Backed(LocalDate(clock))
    BY <2>1, <2>4, FoundIsBacked DEF FoundInv, Doing
  <2>6. Begin("loop", c) /\ UNCHANGED days
    BY <1>1 DEF LoopBegin
  <2> HIDE DEF c
  <2>7. QED
    BY <2>3, <2>5, <2>6, BackedBegins DEF Actor
<1>2. ASSUME NEW s \in Slots, HandlerBegin(s)
      PROVE  BackedInv'
  <2>1. HandlerChange(s) \in SomeChange /\ ~ NewUser(HandlerChange(s))
    BY <1>2, HandlerChangeType DEF HandlerBegin, HandlerChange, NewUser, Change
  <2>2. Begin(s, HandlerChange(s)) /\ UNCHANGED days
    BY <1>2 DEF HandlerBegin
  <2>3. QED
    BY <2>1, <2>2, BackedBegins DEF Actor
<1>3. CASE LoopEnd \/ \E s \in Slots : HandlerEnd(s)
  BY <1>3, BackedEnds DEF LoopEnd, HandlerEnd, Actor
<1>4. CASE UNCHANGED days /\ \A a \in Actor : tx'[a] \in {tx[a], None}
  <2>1. \A e : Backed(e) => Backed(e)'
    BY BackedStays
  <2>2. ASSUME NEW b \in Actor, tx'[b] # None
        PROVE  Backed(tx[b].date) => Backed(tx[b].date)'
    BY <1>4, <2>1, <2>2 DEF Backed, LocalDate
  <2>3. QED
    BY <1>4, <2>1, <2>2 DEF BackedInv, NewUser
<1>5. CASE Crash
  BY <1>4, <1>5 DEF Crash, TypeOK, Actor, table
<1>6. QED
  BY <1>1, <1>2, <1>3, <1>4, <1>5 DEF Next, Arrive, LoopCheck, LoopUpsert, LoopDispatch,
     HandlerSkip, Timeout, Tick, Done, vars, table

(* A date with a new user has one: somebody was first seen in a UTC day    *)
(* that shares hours with it, and not after it.                            *)
THEOREM CountedAreNew == Spec => []NewUsersAreRecent
<1>1. RecentInv => NewUsersAreRecent
  BY DEF RecentInv, BackedInv, Backed, NewUsersAreRecent
<1>2. Init => TypeOK /\ RecentInv
  BY TypeInit, RecentInit
<1>3. TypeOK /\ RecentInv /\ [Next]_vars => (TypeOK /\ RecentInv)'
  BY TypeStep, SeenStep, EventStep, FoundStep, BackedStep DEF RecentInv
<1>4. QED
  BY <1>1, <1>2, <1>3, PTL DEF Spec

-----------------------------------------------------------------------------
(* Without faults nothing is lost. *)

(***************************************************************************)
(* Without timeouts the loop records or a handler runs, and never two      *)
(* handlers: so one transaction at most is open.                           *)
(***************************************************************************)
TakesTurns ==
    faults = {} =>
        /\ event # None => \A s \in Slots : ~ Running(s)
        /\ \A s \in Slots : Running(s) => loop = s

\* The rows as they are, with one made up for a day that has none.
Current == [d \in Dates |-> IF days[d] = None THEN EmptyRow ELSE days[d]]

(***************************************************************************)
(* NothingLost, with what the open transaction knows: the row it has read  *)
(* is the one in the table, and its change is all that the table lacks.    *)
(***************************************************************************)
NoneLost ==
    faults = {} =>
        /\ (\A a \in Actor : tx[a] = None) => ideal = Current
        /\ \A a \in Actor : tx[a] # None =>
             /\ tx[a].change # None
             /\ tx[a].row = days[tx[a].date]
             /\ ideal = [Current EXCEPT ![tx[a].date] = Apply(tx[a].change, @)]

(* The faults of a behaviour stay. *)
LEMMA FaultsStay ==
    ASSUME [Next]_vars
    PROVE  UNCHANGED faults
BY DEF Next, Arrive, LoopBegin, LoopEnd, LoopCheck, LoopUpsert, LoopDispatch,
       HandlerBegin, HandlerEnd, HandlerSkip, Timeout, Crash, Tick, Done, vars

LEMMA TurnsInit == Init => TakesTurns
BY DEF Init, TakesTurns, Running

LEMMA TurnsStep == TypeOK /\ TakesTurns /\ [Next]_vars => TakesTurns'
<1> SUFFICES ASSUME TypeOK, TakesTurns, [Next]_vars, faults = {}
             PROVE  TakesTurns'
  BY FaultsStay DEF TakesTurns
<1> USE DEF TakesTurns
<1>1. CASE Arrive
  BY <1>1, LoopAssumption DEF Arrive, Running
<1>2. CASE LoopBegin \/ LoopEnd \/ LoopCheck \/ LoopUpsert
  <2>1. event # None /\ UNCHANGED <<handlers, loop>>
    BY <1>2 DEF LoopBegin, LoopEnd, LoopCheck, LoopUpsert, End, Doing, TypeOK
  <2>2. QED
    BY <2>1 DEF Running
<1>3. CASE LoopDispatch
  BY <1>3 DEF LoopDispatch, TypeOK, Running
<1>4. ASSUME NEW s \in Slots, HandlerBegin(s)
      PROVE  TakesTurns'
  BY <1>4 DEF HandlerBegin, Running
<1>5. ASSUME NEW s \in Slots, HandlerEnd(s) \/ HandlerSkip(s)
      PROVE  TakesTurns'
  <2>1. Running(s) /\ UNCHANGED event
    BY <1>5 DEF HandlerEnd, HandlerSkip
  <2>2. \/ handlers' = [handlers EXCEPT ![s].pc = "reply"] /\ loop' = loop
        \/ handlers' = [handlers EXCEPT ![s] = None]
    BY <1>5 DEF HandlerEnd, HandlerSkip, Goto, Finish
  <2>3. loop = s /\ event = None /\ \A t \in Slots : t # s => ~ Running(t)'
    BY <2>1, <2>2 DEF TypeOK, Running
  <2>4. Running(s)' => loop' = loop
    BY <2>2 DEF TypeOK, Running
  <2>5. QED
    BY <2>1, <2>3, <2>4
<1>6. CASE Timeout \/ Crash
  BY <1>6 DEF Timeout, WaitEnds, Crash
<1>7. CASE Tick \/ UNCHANGED vars
  BY <1>7 DEF Tick, vars, Running
<1>8. QED
  BY <1>1, <1>2, <1>3, <1>4, <1>5, <1>6, <1>7 DEF Next, Done

(* One transaction at most. *)
LEMMA OneTransaction ==
    ASSUME TypeOK, TakesTurns, faults = {}, NEW a \in Actor, NEW b \in Actor,
           tx[a] # None, tx[b] # None
    PROVE  a = b
BY DEF TypeOK, TakesTurns, Actor, Doing

(* Who begins one finds none. *)
LEMMA BeginsAlone ==
    ASSUME TypeOK, TakesTurns, [Next]_vars, faults = {},
           NEW a \in Actor, tx[a] = None, tx'[a] # None
    PROVE  \A b \in Actor : tx[b] = None
<1> USE DEF Actor, TypeOK, TakesTurns, Doing
<1>0. "loop" \notin Slots
  BY StatisticsAssumption
<1>1. CASE LoopBegin
  <2>1. tx["loop"] = None /\ event # None
    BY <1>1 DEF LoopBegin, Begin
  <2>2. QED
    BY <2>1
<1>2. ASSUME NEW s \in Slots, HandlerBegin(s)
      PROVE  \A b \in Actor : tx[b] = None
  <2>1. tx[s] = None /\ Running(s)
    BY <1>2 DEF HandlerBegin, Begin
  <2>2. event = None /\ \A t \in Slots : t # s => ~ Running(t)
    BY <2>1
  <2>3. QED
    BY <2>1, <2>2
<1>3. CASE LoopEnd \/ \E s \in Slots : HandlerEnd(s)
  BY <1>3 DEF LoopEnd, HandlerEnd, End
<1>4. CASE UNCHANGED tx
  BY <1>4
<1>5. CASE Crash
  BY <1>5 DEF Crash
<1>6. QED
  BY <1>1, <1>2, <1>3, <1>4, <1>5
     DEF Next, Arrive, LoopCheck, LoopUpsert, LoopDispatch, HandlerSkip, Timeout,
         Tick, Done, vars

LEMMA NoneLostInit == Init => NoneLost
BY DEF Init, NoneLost, Actor, Current

LEMMA NoneLostStep ==
    TypeOK /\ TakesTurns /\ NoneLost /\ [Next]_vars => NoneLost'
<1> SUFFICES ASSUME TypeOK, TakesTurns, NoneLost, [Next]_vars, faults = {}
             PROVE  NoneLost'
  BY FaultsStay DEF NoneLost
<1>0. faults' = {}
  BY FaultsStay
<1>1. ASSUME NEW a \in Actor, NEW c \in SomeChange, Begin(a, c), UNCHANGED days
      PROVE  NoneLost'
  <2>1. PICK d \in Dates :
              /\ tx[a] = None
              /\ ideal' = [ideal EXCEPT ![d] = Apply(c, ideal[d])]
              /\ tx' = [tx EXCEPT ![a] = [date |-> d, row |-> days[d], change |-> c]]
    BY <1>1, Begun
  <2>2. tx'[a] = [date |-> d, row |-> days[d], change |-> c]
    BY <2>1 DEF TypeOK, Actor
  <2>3. tx'[a] # None
    <3>1. tx'[a] \in Transaction
      BY <2>2 DEF Transaction, TypeOK
    <3>2. QED
      BY <3>1, StatisticsNoneAssumption
  <2>4. \A b \in Actor : tx[b] = None
    BY <2>1, <2>3, BeginsAlone
  <2>5. ideal = Current
    BY <2>4 DEF NoneLost
  <2>6. \A b \in Actor : b # a => tx'[b] = None
    BY <1>1, <2>4, BeginType
  <2>7. Current' = Current
    BY <1>1 DEF Current
  <2>8. c # None
    BY StatisticsNoneAssumption
  <2>9. ideal' = [Current' EXCEPT ![d] = Apply(c, @)]
    BY <2>1, <2>5, <2>7 DEF Current
  <2>10. /\ tx'[a].change # None
         /\ tx'[a].row = days'[tx'[a].date]
         /\ tx'[a].date = d /\ tx'[a].change = c
    BY <1>1, <2>2, <2>8
  <2>11. ideal' = [Current' EXCEPT ![tx'[a].date] = Apply(tx'[a].change, @)]
    BY <2>9, <2>10
  <2>12. ASSUME NEW b \in Actor, tx'[b] # None
         PROVE  b = a
    BY <2>6, <2>12
  <2>13. QED
    BY <2>3, <2>10, <2>11, <2>12 DEF NoneLost
<1>2. ASSUME NEW a \in Actor, End(a), UNCHANGED ideal
      PROVE  NoneLost'
  <2> DEFINE t == tx[a]
             r == IF t.row = None THEN EmptyRow ELSE t.row
  <2>1. t # None /\ t.date \in Dates /\ t.row \in Row \cup {None}
    BY <1>2, TransactionFields DEF End
  <2>2. tx'[a] = None /\ \A b \in Actor : b # a => tx'[b] = tx[b]
    BY <1>2, EndType
  <2>3. \A b \in Actor : tx'[b] = None
    BY <2>1, <2>2, OneTransaction
  <2>4. /\ t.change # None /\ t.row = days[t.date]
        /\ ideal = [Current EXCEPT ![t.date] = Apply(t.change, @)]
    BY <2>1 DEF NoneLost
  <2>5. Save(t)
    BY <1>2, <2>4 DEF End
  <2>6. days' = [days EXCEPT ![t.date] = Apply(t.change, r)]
    BY <2>5 DEF Save
  <2>7. Current[t.date] = r
    BY <2>1, <2>4 DEF Current
  <2>8. Apply(t.change, r) # None
    <3>1. t.change \in SomeChange /\ r \in Row
      BY <2>1, <2>4, TransactionFields, EmptyRowType
    <3>2. Apply(t.change, r) \in Row
      BY <3>1, ApplyType
    <3>3. QED
      BY <3>2, StatisticsNoneAssumption
  <2>9. Current' = [Current EXCEPT ![t.date] = Apply(t.change, @)]
    <3>1. \A d \in Dates : days'[d] = IF d = t.date THEN Apply(t.change, r)
                                      ELSE days[d]
      BY <2>6 DEF TypeOK
    <3>2. QED
      BY <2>7, <2>8, <3>1 DEF Current
  <2>10. QED
    BY <1>2, <2>3, <2>4, <2>9 DEF NoneLost
<1>3. CASE UNCHANGED <<days, ideal>> /\ \A a \in Actor : tx'[a] \in {tx[a], None}
  <2>1. CASE \A a \in Actor : tx'[a] = tx[a]
    BY <1>3, <2>1, <1>0 DEF NoneLost, Current
  <2>2. CASE \E a \in Actor : tx'[a] # tx[a]
    <3>1. CASE Crash
      BY <3>1 DEF Crash
    <3>2. CASE \E a \in Actor : End(a) /\ UNCHANGED ideal
      BY <1>2, <3>2
    <3>3. CASE UNCHANGED tx
      BY <2>2, <3>3
    <3>4. CASE LoopBegin \/ \E s \in Slots : HandlerBegin(s)
      <4>1. PICK b \in Actor : \E c : Begin(b, c)
        BY <3>4 DEF LoopBegin, HandlerBegin, Actor
      <4>2. QED
        BY <1>3, <2>2, <4>1 DEF Begin, TypeOK, Actor
    <3>5. QED
      BY <3>1, <3>2, <3>3, <3>4
         DEF Next, Arrive, LoopEnd, LoopCheck, LoopUpsert, LoopDispatch, HandlerEnd,
             HandlerSkip, Timeout, Tick, Done, vars, table, Actor
  <2>3. QED
    BY <2>1, <2>2
<1>4. QED
  BY <1>1, <1>2, <1>3, RowSteps

(* Without faults every count is in its row, across any number of days.    *)
THEOREM NothingIsLost == Spec => []NothingLost
<1>1. TypeOK /\ NoneLost => NothingLost
  <2> SUFFICES ASSUME TypeOK, NoneLost, faults = {},
                      \A a \in DOMAIN tx : tx[a] = None,
                      NEW d \in Dates
               PROVE  ideal[d] = IF days[d] = None THEN EmptyRow ELSE days[d]
    BY DEF NothingLost
  <2>1. DOMAIN tx = Actor
    BY DEF TypeOK, Actor
  <2>2. ideal = Current
    BY <2>1 DEF NoneLost
  <2>3. QED
    BY <2>2 DEF Current
<1>2. Init => TypeOK /\ TakesTurns /\ NoneLost
  BY TypeInit, TurnsInit, NoneLostInit
<1>3. TypeOK /\ TakesTurns /\ NoneLost /\ [Next]_vars
         => (TypeOK /\ TakesTurns /\ NoneLost)'
  BY TypeStep, TurnsStep, NoneLostStep
<1>4. QED
  BY <1>1, <1>2, <1>3, PTL DEF Spec

=============================================================================
