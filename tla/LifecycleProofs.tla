--------------------------- MODULE LifecycleProofs --------------------------
(***************************************************************************)
(* Proofs about the running bot, for any size of the event channel, any    *)
(* number of events and any shutdown requests: events stay in order, the   *)
(* storage outlives the loop, a single shutdown does not panic, and the    *)
(* event loop is the one that MessageLoop describes.                       *)
(***************************************************************************)
EXTENDS Lifecycle, FiniteSetTheorems, TLAPS

-----------------------------------------------------------------------------
(* Sequences. *)

(* Appending adds one element. *)
LEMMA ToSetAppend ==
    ASSUME NEW s \in Seq(Events), NEW e \in Events
    PROVE  ToSet(Append(s, e)) = ToSet(s) \cup {e}
<1> DEFINE t == Append(s, e)
<1>1. /\ Len(s) \in Nat
      /\ DOMAIN s = 1 .. Len(s) /\ DOMAIN t = 1 .. Len(s) + 1
      /\ \A i \in 1 .. Len(s) : t[i] = s[i]
      /\ t[Len(s) + 1] = e
  OBVIOUS
<1>2. ASSUME NEW x \in ToSet(t) PROVE x \in ToSet(s) \cup {e}
  <2>1. PICK i \in 1 .. Len(s) + 1 : x = t[i]
    BY <1>1, <1>2 DEF ToSet
  <2>2. CASE i \in 1 .. Len(s)
    BY <1>1, <2>1, <2>2 DEF ToSet
  <2>3. CASE i = Len(s) + 1
    BY <1>1, <2>1, <2>3
  <2>4. QED
    BY <1>1, <2>1, <2>2, <2>3
<1>3. ASSUME NEW x \in ToSet(s) PROVE x \in ToSet(t)
  <2>1. PICK i \in 1 .. Len(s) : x = s[i]
    BY <1>1, <1>3 DEF ToSet
  <2>2. x = t[i] /\ i \in DOMAIN t
    BY <1>1, <2>1
  <2>3. QED
    BY <2>2 DEF ToSet
<1>4. e \in ToSet(t)
  <2>1. Len(s) + 1 \in DOMAIN t
    BY <1>1
  <2>2. QED
    BY <1>1, <2>1 DEF ToSet
<1>5. QED
  BY <1>2, <1>3, <1>4

-----------------------------------------------------------------------------
(* Types. *)

LEMMA TypeInit == Init => TypeOK
<1> SUFFICES ASSUME Init
             PROVE  TypeOK
  OBVIOUS
<1>1. <<>> \in Seq(Events) /\ Len(<<>>) = 0
  OBVIOUS
<1>2. /\ buffer \in Seq(Events) /\ Len(buffer) <= Capacity
      /\ taken \in Seq(Events)
  BY <1>1, LifecycleAssumption DEF Init
<1>3. phase \in [Callers -> Phase]
  BY DEF Init, Phase
<1>4. received \in 0 .. MaxEvents
  BY LifecycleAssumption DEF Init
<1>5. QED
  BY <1>2, <1>3, <1>4 DEF Init, TypeOK

(* A process that ends leaves well-typed variables behind. *)
LEMMA EndsTyped ==
    ASSUME TypeOK, NEW how \in {"panicked", "exited"}, ProcessEnds(how),
           UNCHANGED <<buffer, phase>>,
           received' \in 0 .. MaxEvents, lost' \subseteq Events
    PROVE  TypeOK'
BY DEF TypeOK, ProcessEnds

LEMMA TypeStep == TypeOK /\ [Next]_vars => TypeOK'
<1> SUFFICES ASSUME TypeOK, [Next]_vars
             PROVE  TypeOK'
  OBVIOUS
<1> USE LifecycleAssumption DEF channel, work, closing
<1>1. CASE Receive
  <2>1. received' \in 0 .. MaxEvents /\ received' \in Events
    BY <1>1 DEF Receive, TypeOK, Events
  <2>2. CASE "events" \in open /\ Len(buffer) < Capacity
    <3>1. ASSUME buffer' = Append(buffer, received')
          PROVE  buffer' \in Seq(Events) /\ Len(buffer') <= Capacity
      BY <2>1, <2>2, <3>1 DEF TypeOK
    <3>2. QED
      BY <1>1, <2>1, <2>2, <3>1 DEF Receive, TypeOK
  <2>3. CASE "events" \in open /\ Len(buffer) = Capacity
    <3>1. ~ (Len(buffer) < Capacity)
      BY <2>3
    <3>2. lost' \subseteq Events
          /\ UNCHANGED <<process, session, buffer, work, cleaning, closing>>
      BY <1>1, <2>1, <2>3, <3>1 DEF Receive, TypeOK
    <3>3. QED
      BY <2>1, <3>2 DEF TypeOK
  <2>4. CASE "events" \notin open
    <3>1. lost' \subseteq Events
      BY <1>1, <2>1, <2>4 DEF Receive, TypeOK
    <3>2. CASE ProcessEnds("panicked") /\ UNCHANGED <<buffer, phase>>
      BY <2>1, <3>1, <3>2, EndsTyped
    <3>3. CASE UNCHANGED <<process, session, buffer, work, cleaning, closing>>
      BY <2>1, <3>1, <3>3 DEF TypeOK
    <3>4. QED
      BY <1>1, <2>4, <3>2, <3>3 DEF Receive
  <2>5. QED
    BY <1>1, <2>2, <2>3, <2>4 DEF Receive, TypeOK
<1>2. CASE SessionEnds
  BY <1>2 DEF SessionEnds, TypeOK
<1>3. CASE LoopTake
  <2>1. /\ Head(buffer) \in Events /\ Tail(buffer) \in Seq(Events)
        /\ Len(Tail(buffer)) <= Capacity
    BY <1>3 DEF LoopTake, TypeOK
  <2>2. taken' \in Seq(Events)
    BY <1>3, <2>1 DEF LoopTake, TypeOK
  <2>3. Head(buffer) # 0
    BY <2>1 DEF Events
  <2>4. QED
    BY <1>3, <2>1, <2>2, <2>3 DEF LoopTake, LoopSame, TypeOK
<1>4. CASE LoopReturn
  BY <1>4 DEF LoopReturn, LoopSame, TypeOK
<1>5. CASE LoopStart
  BY <1>5 DEF LoopStart, LoopSame, TypeOK
<1>6. CASE LoopPublish \/ LoopWaitEnds
  BY <1>6 DEF LoopPublish, LoopWaitEnds, LoopSelect, LoopSame, TypeOK
<1>7. CASE HandlerReturns
  BY <1>7 DEF HandlerReturns, LoopSame, TypeOK
<1>8. CASE CleanupReturns
  BY <1>8 DEF CleanupReturns, TypeOK
<1>9. ASSUME NEW c \in Callers, Ask(c) \/ ShutdownStep(c) \/ Exit(c)
      PROVE  TypeOK'
  <2> USE DEF ShutdownSame, To
  <2>1. CASE Ask(c) \/ StopAdapter(c)
    BY <2>1 DEF Ask, StopAdapter, TypeOK, Phase
  <2>2. CASE StopServers(c)
    BY <2>2 DEF StopServers, TypeOK, Phase
  <2>3. CASE AwaitSession(c)
    BY <2>3 DEF AwaitSession, TypeOK, Phase
  <2>4. CASE CloseEvents(c)
    <3>1. CASE "events" \in open
      BY <2>4, <3>1 DEF CloseEvents, TypeOK, Phase
    <3>2. CASE "events" \notin open
      BY <2>4, <3>2, EndsTyped DEF CloseEvents, TypeOK
    <3>3. QED
      BY <3>1, <3>2
  <2>5. CASE Cancel(c)
    BY <2>5 DEF Cancel, TypeOK, Phase
  <2>6. CASE AwaitGoroutines(c)
    BY <2>6 DEF AwaitGoroutines, TypeOK, Phase
  <2>7. CASE Close(c)
    <3>1. phase' \in [Callers -> Phase]
      BY <2>7 DEF Close, TypeOK, Phase
    <3>2. QED
      BY <2>7, <3>1 DEF Close, TypeOK
  <2>8. CASE Exit(c)
    BY <2>8, EndsTyped DEF Exit, TypeOK
  <2>9. QED
    BY <1>9, <2>1, <2>2, <2>3, <2>4, <2>5, <2>6, <2>7, <2>8 DEF ShutdownStep
<1>10. CASE UNCHANGED vars
  BY <1>10 DEF vars, TypeOK
<1>11. QED
  BY <1>1, <1>2, <1>3, <1>4, <1>5, <1>6, <1>7, <1>8, <1>9, <1>10
     DEF Next, LoopStep, Stopped

(* The variables keep their types. *)
THEOREM TypeCorrect == Spec => []TypeOK
BY TypeInit, TypeStep, PTL DEF Spec

-----------------------------------------------------------------------------
(* Events. *)

Increasing(s) == \A i, j \in DOMAIN s : i < j => s[i] < s[j]

(* A number above all of an increasing sequence can be put at its end. *)
LEMMA IncreasingAppend ==
    ASSUME NEW s \in Seq(Events), Increasing(s),
           NEW e \in Events, \A x \in ToSet(s) : x < e
    PROVE  Increasing(Append(s, e))
<1> DEFINE t == Append(s, e)
<1>1. /\ Len(s) \in Nat
      /\ DOMAIN s = 1 .. Len(s) /\ DOMAIN t = 1 .. Len(s) + 1
      /\ \A i \in 1 .. Len(s) : t[i] = s[i]
      /\ t[Len(s) + 1] = e
  OBVIOUS
<1>2. ASSUME NEW i \in DOMAIN t, NEW j \in DOMAIN t, i < j
      PROVE  t[i] < t[j]
  <2>1. i \in 1 .. Len(s) /\ t[i] = s[i]
    BY <1>1, <1>2
  <2>2. CASE j \in 1 .. Len(s)
    BY <1>1, <1>2, <2>1, <2>2 DEF Increasing
  <2>3. CASE j = Len(s) + 1
    <3>1. s[i] \in ToSet(s)
      BY <1>1, <2>1 DEF ToSet
    <3>2. QED
      BY <1>1, <2>1, <2>3, <3>1
  <2>4. QED
    BY <1>1, <2>2, <2>3
<1>3. QED
  BY <1>2 DEF Increasing

(* In an increasing sequence in two parts, the second's head is not in the *)
(* first.                                                                  *)
LEMMA HeadIsNew ==
    ASSUME NEW s \in Seq(Events), NEW t \in Seq(Events), t # <<>>,
           Increasing(s \o t)
    PROVE  Head(t) \notin ToSet(s)
<1> DEFINE u == s \o t
<1>1. /\ Len(s) \in Nat /\ Len(t) \in Nat /\ Len(t) > 0
      /\ DOMAIN s = 1 .. Len(s) /\ DOMAIN u = 1 .. Len(s) + Len(t)
      /\ \A i \in 1 .. Len(s) : u[i] = s[i] /\ s[i] \in Events
      /\ u[Len(s) + 1] = Head(t)
  OBVIOUS
<1>2. ASSUME NEW i \in 1 .. Len(s), Head(t) = s[i]
      PROVE  FALSE
  <2>1. u[i] < u[Len(s) + 1]
    BY <1>1 DEF Increasing
  <2>2. QED
    BY <1>1, <1>2, <2>1 DEF Events
<1>3. QED
  BY <1>1, <1>2 DEF ToSet

(* Nothing but the adapter and the loop's taking moves an event. *)
LEMMA EventsStay ==
    ASSUME [Next]_vars
    PROVE  \/ Receive \/ LoopTake
           \/ UNCHANGED <<received, buffer, lost, taken>>
<1> USE DEF channel, work
<1>1. CASE SessionEnds \/ CleanupReturns
  BY <1>1 DEF SessionEnds, CleanupReturns
<1>2. CASE LoopReturn \/ LoopStart \/ LoopPublish \/ LoopWaitEnds
  BY <1>2 DEF LoopReturn, LoopStart, LoopPublish, LoopWaitEnds, LoopSelect,
              LoopSame
<1>3. CASE HandlerReturns
  BY <1>3 DEF HandlerReturns, LoopSame
<1>4. ASSUME NEW c \in Callers, Ask(c) \/ ShutdownStep(c) \/ Exit(c)
      PROVE  UNCHANGED <<received, buffer, lost, taken>>
  BY <1>4 DEF Ask, ShutdownStep, Exit, StopServers, StopAdapter, AwaitSession,
              CloseEvents, Cancel, AwaitGoroutines, Close, ShutdownSame,
              ProcessEnds
<1>5. CASE UNCHANGED vars
  BY <1>5 DEF vars
<1>6. QED
  BY <1>1, <1>2, <1>3, <1>4, <1>5 DEF Next, LoopStep, Stopped

LEMMA OrderInit == Init => AcceptedInOrder
<1> SUFFICES ASSUME Init
             PROVE  AcceptedInOrder
  OBVIOUS
<1>1. taken \o buffer = <<>> /\ DOMAIN (taken \o buffer) = {}
  BY DEF Init
<1>2. ToSet(taken \o buffer) = {}
  BY <1>1 DEF ToSet
<1>3. 1 .. received = {} /\ lost = {}
  BY DEF Init
<1>4. QED
  BY <1>1, <1>2, <1>3 DEF AcceptedInOrder

LEMMA OrderStep == TypeOK /\ AcceptedInOrder /\ [Next]_vars => AcceptedInOrder'
<1> SUFFICES ASSUME TypeOK, AcceptedInOrder, [Next]_vars
             PROVE  AcceptedInOrder'
  OBVIOUS
<1> DEFINE accepted == taken \o buffer
           n == received + 1
<1>1. /\ taken \in Seq(Events) /\ buffer \in Seq(Events)
      /\ accepted \in Seq(Events) /\ received \in Nat
  BY LifecycleAssumption DEF TypeOK
<1>2. /\ Increasing(accepted)
      /\ ToSet(accepted) \cap lost = {}
      /\ ToSet(accepted) \cup lost = 1 .. received
  BY DEF AcceptedInOrder, Increasing
<1>3. CASE Receive
  <2>1. n \in Events /\ received' = n
    BY <1>1, <1>3, LifecycleAssumption DEF Receive, Events
  <2>2. /\ \A x \in ToSet(accepted) \cup lost : x < n
        /\ n \notin ToSet(accepted) /\ n \notin lost
        /\ 1 .. n = (1 .. received) \cup {n}
    BY <1>1, <1>2
  <2>3. CASE buffer' = Append(buffer, n) /\ UNCHANGED <<taken, lost>>
    <3>1. accepted' = Append(accepted, n)
      BY <1>1, <2>1, <2>3
    <3>2. ToSet(accepted') = ToSet(accepted) \cup {n}
      BY <1>1, <2>1, <3>1, ToSetAppend
    <3>3. Increasing(accepted')
      BY <1>1, <1>2, <2>1, <2>2, <3>1, IncreasingAppend
    <3>4. QED
      BY <1>2, <2>1, <2>2, <2>3, <3>2, <3>3 DEF AcceptedInOrder, Increasing
  <2>4. CASE lost' = lost \cup {n} /\ UNCHANGED <<taken, buffer>>
    <3>1. accepted' = accepted
      BY <2>4
    <3>2. QED
      BY <1>2, <2>1, <2>2, <2>4, <3>1 DEF AcceptedInOrder, Increasing
  <2>5. QED
    BY <1>3, <2>1, <2>3, <2>4 DEF Receive, work, ProcessEnds
<1>4. CASE LoopTake
  <2>1. buffer # <<>> /\ taken' = Append(taken, Head(buffer))
        /\ buffer' = Tail(buffer) /\ UNCHANGED <<received, lost>>
    BY <1>4 DEF LoopTake, LoopSame
  <2>2. accepted' = accepted
    BY <1>1, <2>1
  <2>3. QED
    BY <1>2, <2>1, <2>2 DEF AcceptedInOrder, Increasing
<1>5. CASE UNCHANGED <<received, buffer, lost, taken>>
  BY <1>2, <1>5 DEF AcceptedInOrder, Increasing
<1>6. QED
  BY <1>3, <1>4, <1>5, EventsStay

(* Every event that was received has been taken, waits in the channel or   *)
(* is counted as lost, and the loop takes them in the order they came.     *)
THEOREM EventsInOrder == Spec => []AcceptedInOrder
<1>1. Init => TypeOK /\ AcceptedInOrder
  BY TypeInit, OrderInit
<1>2. TypeOK /\ AcceptedInOrder /\ [Next]_vars => (TypeOK /\ AcceptedInOrder)'
  BY TypeStep, OrderStep
<1>3. QED
  BY <1>1, <1>2, PTL DEF Spec

-----------------------------------------------------------------------------
(* Shutdown. *)

Waited == {"bus", "storage", "limiter", "done"}     \* past AwaitGoroutines
Closed == {"cancel", "wait"} \cup Waited            \* past CloseEvents

(***************************************************************************)
(* StorageOutlivesLoop with what a shutdown that has waited knows.  It     *)
(* says nothing of a process that has ended.                               *)
(***************************************************************************)
StorageInv ==
    process = "running" =>
        /\ "storage" \notin open =>
              \E c \in Callers : phase[c] \in {"limiter", "done"}
        /\ \A c \in Callers :
              phase[c] \in Waited /\ "goroutines" \notin gaveUp =>
                  loop = "returned" /\ ~ cleaning

LEMMA StorageInit == Init => StorageInv
BY DEF Init, StorageInv, Waited, Resource

(* A loop that has returned and a cleanup that has, stay so. *)
LEMMA LoopStaysReturned ==
    ASSUME Receive \/ SessionEnds \/ LoopStep \/ HandlerReturns \/ CleanupReturns,
           loop = "returned", ~ cleaning
    PROVE  loop' = "returned" /\ ~ cleaning'
<1> USE DEF work, closing, channel, LoopSame
<1>1. CASE Receive \/ SessionEnds \/ CleanupReturns
  BY <1>1 DEF Receive, SessionEnds, CleanupReturns, ProcessEnds
<1>2. CASE LoopStep
  BY <1>2 DEF LoopStep, LoopTake, LoopReturn, LoopStart, LoopPublish,
              LoopWaitEnds, LoopSelect
<1>3. CASE HandlerReturns
  BY <1>3 DEF HandlerReturns
<1>4. QED
  BY <1>1, <1>2, <1>3

(* These steps are no shutdown's, and if the process goes on they leave    *)
(* every shutdown where it is.                                             *)
LEMMA OthersStay ==
    ASSUME Receive \/ SessionEnds \/ LoopStep \/ HandlerReturns \/ CleanupReturns
    PROVE  UNCHANGED <<cancelled, open, phase, gaveUp>>
<1> USE DEF closing, LoopSame
<1>1. CASE Receive \/ SessionEnds \/ CleanupReturns
  BY <1>1 DEF Receive, SessionEnds, CleanupReturns, ProcessEnds
<1>2. CASE LoopStep
  BY <1>2 DEF LoopStep, LoopTake, LoopReturn, LoopStart, LoopPublish,
              LoopWaitEnds, LoopSelect
<1>3. CASE HandlerReturns
  BY <1>3 DEF HandlerReturns
<1>4. QED
  BY <1>1, <1>2, <1>3

LEMMA StorageStep == TypeOK /\ StorageInv /\ [Next]_vars => StorageInv'
<1> SUFFICES ASSUME TypeOK, StorageInv, [Next]_vars, process' = "running"
             PROVE  StorageInv'
  BY DEF StorageInv
<1>1. CASE Receive \/ SessionEnds \/ LoopStep \/ HandlerReturns \/ CleanupReturns
  <2>1. process = "running"
    BY <1>1 DEF Receive, SessionEnds, LoopStep, HandlerReturns, CleanupReturns,
                LoopTake, LoopReturn, LoopStart, LoopPublish, LoopWaitEnds,
                LoopSelect, LoopSame, ProcessEnds
  <2>2. QED
    BY <1>1, <2>1, OthersStay, LoopStaysReturned DEF StorageInv
<1>2. ASSUME NEW c \in Callers, process = "running",
             Ask(c) \/ ShutdownStep(c) \/ Exit(c)
      PROVE  StorageInv'
  <2> USE DEF ShutdownSame, To, Waited, work
  <2>0. phase \in [Callers -> Phase]
    BY DEF TypeOK
  <2>1. CASE Ask(c) \/ StopAdapter(c)
    BY <1>2, <2>0, <2>1 DEF Ask, StopAdapter, StorageInv
  <2>2. CASE StopServers(c)
    BY <1>2, <2>0, <2>2 DEF StopServers, StorageInv
  <2>3. CASE AwaitSession(c)
    BY <1>2, <2>0, <2>3 DEF AwaitSession, StorageInv
  <2>4. CASE CloseEvents(c)
    BY <1>2, <2>0, <2>4 DEF CloseEvents, StorageInv, ProcessEnds
  <2>5. CASE Cancel(c)
    BY <1>2, <2>0, <2>5 DEF Cancel, StorageInv
  <2>6. CASE AwaitGoroutines(c)
    BY <1>2, <2>0, <2>6 DEF AwaitGoroutines, StorageInv
  <2>7. CASE Close(c)
    BY <1>2, <2>0, <2>7 DEF Close, StorageInv
  <2>8. CASE Exit(c)
    BY <2>8 DEF Exit, ProcessEnds
  <2>9. QED
    BY <1>2, <2>1, <2>2, <2>3, <2>4, <2>5, <2>6, <2>7, <2>8 DEF ShutdownStep
<1>3. CASE UNCHANGED vars
  BY <1>3 DEF vars, StorageInv, closing, work
<1>4. QED
  BY <1>1, <1>2, <1>3 DEF Next, Stopped

(* The storage is closed only when the event loop and the log cleanup have *)
(* returned, unless a shutdown's five seconds for them were over.          *)
THEOREM StorageClosesLast == Spec => []StorageOutlivesLoop
<1>1. TypeOK /\ StorageInv => StorageOutlivesLoop
  BY DEF StorageInv, StorageOutlivesLoop, Waited
<1>2. Init => TypeOK /\ StorageInv
  BY TypeInit, StorageInit
<1>3. TypeOK /\ StorageInv /\ [Next]_vars => (TypeOK /\ StorageInv)'
  BY TypeStep, StorageStep
<1>4. QED
  BY <1>1, <1>2, <1>3, PTL DEF Spec

-----------------------------------------------------------------------------
(* Panics. *)

TwoAsked == \E c, d \in Callers : c # d /\ phase[c] # "idle" /\ phase[d] # "idle"

(***************************************************************************)
(* PanicNeedsCause with what a shutdown that has closed the event channel  *)
(* knows: it is past the wait for the session.                             *)
(***************************************************************************)
PanicInv ==
    /\ process = "panicked" => "session" \in gaveUp \/ TwoAsked
    /\ process = "running" =>
         /\ "events" \notin open => \E c \in Callers : phase[c] \in Closed
         /\ \A c \in Callers : phase[c] \in Closed \cup {"close"} =>
               ~ session \/ "session" \in gaveUp

(* Two requests are more than one: what the count in PanicNeedsCause says. *)
LEMMA TwoAreMany ==
    ASSUME TwoAsked
    PROVE  Cardinality({c \in Callers : phase[c] # "idle"}) > 1
<1> DEFINE Asked == {c \in Callers : phase[c] # "idle"}
<1>1. PICK c \in Callers, d \in Callers :
          c # d /\ phase[c] # "idle" /\ phase[d] # "idle"
  BY DEF TwoAsked
<1>2. IsFiniteSet({"signal", "button", "restart"})
  <2>1. IsFiniteSet({}) /\ IsFiniteSet({} \cup {"signal"})
    BY FS_EmptySet, FS_AddElement
  <2>2. IsFiniteSet({} \cup {"signal"} \cup {"button"})
    BY <2>1, FS_AddElement
  <2>3. IsFiniteSet({} \cup {"signal"} \cup {"button"} \cup {"restart"})
    BY <2>2, FS_AddElement
  <2>4. {} \cup {"signal"} \cup {"button"} \cup {"restart"}
            = {"signal", "button", "restart"}
    OBVIOUS
  <2>5. QED
    BY <2>3, <2>4
<1>3. Asked \subseteq {"signal", "button", "restart"}
  BY LifecycleAssumption
<1>4. IsFiniteSet(Asked)
  BY <1>2, <1>3, FS_Subset
<1>5. IsFiniteSet({c}) /\ Cardinality({c}) = 1
  BY FS_Singleton
<1>6. Cardinality({c} \cup {d}) = 2
  BY <1>1, <1>5, FS_AddElement
<1>7. {c} \cup {d} \subseteq Asked
  BY <1>1
<1>8. Cardinality({c} \cup {d}) <= Cardinality(Asked)
  BY <1>4, <1>7, FS_Subset
<1>9. Cardinality(Asked) \in Nat
  BY <1>4, FS_CardinalityType
<1>10. QED
  BY <1>6, <1>8, <1>9

LEMMA PanicInit == Init => PanicInv
BY DEF Init, PanicInv, Resource, Closed, Waited

LEMMA PanicStep == TypeOK /\ PanicInv /\ [Next]_vars => PanicInv'
<1> SUFFICES ASSUME TypeOK, PanicInv, [Next]_vars
             PROVE  PanicInv'
  OBVIOUS
<1> USE DEF Closed, Waited, work, closing, channel
<1>0. phase \in [Callers -> Phase]
  BY DEF TypeOK
<1>1. CASE Receive /\ process = "running"
  <2>1. CASE process' = "running"
    <3>1. UNCHANGED <<session, open, phase, gaveUp>>
      BY <1>1, <2>1 DEF Receive, ProcessEnds
    <3>2. QED
      BY <1>1, <2>1, <3>1 DEF PanicInv
  <2>2. CASE process' # "running"
    <3>1. session /\ "events" \notin open /\ UNCHANGED <<phase, gaveUp>>
      BY <1>1, <2>2 DEF Receive, ProcessEnds
    <3>2. "session" \in gaveUp
      BY <1>1, <3>1 DEF PanicInv
    <3>3. QED
      BY <2>2, <3>1, <3>2 DEF PanicInv
  <2>3. QED
    BY <2>1, <2>2
<1>2. CASE process = "running" /\ (SessionEnds \/ LoopStep \/ HandlerReturns \/ CleanupReturns)
  <2>1. process' = "running" /\ (session' => session)
    BY <1>2 DEF SessionEnds, LoopStep, HandlerReturns, CleanupReturns, LoopSame,
                LoopTake, LoopReturn, LoopStart, LoopPublish, LoopWaitEnds,
                LoopSelect
  <2>2. QED
    BY <1>2, <2>1, OthersStay DEF PanicInv
<1>3. ASSUME NEW c \in Callers, process = "running",
             Ask(c) \/ ShutdownStep(c) \/ Exit(c)
      PROVE  PanicInv'
  <2> USE DEF ShutdownSame, To
  <2>1. CASE Ask(c)
    BY <1>0, <1>3, <2>1 DEF Ask, PanicInv
  <2>2. CASE StopServers(c) \/ StopAdapter(c)
    BY <1>0, <1>3, <2>2 DEF StopServers, StopAdapter, PanicInv
  <2>3. CASE AwaitSession(c)
    BY <1>0, <1>3, <2>3 DEF AwaitSession, PanicInv
  <2>4. CASE CloseEvents(c)
    <3>1. CASE "events" \in open
      BY <1>0, <1>3, <2>4, <3>1 DEF CloseEvents, PanicInv
    <3>2. CASE "events" \notin open
      <4>1. phase[c] = "close" /\ UNCHANGED <<phase, gaveUp>>
            /\ process' = "panicked"
        BY <2>4, <3>2 DEF CloseEvents, ProcessEnds
      <4>2. PICK d \in Callers : phase[d] \in Closed
        BY <1>3, <3>2 DEF PanicInv
      <4>3. TwoAsked'
        BY <4>1, <4>2 DEF TwoAsked
      <4>4. QED
        BY <4>1, <4>3 DEF PanicInv
    <3>3. QED
      BY <3>1, <3>2
  <2>5. CASE Cancel(c)
    BY <1>0, <1>3, <2>5 DEF Cancel, PanicInv
  <2>6. CASE AwaitGoroutines(c)
    BY <1>0, <1>3, <2>6 DEF AwaitGoroutines, PanicInv
  <2>7. CASE Close(c)
    BY <1>0, <1>3, <2>7 DEF Close, PanicInv
  <2>8. CASE Exit(c)
    BY <2>8 DEF Exit, ProcessEnds, PanicInv
  <2>9. QED
    BY <1>3, <2>1, <2>2, <2>3, <2>4, <2>5, <2>6, <2>7, <2>8 DEF ShutdownStep
<1>4. CASE UNCHANGED vars
  BY <1>4 DEF vars, PanicInv, TwoAsked
<1>5. QED
  BY <1>1, <1>2, <1>3, <1>4 DEF Next, Stopped

(* A single shutdown whose session ends in time does not panic. *)
THEOREM PanicsAreExplained == Spec => []PanicNeedsCause
<1>1. PanicInv => PanicNeedsCause
  BY TwoAreMany DEF PanicInv, PanicNeedsCause
<1>2. Init => TypeOK /\ PanicInv
  BY TypeInit, PanicInit
<1>3. TypeOK /\ PanicInv /\ [Next]_vars => (TypeOK /\ PanicInv)'
  BY TypeStep, PanicStep
<1>4. QED
  BY <1>1, <1>2, <1>3, PTL DEF Spec

-----------------------------------------------------------------------------
(* The event loop of MessageLoop. *)

(***************************************************************************)
(* A handler is started for an event that was taken and only once, and the *)
(* loop waits for a handler only while it runs.                            *)
(***************************************************************************)
LoopInv ==
    /\ started \subseteq ToSet(taken)
    /\ current # 0 => current \in ToSet(taken)
    /\ loop = "record" => current \notin started
    /\ loop = "wait" => current \in running

LEMMA LoopInit == Init => LoopInv
BY DEF Init, LoopInv

(* What the steps of the process do to the loop and to its handlers. *)
LEMMA WorkSteps ==
    ASSUME [Next]_vars
    PROVE  \/ LoopTake \/ LoopReturn \/ LoopStart \/ LoopPublish \/ LoopWaitEnds
           \/ HandlerReturns
           \/ \E how : ProcessEnds(how)
           \/ UNCHANGED work
<1>1. CASE Receive \/ SessionEnds \/ CleanupReturns
  BY <1>1 DEF Receive, SessionEnds, CleanupReturns
<1>2. ASSUME NEW c \in Callers, Ask(c) \/ ShutdownStep(c) \/ Exit(c)
      PROVE  (\E how : ProcessEnds(how)) \/ UNCHANGED work
  BY <1>2 DEF Ask, ShutdownStep, Exit, StopServers, StopAdapter, AwaitSession,
              CloseEvents, Cancel, AwaitGoroutines, Close, ShutdownSame
<1>3. CASE UNCHANGED vars
  BY <1>3 DEF vars
<1>4. QED
  BY <1>1, <1>2, <1>3 DEF Next, LoopStep, Stopped

LEMMA LoopInvStep ==
    TypeOK /\ AcceptedInOrder /\ LoopInv /\ [Next]_vars => LoopInv'
<1> SUFFICES ASSUME TypeOK, AcceptedInOrder, LoopInv, [Next]_vars
             PROVE  LoopInv'
  OBVIOUS
<1> USE DEF work
<1>1. CASE LoopTake
  <2>1. /\ taken \in Seq(Events) /\ buffer \in Seq(Events) /\ buffer # <<>>
        /\ Head(buffer) \in Events
    BY <1>1 DEF LoopTake, TypeOK
  <2>2. Increasing(taken \o buffer)
    BY DEF AcceptedInOrder, Increasing
  <2>3. Head(buffer) \notin ToSet(taken)
    BY <2>1, <2>2, HeadIsNew
  <2>4. ToSet(taken') = ToSet(taken) \cup {Head(buffer)}
    BY <1>1, <2>1, ToSetAppend DEF LoopTake
  <2>5. QED
    BY <1>1, <2>3, <2>4 DEF LoopTake, LoopInv, TypeOK
<1>2. CASE LoopStart
  BY <1>2 DEF LoopStart, LoopInv, TypeOK
<1>3. CASE LoopReturn \/ LoopPublish \/ LoopWaitEnds
  BY <1>3 DEF LoopReturn, LoopPublish, LoopWaitEnds, LoopSelect, LoopInv, TypeOK
<1>4. CASE HandlerReturns
  BY <1>4 DEF HandlerReturns, LoopInv, TypeOK
<1>5. CASE UNCHANGED work
  BY <1>5 DEF LoopInv
<1>6. CASE \E how : ProcessEnds(how)
  BY <1>6 DEF ProcessEnds, LoopInv
<1>7. QED
  BY <1>1, <1>2, <1>3, <1>4, <1>5, <1>6, WorkSteps

(* Every step is one of MessageLoop's loop or one that it does not see. *)
LEMMA LoopMaps ==
    ASSUME TypeOK, LoopInv, [Next]_vars
    PROVE  \/ \E e \in Events : Loop!Take(e, e) \/ Loop!Finish(e)
           \/ Loop!WaitEnds
           \/ Loop!ProcessDies
           \/ UNCHANGED <<running, started, loop = "wait">>
<1>0. /\ 0 \notin Events
      /\ running \subseteq started /\ started \subseteq Events
      /\ current \in Events \cup {0}
      /\ loop \in {"select", "returned"} <=> current = 0
  BY DEF TypeOK, Events
<1>1. CASE LoopStart
  <2>1. current \in Events \ started
    BY <1>0, <1>1 DEF LoopStart, LoopInv
  <2>2. /\ Cardinality(started') = Cardinality(started) + 1
        /\ Cardinality(started) < MaxEvents
    <3>1. IsFiniteSet(Events) /\ Cardinality(Events) = MaxEvents
      BY FS_Interval, LifecycleAssumption DEF Events
    <3>2. IsFiniteSet(started)
      BY <1>0, <3>1, FS_Subset
    <3>3. started' = started \cup {current} /\ started' \subseteq Events
      BY <1>0, <1>1, <2>1 DEF LoopStart
    <3>4. Cardinality(started') = Cardinality(started) + 1
      BY <2>1, <3>2, <3>3, FS_AddElement
    <3>5. Cardinality(started') <= MaxEvents /\ Cardinality(started) \in Nat
      BY <3>1, <3>2, <3>3, FS_Subset, FS_CardinalityType
    <3>6. QED
      BY <3>4, <3>5, LifecycleAssumption
  <2>3. PICK e \in Events : e = current
    BY <2>1
  <2>4. Loop!Take(e, e)
    <3>1. loop = "record" /\ loop' = "wait" /\ running' = running \cup {current}
          /\ current' = current
      BY <1>1 DEF LoopStart
    <3>2. current \notin running /\ current # 0
      BY <1>0, <2>1
    <3>3. [d \in Events |-> IF d \in running' THEN d ELSE 0]
             = [[d \in Events |-> IF d \in running THEN d ELSE 0]
                  EXCEPT ![e] = e]
      BY <2>3, <3>1
    <3>4. QED
      BY <2>2, <2>3, <3>1, <3>2, <3>3 DEF Loop!Take, Loop!Running
  <2>5. QED
    BY <2>4
<1>2. CASE HandlerReturns
  <2>1. PICK e \in running :
          /\ running' = running \ {e}
          /\ IF loop = "wait" /\ current = e
             THEN loop' = "select" /\ current' = 0
             ELSE UNCHANGED <<loop, current>>
    BY <1>2 DEF HandlerReturns
  <2>2. e \in Events
    BY <1>0, <2>1
  <2>3. [d \in Events |-> IF d \in running' THEN d ELSE 0]
             = [[d \in Events |-> IF d \in running THEN d ELSE 0]
                  EXCEPT ![e] = 0]
    BY <2>1, <2>2
  <2>4. (IF loop' = "wait" THEN current' ELSE 0)
           = IF (IF loop = "wait" THEN current ELSE 0) = e THEN 0
             ELSE IF loop = "wait" THEN current ELSE 0
    BY <1>0, <2>1, <2>2
  <2>5. Loop!Finish(e)
    BY <2>3, <2>4 DEF Loop!Finish
  <2>6. QED
    BY <2>2, <2>5
<1>3. CASE LoopWaitEnds
  <2>1. loop = "wait" /\ current # 0 /\ loop' = "select"
        /\ UNCHANGED <<running, started>>
    BY <1>0, <1>3 DEF LoopWaitEnds, LoopSelect
  <2>2. Loop!WaitEnds
    BY <2>1 DEF Loop!WaitEnds
  <2>3. QED
    BY <2>2
<1>4. CASE \E how : ProcessEnds(how)
  <2>1. loop' = "returned" /\ running' = {} /\ UNCHANGED started
    BY <1>4 DEF ProcessEnds
  <2>2. CASE running = {}
    BY <2>1, <2>2 DEF LoopInv
  <2>3. CASE running # {}
    <3>1. ~ Loop!Idle
      BY <1>0, <2>3 DEF Loop!Idle, Loop!Running
    <3>2. Loop!ProcessDies
      BY <2>1, <3>1 DEF Loop!ProcessDies
    <3>3. QED
      BY <3>2
  <2>4. QED
    BY <2>2, <2>3
<1>5. CASE LoopTake \/ LoopReturn \/ LoopPublish
  BY <1>5 DEF LoopTake, LoopReturn, LoopPublish, LoopSelect
<1>6. CASE UNCHANGED work
  BY <1>6 DEF work
<1>7. QED
  BY <1>1, <1>2, <1>3, <1>4, <1>5, <1>6, WorkSteps

(* The loop that the plugins' modules build on is the one that runs here.  *)
THEOREM EventLoopImplemented == Spec => LoopRuns
<1>1. Init => TypeOK /\ AcceptedInOrder /\ LoopInv
  BY TypeInit, OrderInit, LoopInit
<1>2. TypeOK /\ AcceptedInOrder /\ LoopInv /\ [Next]_vars
         => (TypeOK /\ AcceptedInOrder /\ LoopInv)'
  BY TypeStep, OrderStep, LoopInvStep
<1>3. TypeOK /\ LoopInv /\ [Next]_vars
         => [\/ \E e \in Events : Loop!Take(e, e) \/ Loop!Finish(e)
             \/ Loop!WaitEnds
             \/ Loop!ProcessDies]_<<running, started, loop = "wait">>
  BY LoopMaps
<1>4. QED
  BY <1>1, <1>2, <1>3, PTL DEF Spec, LoopRuns

=============================================================================
