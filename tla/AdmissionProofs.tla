---------------------------- MODULE AdmissionProofs ---------------------------
(***************************************************************************)
(* Proofs about what a message goes through before its command, for any    *)
(* sources, messages, buckets and editors and any interleaving of them.    *)
(*                                                                         *)
(* The limiter: RateBounded is not inductive, as it says nothing of the    *)
(* tokens that are left.  RateInv adds them: what was granted and what     *)
(* could be granted now come to no more than a full bucket and what has    *)
(* come since.                                                             *)
(*                                                                         *)
(* The blacklist: BarredStayOut only speaks of the end of the chain.       *)
(* BarredInv says that a check can find every barred source, DueInv that   *)
(* such a source is still among those to be asked about, RacedInv which    *)
(* sources may yet be put in the cache without a row.                      *)
(***************************************************************************)
EXTENDS Admission, FiniteSetTheorems, SequenceTheorems, TLAPS

RateInv ==
    \A k \in Keys : passed[k] * Unit + Available(k) <= Full + (now - since)

LimiterInv == LimiterTypeOK /\ RateInv

\* What a step of Admission does to the limiter.
LimiterNext ==
    \/ \E k : Grant(k) \/ Deny(k)
    \/ Tick \/ Cleanup \/ Observe \/ LimiterRestarts
    \/ UNCHANGED limiterVars

-----------------------------------------------------------------------------

(* The size of a full bucket is a positive number. *)
LEMMA FullType == Full \in Nat /\ Full >= Unit
BY LimiterAssumption DEF Full

(* A bucket never has more than it can hold. *)
LEMMA AvailableType ==
    ASSUME LimiterTypeOK, NEW k \in Keys
    PROVE  Available(k) \in 0 .. Full
<1>1. Full \in Nat
  BY FullType
<1>2. CASE buckets[k] = NoBucket
  BY <1>1, <1>2 DEF Available
<1>3. CASE buckets[k] # NoBucket
  <2>1. /\ buckets[k].tokens \in 0 .. Full
        /\ buckets[k].last \in 0 .. MaxTime
        /\ buckets[k].last <= now
        /\ now \in 0 .. MaxTime
    BY <1>3 DEF LimiterTypeOK, Bucket
  <2>2. QED
    BY <1>1, <1>3, <2>1, LimiterAssumption DEF Available, Refilled
<1>4. QED
  BY <1>2, <1>3

(* Looking at a bucket leaves it with what the look says, and no other. *)
LEMMA LeaveEffect ==
    ASSUME LimiterTypeOK, NEW j, NEW n \in 0 .. Full, Leave(j, n), now' = now
    PROVE  /\ buckets' \in [Keys -> Bucket \cup {NoBucket}]
           /\ \A k \in Keys : buckets'[k] # NoBucket => buckets'[k].last <= now
           /\ \A k \in Keys : k # j => Available(k)' = Available(k)
           /\ j \in Keys => Available(j)' = n
<1> DEFINE b == [tokens |-> n, last |-> now]
<1>1. b \in Bucket /\ now \in Nat /\ Full \in Nat
  BY FullType, LimiterAssumption DEF LimiterTypeOK, Bucket
<1>2. b # NoBucket
  BY <1>1, LimiterAssumption
<1>3. buckets' = [buckets EXCEPT ![j] = b]
  BY DEF Leave
<1>4. /\ buckets' \in [Keys -> Bucket \cup {NoBucket}]
      /\ \A k \in Keys : k # j => buckets'[k] = buckets[k]
      /\ j \in Keys => buckets'[j] = b
  BY <1>1, <1>3 DEF LimiterTypeOK
<1>5. \A k \in Keys : buckets'[k] # NoBucket => buckets'[k].last <= now
  <2> TAKE k \in Keys
  <2> HAVE buckets'[k] # NoBucket
  <2>1. CASE k = j
    BY <2>1, <1>1, <1>4
  <2>2. CASE k # j
    BY <2>2, <1>4 DEF LimiterTypeOK
  <2>3. QED
    BY <2>1, <2>2
<1>6. \A k \in Keys : k # j => Available(k)' = Available(k)
  BY <1>4 DEF Available, Refilled
<1>7. ASSUME j \in Keys PROVE Available(j)' = n
  BY <1>1, <1>2, <1>4, <1>7 DEF Available, Refilled
<1>8. QED
  BY <1>4, <1>5, <1>6, <1>7

-----------------------------------------------------------------------------
(* One lemma per way the limiter can move. *)

(* A granted look takes one token and counts once. *)
LEMMA GrantKeeps ==
    ASSUME LimiterInv, NEW j, Grant(j)
    PROVE  LimiterInv'
<1> USE DEF LimiterInv
<1>1. CASE j \in Keys
  <2> DEFINE n == Available(j) - Unit
  <2>1. /\ Available(j) \in 0 .. Full /\ Available(j) >= Unit
        /\ Unit \in Nat \ {0} /\ Full \in Nat
        /\ now \in Nat /\ since \in Nat
    BY <1>1, AvailableType, FullType, LimiterAssumption DEF Grant, LimiterTypeOK
  <2>2. n \in 0 .. Full
    BY <2>1
  <2>3. /\ passed' = [passed EXCEPT ![j] = @ + 1]
        /\ now' = now /\ since' = since /\ Leave(j, n)
    BY DEF Grant
  <2>4. /\ buckets' \in [Keys -> Bucket \cup {NoBucket}]
        /\ \A k \in Keys : buckets'[k] # NoBucket => buckets'[k].last <= now
        /\ \A k \in Keys : k # j => Available(k)' = Available(k)
        /\ Available(j)' = n
    BY <1>1, <2>2, <2>3, LeaveEffect
  <2>5. LimiterTypeOK'
    <3>1. passed' \in [Keys -> Nat]
      <4>1. passed \in [Keys -> Nat] /\ passed[j] + 1 \in Nat
        BY <1>1 DEF LimiterTypeOK
      <4>2. QED
        BY <2>3, <4>1
    <3>2. \A k \in Keys : buckets'[k] # NoBucket => buckets'[k].last <= now'
      BY <2>3, <2>4
    <3>3. QED
      BY <2>3, <2>4, <3>1, <3>2 DEF LimiterTypeOK
  <2>6. ASSUME NEW k \in Keys
        PROVE  passed'[k] * Unit + Available(k)' <= Full + (now - since)
    <3>1. passed[k] * Unit + Available(k) <= Full + (now - since)
      BY DEF RateInv
    <3>2. CASE k # j
      BY <2>3, <2>4, <3>1, <3>2 DEF LimiterTypeOK
    <3>3. CASE k = j
      <4>1. passed[j] \in Nat /\ passed'[j] = passed[j] + 1
        BY <1>1, <2>3 DEF LimiterTypeOK
      <4>2. (passed[j] + 1) * Unit = passed[j] * Unit + Unit
        BY <2>1, <4>1
      <4>3. passed[j] * Unit \in Nat
        BY <2>1, <4>1
      <4>4. QED
        BY <2>1, <2>4, <3>1, <3>3, <4>1, <4>2, <4>3
    <3>4. QED
      BY <3>2, <3>3
  <2>7. QED
    BY <2>3, <2>5, <2>6 DEF RateInv
<1>2. CASE j \notin Keys
  <2>1. /\ buckets' = buckets /\ passed' = passed
        /\ now' = now /\ since' = since
    BY <1>2 DEF Grant, Leave, LimiterTypeOK
  <2>2. QED
    BY <2>1 DEF LimiterTypeOK, RateInv, Available, Refilled
<1>3. QED
  BY <1>1, <1>2

(* A look that is denied only brings the bucket up to date. *)
LEMMA DenyKeeps ==
    ASSUME LimiterInv, NEW j, Deny(j)
    PROVE  LimiterInv'
<1> USE DEF LimiterInv
<1>1. /\ passed' = passed /\ now' = now /\ since' = since
      /\ Leave(j, Available(j))
  BY DEF Deny
<1>2. CASE j \in Keys
  <2>1. /\ buckets' \in [Keys -> Bucket \cup {NoBucket}]
        /\ \A k \in Keys : buckets'[k] # NoBucket => buckets'[k].last <= now
        /\ \A k \in Keys : Available(k)' = Available(k)
    BY <1>1, <1>2, AvailableType, LeaveEffect
  <2>2. QED
    BY <1>1, <2>1 DEF LimiterTypeOK, RateInv
<1>3. CASE j \notin Keys
  <2>1. buckets' = buckets
    BY <1>1, <1>3 DEF Leave, LimiterTypeOK
  <2>2. QED
    BY <1>1, <2>1 DEF LimiterTypeOK, RateInv, Available, Refilled
<1>4. QED
  BY <1>2, <1>3

(* In a tick a bucket gains a part, or nothing if it is full. *)
LEMMA TickKeeps ==
    ASSUME LimiterInv, Tick
    PROVE  LimiterInv'
<1> USE DEF LimiterInv
<1>1. /\ now \in 0 .. MaxTime /\ now < MaxTime /\ now' = now + 1
      /\ since \in Nat /\ since <= now
      /\ buckets' = buckets /\ passed' = passed /\ since' = since
      /\ MaxTime \in Nat /\ Full \in Nat
  BY FullType, LimiterAssumption DEF LimiterTypeOK, Tick
<1>2. ASSUME NEW k \in Keys PROVE Available(k)' <= Available(k) + 1
  <2>1. CASE buckets[k] = NoBucket
    BY <1>1, <2>1 DEF Available
  <2>2. CASE buckets[k] # NoBucket
    <3>1. /\ buckets[k].tokens \in Nat /\ buckets[k].tokens <= Full
          /\ buckets[k].last \in Nat /\ buckets[k].last <= now
      BY <1>1, <2>2 DEF LimiterTypeOK, Bucket
    <3>2. QED
      BY <1>1, <2>2, <3>1 DEF Available, Refilled
  <2>3. QED
    BY <2>1, <2>2
<1>3. LimiterTypeOK'
  <2>1. \A k \in Keys : buckets[k] # NoBucket => buckets[k].last <= now + 1
    BY <1>1 DEF LimiterTypeOK, Bucket
  <2>2. QED
    BY <1>1, <2>1 DEF LimiterTypeOK
<1>4. ASSUME NEW k \in Keys
      PROVE  passed[k] * Unit + Available(k)' <= Full + ((now + 1) - since)
  <2>1. /\ passed[k] * Unit \in Nat
        /\ Available(k) \in Nat
        /\ passed[k] * Unit + Available(k) <= Full + (now - since)
    BY <1>1, AvailableType, LimiterAssumption DEF LimiterTypeOK, RateInv
  <2>2. Available(k)' \in Int
    <3>1. buckets[k] # NoBucket =>
            buckets[k].tokens \in Int /\ buckets[k].last \in Int
      BY DEF LimiterTypeOK, Bucket
    <3>2. QED
      BY <1>1, <3>1 DEF Available, Refilled, Full
  <2>3. QED
    BY <1>1, <1>2, <2>1, <2>2
<1>5. QED
  BY <1>1, <1>3, <1>4 DEF RateInv

(* Only full buckets are removed, so that nobody is given any tokens. *)
LEMMA CleanupKeeps ==
    ASSUME LimiterInv, Cleanup
    PROVE  LimiterInv'
<1> USE DEF LimiterInv
<1>1. /\ buckets' = [k \in Keys |-> IF IsIdle(k) THEN NoBucket ELSE buckets[k]]
      /\ now' = now /\ since' = since /\ passed' = passed
  BY DEF Cleanup
<1>2. LimiterTypeOK'
  BY <1>1 DEF LimiterTypeOK
<1>3. ASSUME NEW k \in Keys PROVE Available(k)' = Available(k)
  <2>1. CASE ~ IsIdle(k)
    BY <1>1, <2>1 DEF Available, Refilled
  <2>2. CASE IsIdle(k)
    <3>1. /\ buckets[k].tokens \in Nat /\ buckets[k].last \in Nat
          /\ now \in Nat /\ now - buckets[k].last > IdleLimit
          /\ buckets[k] # NoBucket
      BY <2>2, LimiterAssumption DEF IsIdle, LimiterTypeOK, Bucket
    <3>2. Available(k) = Full
      BY <3>1, FullType, LimiterAssumption DEF Available, Refilled
    <3>3. Available(k)' = Full
      BY <1>1, <2>2 DEF Available, Full
    <3>4. QED
      BY <3>2, <3>3
  <2>3. QED
    BY <2>1, <2>2
<1>4. QED
  BY <1>1, <1>2, <1>3 DEF RateInv

(* An observer that begins anew has counted nothing. *)
LEMMA ObserverKeeps ==
    ASSUME LimiterInv, Observe \/ LimiterRestarts
    PROVE  LimiterInv'
<1> USE DEF LimiterInv
<1>1. /\ passed' = [k \in Keys |-> 0] /\ since' = now /\ now' = now
      /\ \/ buckets' = buckets
         \/ buckets' = [k \in Keys |-> NoBucket]
  BY DEF Observe, LimiterRestarts
<1>2. now \in Nat /\ Unit \in Nat /\ Full \in Nat
  BY LimiterAssumption, FullType DEF LimiterTypeOK
<1>3. LimiterTypeOK'
  BY <1>1, <1>2 DEF LimiterTypeOK
<1>4. ASSUME NEW k \in Keys
      PROVE  passed'[k] * Unit + Available(k)' <= Full + (now' - since')
  <2>1. passed'[k] * Unit = 0 /\ now' - since' = 0
    BY <1>1, <1>2
  <2>2. Available(k)' \in 0 .. Full
    <3>1. CASE buckets' = buckets
      BY <1>1, <3>1, AvailableType DEF Available, Refilled
    <3>2. CASE buckets' = [j \in Keys |-> NoBucket]
      BY <1>2, <3>2 DEF Available, Full
    <3>3. QED
      BY <1>1, <3>1, <3>2
  <2>3. QED
    BY <1>2, <2>1, <2>2
<1>5. QED
  BY <1>3, <1>4 DEF RateInv

(* Every step of Admission is one of these for the limiter. *)
LEMMA AdmissionMovesLimiter ==
    ASSUME [Next]_vars
    PROVE  LimiterNext
<1>1. ASSUME NEW s \in Slots, MessageStep(s) PROVE LimiterNext
  <2>1. CASE Limit(s)
    BY <2>1 DEF Limit, LimiterNext
  <2>2. CASE ~ Limit(s)
    BY <1>1, <2>2 DEF MessageStep, Arrive, LookUp, ReadRow, FillCache,
                      Dispatched, LimiterSame, LimiterNext
  <2>3. QED
    BY <2>1, <2>2
<1>2. CASE LimiterStep
  BY <1>2 DEF LimiterStep, LimiterNext
<1>3. CASE Manage \/ Timeout \/ Done \/ UNCHANGED vars
  BY <1>3 DEF Manage, Timeout, Done, vars, LimiterSame, LimiterNext
<1>4. CASE Crash
  BY <1>4 DEF Crash, LimiterNext
<1>5. QED
  BY <1>1, <1>2, <1>3, <1>4 DEF Next

(* The limiter keeps its invariant whatever goes on beside it. *)
LEMMA LimiterKeeps == LimiterInv /\ [Next]_vars => LimiterInv'
<1> SUFFICES ASSUME LimiterInv, LimiterNext PROVE LimiterInv'
  BY AdmissionMovesLimiter
<1>1. CASE UNCHANGED limiterVars
  BY <1>1 DEF limiterVars, LimiterInv, LimiterTypeOK, RateInv, Available, Refilled
<1>2. QED
  BY <1>1, GrantKeeps, DenyKeeps, TickKeeps, CleanupKeeps, ObserverKeeps
     DEF LimiterNext

-----------------------------------------------------------------------------
(* The chain. *)

(* A middleware whose order is lowest comes first. *)
LEMMA AddedFirst ==
    ASSUME NEW chain \in Seq({"blacklist", "limiter"}), NEW middleware,
           \A i \in DOMAIN chain : ~ (Order(chain[i]) < Order(middleware))
    PROVE  Added(chain, middleware) = <<middleware>> \o chain
<1> DEFINE Lower == {i \in DOMAIN chain : Order(chain[i]) < Order(middleware)}
<1>1. Cardinality(Lower) = 0
  <2>1. Lower = {}
    OBVIOUS
  <2>2. QED
    BY <2>1, FS_EmptySet
<1>2. Len(chain) \in Nat /\ 0 + 1 = 1
  OBVIOUS
<1>3. SubSeq(chain, 1, 0) = <<>> /\ SubSeq(chain, 1, Len(chain)) = chain
  BY SubSeqEmpty, SubSeqFull
<1>4. Added(chain, middleware) =
          SubSeq(chain, 1, 0) \o <<middleware>> \o SubSeq(chain, 0 + 1, Len(chain))
  BY <1>1 DEF Added
<1>5. <<>> \o <<middleware>> = <<middleware>>
  OBVIOUS
<1>6. QED
  BY <1>2, <1>3, <1>4, <1>5

(* The blacklist comes before the limiter, though it is added after it. *)
LEMMA ChainOrder ==
    /\ Len(Chain) = 2
    /\ Chain[1] = "blacklist" /\ Chain[2] = "limiter"
<1> DEFINE c == <<"limiter">>
<1>1. Added(<<>>, "limiter") = c
  <2>1. <<>> \in Seq({"blacklist", "limiter"}) /\ DOMAIN <<>> = {}
        /\ <<"limiter">> \o <<>> = <<"limiter">>
    OBVIOUS
  <2>2. QED
    BY <2>1, AddedFirst
<1>2. Added(c, "blacklist") = <<"blacklist">> \o c
  <2>1. c \in Seq({"blacklist", "limiter"})
    OBVIOUS
  <2>2. \A i \in DOMAIN c : ~ (Order(c[i]) < Order("blacklist"))
    BY DEF Order
  <2>3. QED
    BY <2>1, <2>2, AddedFirst
<1>3. Chain = <<"blacklist">> \o <<"limiter">>
  BY <1>1, <1>2 DEF Chain
<1>4. QED
  BY <1>3

-----------------------------------------------------------------------------
(* Types. *)

Left == {SourcesOf(m) : m \in Messages} \cup {Tail(SourcesOf(m)) : m \in Messages}
            \cup {<<>>}

(* What a message is checked for: at most a group and a user. *)
LEMMA LeftTail ==
    ASSUME NEW left \in Left, left # <<>>
    PROVE  /\ Tail(left) \in Left
           /\ left \in Seq(Sources \cup {None})
           /\ ToSet(left) = {left[1]} \cup ToSet(Tail(left))
<1>1. \A m \in Messages : m.author \in Sources /\ m.place \in Sources \cup {None}
  BY AdmissionAssumption
<1>2. \A x, y : /\ Tail(<<x>>) = <<>> /\ Tail(<<x, y>>) = <<y>>
                /\ ToSet(<<x>>) = {x} /\ ToSet(<<x, y>>) = {x, y}
  BY DEF ToSet
<1>3. ToSet(<<>>) = {}
  BY DEF ToSet
<1>4. PICK m \in Messages : left = SourcesOf(m) \/ left = Tail(SourcesOf(m))
  BY DEF Left
<1>5. CASE left = SourcesOf(m)
  <2>1. Tail(left) \in Left
    BY <1>5 DEF Left
  <2>2. CASE m.scene = "group"
    BY <1>1, <1>2, <1>5, <2>1, <2>2 DEF SourcesOf
  <2>3. CASE m.scene # "group"
    BY <1>1, <1>2, <1>3, <1>5, <2>1, <2>3 DEF SourcesOf
  <2>4. QED
    BY <2>2, <2>3
<1>6. CASE left = Tail(SourcesOf(m))
  <2>1. left = <<m.author>>
    BY <1>2, <1>6 DEF SourcesOf
  <2>2. QED
    BY <1>1, <1>2, <1>3, <2>1 DEF Left
<1>7. QED
  BY <1>4, <1>5, <1>6

(* A handler's record, and its record after PassOn. *)
LEMMA HandlerFields ==
    ASSUME TypeOK, NEW s \in Slots, Running(s)
    PROVE  /\ handlers[s] \in Handler
           /\ handlers[s].pc \in {"chain", "row", "cache"}
           /\ handlers[s].at \in 1 .. 3
           /\ handlers[s].left \in Left
           /\ handlers[s].message \in Messages
<1>1. handlers[s] \in Handler
  BY DEF TypeOK, Running
<1>2. QED
  BY <1>1, ChainOrder DEF Handler, Left

(***************************************************************************)
(* A handler that has read a row holds a source.                           *)
(***************************************************************************)
HoldsSource ==
    \A s \in Slots : Running(s) /\ handlers[s].pc = "cache" =>
        handlers[s].left[1] \in Sources

(***************************************************************************)
(* The handlers and the loop, apart from the tables.                       *)
(***************************************************************************)
HandlersOK ==
    /\ handlers \in [Slots -> Handler \cup {None}]
    /\ loop \in Slots \cup {None}
    /\ loop # None => Running(loop)

(* A handler that returns leaves the loop free, or another waited for. *)
LEMMA FinishType ==
    ASSUME TypeOK, NEW s \in Slots, Finish(s)
    PROVE  HandlersOK' /\ (HoldsSource => HoldsSource')
BY LoopAssumption DEF TypeOK, HandlersOK, HoldsSource, Finish, Running

(* One field or two of a handler change. *)
LEMMA MoveType ==
    ASSUME TypeOK, NEW s \in Slots, Running(s), NEW h \in Handler,
           handlers' = [handlers EXCEPT ![s] = h], loop' = loop
    PROVE  /\ HandlersOK'
           /\ \A t \in Slots : Running(t)' <=> Running(t)
           /\ handlers'[s] = h
           /\ \A t \in Slots : t # s => handlers'[t] = handlers[t]
BY AdmissionNoneAssumption DEF TypeOK, HandlersOK, Running

(* The steps of a message that goes on. *)
LEMMA Moves ==
    ASSUME TypeOK, NEW s \in Slots, Running(s)
    PROVE  /\ PassOn(s) /\ handlers[s].at <= Len(Chain) =>
                handlers' = [handlers EXCEPT ![s] =
                    [handlers[s] EXCEPT !.at = @ + 1, !.pc = "chain"]]
           /\ handlers[s].at <= Len(Chain) =>
                [handlers[s] EXCEPT !.at = @ + 1, !.pc = "chain"] \in Handler
           /\ \A pc : Goto(s, pc) =>
                handlers' = [handlers EXCEPT ![s] = [handlers[s] EXCEPT !.pc = pc]]
           /\ \A pc \in {"chain", "row", "cache"} :
                [handlers[s] EXCEPT !.pc = pc] \in Handler
           /\ handlers[s].left # <<>> =>
                [handlers[s] EXCEPT !.pc = "chain", !.left = Tail(@)] \in Handler
<1>1. /\ handlers[s] \in Handler /\ handlers[s].left \in Left
      /\ handlers[s].at \in 1 .. 3 /\ Len(Chain) = 2
  BY HandlerFields, ChainOrder
<1>2. handlers[s].at <= Len(Chain) => handlers[s].at + 1 \in 1 .. Len(Chain) + 1
  BY <1>1
<1>3. handlers[s].left # <<>> => Tail(handlers[s].left) \in Left
  BY <1>1, LeftTail
<1>4. handlers[s].at <= Len(Chain) =>
          [handlers[s] EXCEPT !.at = @ + 1, !.pc = "chain"] \in Handler
  BY <1>1, <1>2 DEF Handler
<1>5. handlers[s].left # <<>> =>
          [handlers[s] EXCEPT !.pc = "chain", !.left = Tail(@)] \in Handler
  BY <1>1, <1>3 DEF Handler, Left
<1>6. \A pc \in {"chain", "row", "cache"} :
          [handlers[s] EXCEPT !.pc = pc] \in Handler
  BY <1>1 DEF Handler
<1>7. QED
  BY <1>4, <1>5, <1>6 DEF PassOn, Goto

\* All that TypeOK says but for the limiter, and HoldsSource.
Typed ==
    /\ HandlersOK /\ HoldsSource
    /\ ops \in 0 .. MaxOps
    /\ faults \in SUBSET Fault
    /\ BlacklistTypeOK
    /\ spent \subseteq Slots

(* TypeOK, taken apart. *)
LEMMA TypeParts == TypeOK /\ HoldsSource <=> Typed /\ LimiterTypeOK
BY DEF TypeOK, Typed, HandlersOK

(* An event is taken into an empty slot. *)
LEMMA ArriveTypes ==
    ASSUME TypeOK, HoldsSource, NEW s \in Slots, Arrive(s)
    PROVE  Typed'
<1>1. PICK m \in Messages :
        /\ Take(s, [pc |-> "chain", at |-> 1, message |-> m, left |-> SourcesOf(m)])
        /\ due' = [due EXCEPT ![s] = barred \cap ToSet(SourcesOf(m))]
  BY DEF Arrive
<1> DEFINE h == [pc |-> "chain", at |-> 1, message |-> m, left |-> SourcesOf(m)]
<1>2. h \in Handler
  BY ChainOrder DEF Handler
<1>3. /\ handlers' = [handlers EXCEPT ![s] = h] /\ loop' = s /\ ops' = ops + 1
      /\ ops < MaxOps
  BY <1>1 DEF Take
<1>4. /\ handlers' \in [Slots -> Handler \cup {None}] /\ handlers'[s] = h
      /\ \A t \in Slots : t # s => handlers'[t] = handlers[t]
  BY <1>2, <1>3 DEF TypeOK
<1>5. HandlersOK'
  BY <1>2, <1>3, <1>4, AdmissionNoneAssumption DEF HandlersOK, Running
<1>6. HoldsSource'
  BY <1>2, <1>4 DEF HoldsSource, Running
<1>7. ops' \in 0 .. MaxOps
  BY <1>3, LoopAssumption DEF TypeOK
<1>8. BlacklistTypeOK'
  BY <1>1 DEF Arrive, TypeOK, BlacklistTypeOK
<1>9. QED
  BY <1>5, <1>6, <1>7, <1>8 DEF Arrive, TypeOK, Typed

(* A handler is put one place further, and does not come to hold a row. *)
LEMMA StayTyped ==
    ASSUME TypeOK, HoldsSource, NEW s \in Slots, Running(s), NEW h \in Handler,
           handlers' = [handlers EXCEPT ![s] = h], loop' = loop,
           h.pc = "cache" => h.left[1] \in Sources
    PROVE  HandlersOK' /\ HoldsSource'
<1>1. /\ HandlersOK' /\ handlers'[s] = h
      /\ \A t \in Slots : Running(t)' <=> Running(t)
      /\ \A t \in Slots : t # s => handlers'[t] = handlers[t]
  BY MoveType
<1>2. QED
  BY <1>1 DEF HoldsSource

(* The limiter lets a message go on, or drops it. *)
LEMMA LimitTypes ==
    ASSUME TypeOK, HoldsSource, NEW s \in Slots, Limit(s)
    PROVE  Typed'
<1>1. Running(s) /\ handlers[s].at <= Len(Chain)
  BY DEF Limit, Before
<1>2. spent' \subseteq Slots
  BY DEF Limit, TypeOK
<1>3. HandlersOK' /\ HoldsSource'
  <2>1. CASE Finish(s)
    BY <2>1, FinishType
  <2>2. CASE PassOn(s)
    <3> DEFINE h == [handlers[s] EXCEPT !.at = @ + 1, !.pc = "chain"]
    <3>1. h \in Handler /\ handlers' = [handlers EXCEPT ![s] = h] /\ loop' = loop
      BY <1>1, <2>2, Moves DEF PassOn
    <3>2. h.pc = "chain"
      BY <1>1, HandlerFields DEF Handler
    <3>3. QED
      BY <1>1, <3>1, <3>2, StayTyped
  <2>3. QED
    BY <2>1, <2>2 DEF Limit
<1>4. QED
  BY <1>2, <1>3 DEF Limit, BlacklistSame, blacklistVars, BlacklistTypeOK, TypeOK, Typed

(* The blacklist drops a message, asks for a row, or lets it go on. *)
LEMMA LookUpTypes ==
    ASSUME TypeOK, HoldsSource, NEW s \in Slots, LookUp(s)
    PROVE  Typed'
<1>1. Running(s) /\ handlers[s].at <= Len(Chain)
  BY DEF LookUp, Before
<1>2. HandlersOK' /\ HoldsSource'
  <2>1. CASE Finish(s)
    BY <2>1, FinishType
  <2>2. CASE PassOn(s)
    <3> DEFINE h == [handlers[s] EXCEPT !.at = @ + 1, !.pc = "chain"]
    <3>1. h \in Handler /\ handlers' = [handlers EXCEPT ![s] = h] /\ loop' = loop
      BY <1>1, <2>2, Moves DEF PassOn
    <3>2. h.pc = "chain"
      BY <1>1, HandlerFields DEF Handler
    <3>3. QED
      BY <1>1, <3>1, <3>2, StayTyped
  <2>3. CASE Goto(s, "row")
    <3> DEFINE h == [handlers[s] EXCEPT !.pc = "row"]
    <3>1. h \in Handler /\ handlers' = [handlers EXCEPT ![s] = h] /\ loop' = loop
      BY <1>1, <2>3, Moves DEF Goto
    <3>2. h.pc = "row"
      BY <1>1, HandlerFields DEF Handler
    <3>3. QED
      BY <1>1, <3>1, <3>2, StayTyped
  <2>4. QED
    BY <2>1, <2>2, <2>3 DEF LookUp
<1>3. QED
  BY <1>2 DEF LookUp, BlacklistSame, blacklistVars, BlacklistTypeOK, TypeOK, Typed

(* A row that is found is held; else the next source is asked about. *)
LEMMA ReadRowTypes ==
    ASSUME TypeOK, HoldsSource, NEW s \in Slots, ReadRow(s),
           handlers[s].left # <<>>
    PROVE  Typed'
<1>1. Running(s)
  BY DEF ReadRow
<1>2. HandlersOK' /\ HoldsSource'
  <2>1. CASE handlers[s].left[1] \in stored /\ Goto(s, "cache")
    <3> DEFINE h == [handlers[s] EXCEPT !.pc = "cache"]
    <3>1. h \in Handler /\ handlers' = [handlers EXCEPT ![s] = h] /\ loop' = loop
      BY <1>1, <2>1, Moves DEF Goto
    <3>2. h.left[1] \in Sources
      BY <1>1, <2>1, HandlerFields DEF Handler, TypeOK, BlacklistTypeOK
    <3>3. QED
      BY <1>1, <3>1, <3>2, StayTyped
  <2>2. CASE handlers' = [handlers EXCEPT ![s].pc = "chain", ![s].left = Tail(@)]
             /\ loop' = loop
    <3> DEFINE h == [handlers[s] EXCEPT !.pc = "chain", !.left = Tail(@)]
    <3>1. h \in Handler
      BY <1>1, Moves
    <3>2. h.pc = "chain"
      BY <1>1, HandlerFields DEF Handler
    <3>3. handlers' = [handlers EXCEPT ![s] = h]
      BY <1>1, <2>2, HandlerFields DEF TypeOK, Handler
    <3>4. QED
      BY <1>1, <2>2, <3>1, <3>2, <3>3, StayTyped
  <2>3. QED
    BY <2>1, <2>2 DEF ReadRow
<1>3. QED
  BY <1>2 DEF ReadRow, BlacklistSame, blacklistVars, BlacklistTypeOK, TypeOK, Typed

(* Its last steps leave the slot empty. *)
LEMMA ReturnTypes ==
    ASSUME TypeOK, HoldsSource, NEW s \in Slots, FillCache(s) \/ Dispatched(s)
    PROVE  Typed'
<1>1. HandlersOK' /\ HoldsSource'
  BY FinishType DEF FillCache, Dispatched
<1>2. BlacklistTypeOK'
  BY DEF FillCache, Dispatched, BlacklistSame, blacklistVars, BlacklistTypeOK,
         HoldsSource, TypeOK
<1>3. QED
  BY <1>1, <1>2 DEF FillCache, Dispatched, TypeOK, Typed

(* What an edit in progress is. *)
LEMMA EditFields ==
    ASSUME BlacklistTypeOK, NEW e \in Editors, edits[e] # None
    PROVE  /\ edits[e] \in Edit /\ edits[e].source \in Sources
           /\ [edits[e] EXCEPT !.pc = "cache"] \in Edit
BY DEF BlacklistTypeOK, Edit

(* Edits deal with sources only. *)
LEMMA ManageTypes ==
    ASSUME TypeOK, HoldsSource, NEW e \in Editors, EditStep(e)
    PROVE  BlacklistTypeOK'
<1> USE DEF BlacklistTypeOK, TypeOK
<1>1. CASE BeginEdit(e)
  BY <1>1, BlacklistAssumption DEF BeginEdit, Edit
<1>2. CASE StorageFails(e) \/ AddToCache(e) \/ RemoveFromCache(e)
  <2>1. edits' \in [Editors -> Edit \cup {None}]
    BY <1>2 DEF StorageFails, AddToCache, RemoveFromCache, Return
  <2>2. cached' \subseteq Sources /\ barred' \subseteq Sources
    BY <1>2, EditFields DEF StorageFails, AddToCache, RemoveFromCache, BarredBy, Editing
  <2>3. QED
    BY <1>2, <2>1, <2>2 DEF StorageFails, AddToCache, RemoveFromCache
<1>3. CASE AddRow(e)
  <2>1. edits' = [edits EXCEPT ![e] = [edits[e] EXCEPT !.pc = "cache"]]
    BY <1>3 DEF AddRow
  <2>2. QED
    BY <1>3, <2>1, EditFields DEF AddRow, Editing
<1>4. CASE RemoveRow(e)
  <2>1. edits' = [edits EXCEPT ![e] = [edits[e] EXCEPT !.pc = "cache"]]
    BY <1>4 DEF RemoveRow
  <2>2. raced' \subseteq Sources
    BY <1>4, EditFields DEF RemoveRow, Editing
  <2>3. QED
    BY <1>4, <2>1, <2>2, EditFields DEF RemoveRow, Editing
<1>5. QED
  BY <1>1, <1>2, <1>3, <1>4 DEF EditStep

-----------------------------------------------------------------------------
(* What the blacklist keeps to. *)

\* A source that is barred has its row, nobody is removing it, and a check
\* finds it: in the cache, or in a storage that can be read.
BarredInv ==
    \A x \in barred :
        /\ x \in stored /\ ~ Removing(x)
        /\ x \in cached \/ "readError" \notin faults

\* The barred sources of a message are still to be asked about; the place
\* past the blacklist is for messages that have none.
DueInv ==
    \A s \in Slots :
        /\ due[s] \subseteq barred
        /\ Running(s) =>
            /\ handlers[s].at = 1 => due[s] \subseteq ToSet(handlers[s].left)
            /\ handlers[s].at # 1 => due[s] = {} /\ handlers[s].pc = "chain"
            /\ handlers[s].pc # "chain" => handlers[s].left # <<>>
            /\ handlers[s].pc = "row" /\ "readError" \in faults =>
                handlers[s].left[1] \notin due[s]

\* The limiter is the last of the chain.
SpentInv == \A s \in spent : Running(s) => handlers[s].at = 3

\* Who puts in the cache a source without a row has been seen doing so.
RacedInv ==
    \A x \in Sources \ stored :
        AdditionHolds(x) \/ CheckHolds(x) => x \in raced

AdmissionInv ==
    /\ TypeOK /\ HoldsSource
    /\ BarredInv /\ DueInv /\ SpentInv
    /\ RacedInv /\ CacheFollowsRows

\* The part of it that a step of the blacklist has to keep.
ListInv == BarredInv /\ DueInv /\ SpentInv /\ RacedInv /\ CacheFollowsRows

(* Steps that leave the tables alone and let a handler go on or return. *)
LEMMA HandlersMove ==
    ASSUME AdmissionInv, UNCHANGED <<faults, stored, edits, barred, raced, spent>>,
           cached' = cached,
           NEW s \in Slots, Running(s),
           \A t \in Slots : t # s => /\ handlers'[t] = handlers[t]
                                     /\ due'[t] = due[t],
           due'[s] = due[s],
           Running(s)' =>
            /\ handlers'[s].at = 1 => due[s] \subseteq ToSet(handlers'[s].left)
            /\ handlers'[s].at # 1 => due[s] = {} /\ handlers'[s].pc = "chain"
            /\ handlers'[s].pc # "chain" => handlers'[s].left # <<>>
            /\ handlers'[s].pc = "row" /\ "readError" \in faults =>
                handlers'[s].left[1] \notin due[s]
            /\ s \in spent => handlers'[s].at = 3
            /\ handlers'[s].pc = "cache" => handlers'[s].left[1] \in stored
    PROVE  ListInv'
<1>1. BarredInv' /\ CacheFollowsRows'
  BY DEF AdmissionInv, BarredInv, CacheFollowsRows, Removing, Editing
<1>2. DueInv'
  BY DEF AdmissionInv, DueInv, Running
<1>3. SpentInv'
  BY DEF AdmissionInv, SpentInv, Running, TypeOK
<1>4. RacedInv'
  <2> SUFFICES ASSUME NEW x \in Sources \ stored,
                      AdditionHolds(x)' \/ CheckHolds(x)'
               PROVE  x \in raced
    BY DEF RacedInv
  <2>1. CASE AdditionHolds(x)'
    BY <2>1 DEF AdmissionInv, RacedInv, AdditionHolds, Editing
  <2>2. CASE CheckHolds(x)'
    <3>1. PICK t \in Slots : Running(t)' /\ handlers'[t].pc = "cache"
                             /\ handlers'[t].left[1] = x
      BY <2>2 DEF CheckHolds
    <3>2. t # s
      BY <3>1
    <3>3. CheckHolds(x)
      BY <3>1, <3>2 DEF CheckHolds, Running
    <3>4. QED
      BY <3>3 DEF AdmissionInv, RacedInv
  <2>3. QED
    BY <2>1, <2>2
<1>5. QED
  BY <1>1, <1>2, <1>3, <1>4 DEF ListInv

(* A handler that returns says nothing any more. *)
LEMMA ReturnKeeps ==
    ASSUME AdmissionInv, NEW s \in Slots, Running(s), Finish(s),
           UNCHANGED <<faults, stored, cached, edits, barred, due, raced, spent>>
    PROVE  ListInv'
<1>1. /\ ~ Running(s)'
      /\ \A t \in Slots : t # s => handlers'[t] = handlers[t]
  BY DEF Finish, Running, AdmissionInv, TypeOK
<1>2. QED
  BY <1>1, HandlersMove

(* A new message is due what is barred of its sources. *)
LEMMA ArriveKeeps ==
    ASSUME AdmissionInv, NEW s \in Slots, Arrive(s)
    PROVE  ListInv'
<1>1. PICK m \in Messages :
        /\ Take(s, [pc |-> "chain", at |-> 1, message |-> m, left |-> SourcesOf(m)])
        /\ due' = [due EXCEPT ![s] = barred \cap ToSet(SourcesOf(m))]
  BY DEF Arrive
<1> DEFINE h == [pc |-> "chain", at |-> 1, message |-> m, left |-> SourcesOf(m)]
<1>2. /\ handlers'[s] = h /\ due'[s] = barred \cap ToSet(SourcesOf(m))
      /\ \A t \in Slots : t # s => handlers'[t] = handlers[t] /\ due'[t] = due[t]
      /\ ~ Running(s)
  BY <1>1 DEF Take, AdmissionInv, TypeOK, BlacklistTypeOK
<1>3. UNCHANGED <<faults, stored, cached, edits, barred, raced>>
      /\ spent' = spent \ {s}
  BY DEF Arrive
<1>4. BarredInv' /\ CacheFollowsRows'
  BY <1>3 DEF AdmissionInv, BarredInv, CacheFollowsRows, Removing, Editing
<1>5. DueInv'
  BY <1>2, <1>3 DEF AdmissionInv, DueInv, Running
<1>6. SpentInv'
  BY <1>2, <1>3 DEF AdmissionInv, SpentInv, Running, TypeOK
<1>7. RacedInv'
  <2>1. \A x : AdditionHolds(x)' <=> AdditionHolds(x)
    BY <1>3 DEF AdditionHolds, Editing
  <2>2. \A x : CheckHolds(x)' => CheckHolds(x)
    BY <1>2 DEF CheckHolds, Running
  <2>3. QED
    BY <1>3, <2>1, <2>2 DEF AdmissionInv, RacedInv
<1>8. QED
  BY <1>4, <1>5, <1>6, <1>7 DEF ListInv

(* A handler's record, after PassOn. *)
LEMMA PassedOn ==
    ASSUME TypeOK, NEW s \in Slots, Running(s), PassOn(s),
           handlers[s].at <= Len(Chain)
    PROVE  /\ handlers'[s].at = handlers[s].at + 1 /\ handlers'[s].pc = "chain"
           /\ \A t \in Slots : t # s => handlers'[t] = handlers[t]
<1>1. /\ handlers' = [handlers EXCEPT ![s] =
            [handlers[s] EXCEPT !.at = @ + 1, !.pc = "chain"]]
      /\ handlers[s] \in Handler
  BY Moves, HandlerFields
<1>2. QED
  BY <1>1 DEF TypeOK, Handler

(* Who gets as far as the limiter has no barred source. *)
LEMMA LimitKeeps ==
    ASSUME AdmissionInv, NEW s \in Slots, Limit(s)
    PROVE  ListInv'
<1>1. /\ Running(s) /\ handlers[s].at <= Len(Chain)
      /\ handlers[s].at = 2 /\ due[s] = {}
  <2>1. /\ Running(s) /\ handlers[s].at <= Len(Chain)
        /\ Chain[handlers[s].at] = "limiter"
    BY DEF Limit, Before
  <2>2. handlers[s].at = 2
    BY <2>1, ChainOrder, HandlerFields DEF AdmissionInv
  <2>3. QED
    BY <2>1, <2>2 DEF AdmissionInv, DueInv
<1>2. UNCHANGED <<faults, stored, cached, edits, barred, due, raced>>
  BY DEF Limit, BlacklistSame, blacklistVars
<1>3. CASE Finish(s) /\ spent' = spent
  BY <1>1, <1>2, <1>3, ReturnKeeps
<1>4. CASE PassOn(s) /\ spent' = spent \cup {s}
  <2>1. /\ handlers'[s].at = 3 /\ handlers'[s].pc = "chain"
        /\ \A t \in Slots : t # s => handlers'[t] = handlers[t]
    BY <1>1, <1>4, PassedOn DEF AdmissionInv
  <2>2. BarredInv' /\ CacheFollowsRows'
    BY <1>2 DEF AdmissionInv, BarredInv, CacheFollowsRows, Removing, Editing
  <2>3. DueInv'
    BY <1>1, <1>2, <2>1 DEF AdmissionInv, DueInv, Running
  <2>4. SpentInv'
    BY <1>4, <2>1 DEF AdmissionInv, SpentInv, Running, TypeOK
  <2>5. RacedInv'
    <3>1. \A x : AdditionHolds(x)' <=> AdditionHolds(x)
      BY <1>2 DEF AdditionHolds, Editing
    <3>2. \A x : CheckHolds(x)' => CheckHolds(x)
      BY <2>1 DEF CheckHolds, Running
    <3>3. QED
      BY <1>2, <3>1, <3>2 DEF AdmissionInv, RacedInv
  <2>6. QED
    BY <2>2, <2>3, <2>4, <2>5 DEF ListInv
<1>5. QED
  BY <1>3, <1>4 DEF Limit

(***************************************************************************)
(* The blacklist lets a message go on to the row when its cache says       *)
(* nothing, which it does of a barred source only if rows can be read; it  *)
(* lets the message pass when there is no source left.                     *)
(***************************************************************************)
LEMMA LookUpKeeps ==
    ASSUME AdmissionInv, NEW s \in Slots, LookUp(s)
    PROVE  ListInv'
<1>1. /\ Running(s) /\ handlers[s].at <= Len(Chain)
      /\ handlers[s].at = 1 /\ handlers[s].pc = "chain"
      /\ due[s] \subseteq ToSet(handlers[s].left) /\ due[s] \subseteq barred
  <2>1. /\ Running(s) /\ handlers[s].at <= Len(Chain)
        /\ Chain[handlers[s].at] = "blacklist" /\ handlers[s].pc = "chain"
    BY DEF LookUp, Before
  <2>2. handlers[s].at = 1
    BY <2>1, ChainOrder, HandlerFields DEF AdmissionInv
  <2>3. QED
    BY <2>1, <2>2 DEF AdmissionInv, DueInv
<1>2. UNCHANGED <<faults, stored, cached, edits, barred, due, raced, spent>>
  BY DEF LookUp, BlacklistSame, blacklistVars
<1>3. s \notin spent
  BY <1>1 DEF AdmissionInv, SpentInv
<1>4. CASE handlers[s].left = <<>> /\ PassOn(s)
  <2>1. /\ handlers'[s].at = 2 /\ handlers'[s].pc = "chain"
        /\ \A t \in Slots : t # s => handlers'[t] = handlers[t]
    BY <1>1, <1>4, PassedOn DEF AdmissionInv
  <2>2. due[s] = {}
    BY <1>1, <1>4 DEF ToSet
  <2>3. QED
    BY <1>1, <1>2, <1>3, <2>1, <2>2, HandlersMove
<1>5. CASE Finish(s)
  BY <1>1, <1>2, <1>5, ReturnKeeps
<1>6. CASE handlers[s].left # <<>> /\ handlers[s].left[1] \notin cached
           /\ Goto(s, "row")
  <2> DEFINE h == [handlers[s] EXCEPT !.pc = "row"]
  <2>1. handlers' = [handlers EXCEPT ![s] = h] /\ handlers[s] \in Handler
    BY <1>1, <1>6, Moves, HandlerFields DEF AdmissionInv
  <2>2. /\ handlers'[s].at = 1 /\ handlers'[s].pc = "row"
        /\ handlers'[s].left = handlers[s].left
        /\ \A t \in Slots : t # s => handlers'[t] = handlers[t]
    BY <1>1, <2>1 DEF AdmissionInv, TypeOK, Handler
  <2>3. "readError" \in faults => handlers[s].left[1] \notin due[s]
    BY <1>1, <1>6 DEF AdmissionInv, BarredInv
  <2>4. QED
    BY <1>1, <1>2, <1>3, <1>6, <2>2, <2>3, HandlersMove
<1>7. QED
  BY <1>4, <1>5, <1>6 DEF LookUp

(* The row of a barred source is there, and is found if it can be read. *)
LEMMA ReadRowKeeps ==
    ASSUME AdmissionInv, NEW s \in Slots, ReadRow(s)
    PROVE  ListInv'
<1>1. /\ Running(s) /\ handlers[s].pc = "row" /\ handlers[s].at = 1
      /\ handlers[s].left # <<>>
      /\ due[s] \subseteq ToSet(handlers[s].left) /\ due[s] \subseteq barred
      /\ "readError" \in faults => handlers[s].left[1] \notin due[s]
  BY DEF ReadRow, AdmissionInv, DueInv
<1>2. UNCHANGED <<faults, stored, cached, edits, barred, due, raced, spent>>
  BY DEF ReadRow, BlacklistSame, blacklistVars
<1>3. s \notin spent
  BY <1>1 DEF AdmissionInv, SpentInv
<1>4. handlers[s] \in Handler /\ handlers[s].left \in Left
  BY <1>1, HandlerFields DEF AdmissionInv
<1>5. CASE handlers[s].left[1] \in stored /\ Goto(s, "cache")
  <2> DEFINE h == [handlers[s] EXCEPT !.pc = "cache"]
  <2>1. handlers' = [handlers EXCEPT ![s] = h]
    BY <1>1, <1>5, Moves DEF AdmissionInv
  <2>2. /\ handlers'[s].at = 1 /\ handlers'[s].pc = "cache"
        /\ handlers'[s].left = handlers[s].left
        /\ \A t \in Slots : t # s => handlers'[t] = handlers[t]
    BY <1>1, <1>4, <2>1 DEF AdmissionInv, TypeOK, Handler
  <2>3. QED
    BY <1>1, <1>2, <1>3, <1>5, <2>2, HandlersMove
<1>6. CASE /\ handlers[s].left[1] \notin stored \/ "readError" \in faults
           /\ handlers' = [handlers EXCEPT ![s].pc = "chain", ![s].left = Tail(@)]
  <2> DEFINE h == [handlers[s] EXCEPT !.pc = "chain", !.left = Tail(@)]
  <2>1. handlers' = [handlers EXCEPT ![s] = h]
    BY <1>4, <1>6 DEF AdmissionInv, TypeOK, Handler
  <2>2. /\ handlers'[s].at = 1 /\ handlers'[s].pc = "chain"
        /\ handlers'[s].left = Tail(handlers[s].left)
        /\ \A t \in Slots : t # s => handlers'[t] = handlers[t]
    BY <1>1, <1>4, <2>1 DEF AdmissionInv, TypeOK, Handler
  <2>3. handlers[s].left[1] \notin due[s]
    BY <1>1, <1>6 DEF AdmissionInv, BarredInv
  <2>4. due[s] \subseteq ToSet(Tail(handlers[s].left))
    BY <1>1, <1>4, <2>3, LeftTail
  <2>5. QED
    BY <1>1, <1>2, <1>3, <2>2, <2>4, HandlersMove
<1>7. QED
  BY <1>5, <1>6 DEF ReadRow

(* What a check puts in the cache had a row, or was removed meanwhile. *)
LEMMA FillCacheKeeps ==
    ASSUME AdmissionInv, NEW s \in Slots, FillCache(s)
    PROVE  ListInv'
<1> DEFINE x == handlers[s].left[1]
<1>1. /\ Running(s) /\ Finish(s) /\ handlers[s].pc = "cache"
      /\ cached' = cached \cup {x}
      /\ UNCHANGED <<faults, stored, edits, barred, due, raced, spent>>
  BY DEF FillCache
<1>2. /\ ~ Running(s)'
      /\ \A t \in Slots : t # s => handlers'[t] = handlers[t]
  BY <1>1 DEF Finish, Running, AdmissionInv, TypeOK
<1>3. x \in Sources /\ CheckHolds(x)
  BY <1>1 DEF AdmissionInv, HoldsSource, CheckHolds
<1>4. x \in stored \/ x \in raced
  BY <1>3 DEF AdmissionInv, RacedInv
<1>5. BarredInv' /\ CacheFollowsRows'
  BY <1>1, <1>4 DEF AdmissionInv, BarredInv, CacheFollowsRows, Removing, Editing
<1>6. DueInv' /\ SpentInv'
  BY <1>1, <1>2 DEF AdmissionInv, DueInv, SpentInv, Running, TypeOK
<1>7. RacedInv'
  <2>1. \A y : AdditionHolds(y)' <=> AdditionHolds(y)
    BY <1>1 DEF AdditionHolds, Editing
  <2>2. \A y : CheckHolds(y)' => CheckHolds(y)
    BY <1>2 DEF CheckHolds, Running
  <2>3. QED
    BY <1>1, <2>1, <2>2 DEF AdmissionInv, RacedInv
<1>8. QED
  BY <1>5, <1>6, <1>7 DEF ListInv

(* An edit leaves the handlers alone, and with them what each message asks. *)
LEMMA EditLeaves ==
    ASSUME AdmissionInv, UNCHANGED <<handlers, faults, spent>>,
           \A s \in Slots : due'[s] \subseteq due[s] /\ due'[s] \subseteq barred'
    PROVE  DueInv' /\ SpentInv'
BY DEF AdmissionInv, DueInv, SpentInv, Running

(* Beginning an edit, or failing in it, says nothing of the tables. *)
LEMMA EditEndsKeep ==
    ASSUME AdmissionInv, UNCHANGED <<handlers, faults, spent>>,
           NEW e \in Editors, BeginEdit(e) \/ StorageFails(e)
    PROVE  ListInv'
<1>1. UNCHANGED <<stored, cached, barred, due, raced>>
  BY DEF BeginEdit, StorageFails
<1>2. /\ \A d \in Editors : d # e => edits'[d] = edits[d]
      /\ edits'[e] # None => edits'[e].pc = "storage"
      /\ edits[e] # None => edits[e].pc = "storage"
  BY DEF BeginEdit, StorageFails, Return, AdmissionInv, TypeOK, BlacklistTypeOK
<1>3. \A x : /\ Removing(x)' <=> Removing(x)
             /\ AdditionHolds(x)' <=> AdditionHolds(x)
             /\ CheckHolds(x)' <=> CheckHolds(x)
  BY <1>2 DEF Removing, AdditionHolds, CheckHolds, Editing, Running
<1>4. DueInv' /\ SpentInv'
  BY <1>1, EditLeaves DEF AdmissionInv, DueInv
<1>5. QED
  BY <1>1, <1>3, <1>4 DEF AdmissionInv, BarredInv, RacedInv, CacheFollowsRows, ListInv

(* How an edit that goes on, and one that returns, show afterwards. *)
LEMMA EditMoves ==
    ASSUME BlacklistTypeOK, NEW e \in Editors, edits[e] # None
    PROVE  /\ Return(e) =>
                /\ edits'[e] = None
                /\ \A d \in Editors : d # e => edits'[d] = edits[d]
           /\ edits' = [edits EXCEPT ![e].pc = "cache"] =>
                /\ edits'[e] # None /\ edits'[e].pc = "cache"
                /\ edits'[e].op = edits[e].op /\ edits'[e].source = edits[e].source
                /\ \A d \in Editors : d # e => edits'[d] = edits[d]
<1>1. edits[e] \in Edit /\ [edits[e] EXCEPT !.pc = "cache"] \in Edit
  BY EditFields
<1>2. Return(e) => /\ edits'[e] = None
                   /\ \A d \in Editors : d # e => edits'[d] = edits[d]
  BY DEF Return, BlacklistTypeOK
<1>3. ASSUME edits' = [edits EXCEPT ![e].pc = "cache"]
      PROVE  /\ edits'[e] # None /\ edits'[e].pc = "cache"
             /\ edits'[e].op = edits[e].op /\ edits'[e].source = edits[e].source
             /\ \A d \in Editors : d # e => edits'[d] = edits[d]
  <2>1. /\ edits'[e] = [edits[e] EXCEPT !.pc = "cache"]
        /\ \A d \in Editors : d # e => edits'[d] = edits[d]
    BY <1>3 DEF BlacklistTypeOK
  <2>2. QED
    BY <1>1, <2>1, EditAssumption DEF Edit
<1>4. QED
  BY <1>2, <1>3

(* An addition that has the row written holds a source with a row. *)
LEMMA AddRowKeeps ==
    ASSUME AdmissionInv, UNCHANGED <<handlers, faults, spent>>,
           NEW e \in Editors, AddRow(e)
    PROVE  ListInv'
<1> DEFINE x == edits[e].source
<1>1. /\ edits[e] # None /\ edits[e].op = "add" /\ edits[e].pc = "storage"
      /\ stored' = stored \cup {x}
      /\ edits' = [edits EXCEPT ![e].pc = "cache"]
      /\ UNCHANGED <<cached, barred, due, raced>>
  BY DEF AddRow, Editing
<1>2. /\ edits'[e] # None /\ edits'[e].pc = "cache"
      /\ edits'[e].op = "add" /\ edits'[e].source = x
      /\ \A d \in Editors : d # e => edits'[d] = edits[d]
  BY <1>1, EditMoves DEF AdmissionInv, TypeOK
<1>3. \A y : /\ Removing(y)' <=> Removing(y)
             /\ AdditionHolds(y)' => AdditionHolds(y) \/ y = x
             /\ CheckHolds(y)' <=> CheckHolds(y)
  BY <1>1, <1>2 DEF Removing, AdditionHolds, CheckHolds, Editing, Running
<1>4. DueInv' /\ SpentInv'
  BY <1>1, EditLeaves DEF AdmissionInv, DueInv
<1>5. QED
  BY <1>1, <1>3, <1>4 DEF AdmissionInv, BarredInv, RacedInv, CacheFollowsRows, ListInv

(* An addition ends: its source is barred unless it is being let in again. *)
LEMMA AddToCacheKeeps ==
    ASSUME AdmissionInv, UNCHANGED <<handlers, faults, spent>>,
           NEW e \in Editors, AddToCache(e)
    PROVE  ListInv'
<1> DEFINE x == edits[e].source
<1>1. /\ edits[e] # None /\ edits[e].op = "add" /\ edits[e].pc = "cache"
      /\ cached' = cached \cup {x} /\ BarredBy(x) /\ Return(e)
      /\ UNCHANGED <<stored, due, raced>>
  BY DEF AddToCache, Editing
<1>2. edits'[e] = None /\ \A d \in Editors : d # e => edits'[d] = edits[d]
  BY <1>1, EditMoves DEF AdmissionInv, TypeOK
<1>3. \A y : /\ Removing(y)' <=> Removing(y)
             /\ AdditionHolds(y)' => AdditionHolds(y)
             /\ CheckHolds(y)' <=> CheckHolds(y)
  BY <1>1, <1>2 DEF Removing, AdditionHolds, CheckHolds, Editing, Running
<1>4. x \in Sources /\ (x \in stored \/ x \in raced)
  <2>1. x \in Sources /\ AdditionHolds(x)
    BY <1>1, EditFields DEF AdditionHolds, Editing, AdmissionInv, TypeOK
  <2>2. QED
    BY <2>1 DEF AdmissionInv, RacedInv
<1>5. BarredInv'
  BY <1>1, <1>3 DEF AdmissionInv, BarredInv, BarredBy
<1>6. DueInv' /\ SpentInv'
  BY <1>1, EditLeaves DEF AdmissionInv, DueInv, BarredBy
<1>7. QED
  BY <1>1, <1>3, <1>4, <1>5, <1>6
     DEF AdmissionInv, RacedInv, CacheFollowsRows, ListInv

(* A removal takes the row first: from then on its source is not barred. *)
LEMMA RemoveRowKeeps ==
    ASSUME AdmissionInv, UNCHANGED <<handlers, faults, spent>>,
           NEW e \in Editors, RemoveRow(e)
    PROVE  ListInv'
<1> DEFINE x == edits[e].source
<1>1. /\ edits[e] # None /\ edits[e].op = "remove" /\ edits[e].pc = "storage"
      /\ stored' = stored \ {x} /\ barred' = barred \ {x}
      /\ due' = [s \in Slots |-> due[s] \ {x}]
      /\ raced' = IF CheckHolds(x) \/ AdditionHolds(x) THEN raced \cup {x} ELSE raced
      /\ edits' = [edits EXCEPT ![e].pc = "cache"]
      /\ cached' = cached
  BY DEF RemoveRow, Editing
<1>2. /\ edits'[e] # None /\ edits'[e].pc = "cache"
      /\ edits'[e].op = "remove" /\ edits'[e].source = x
      /\ \A d \in Editors : d # e => edits'[d] = edits[d]
  BY <1>1, EditMoves DEF AdmissionInv, TypeOK
<1>3. \A y : /\ Removing(y)' <=> Removing(y) \/ y = x
             /\ AdditionHolds(y)' <=> AdditionHolds(y)
             /\ CheckHolds(y)' <=> CheckHolds(y)
  BY <1>1, <1>2 DEF Removing, AdditionHolds, CheckHolds, Editing, Running
<1>4. BarredInv'
  BY <1>1, <1>3 DEF AdmissionInv, BarredInv
<1>5. DueInv' /\ SpentInv'
  BY <1>1, EditLeaves DEF AdmissionInv, DueInv
<1>6. RacedInv' /\ CacheFollowsRows'
  BY <1>1, <1>3 DEF AdmissionInv, RacedInv, CacheFollowsRows
<1>7. QED
  BY <1>4, <1>5, <1>6 DEF ListInv

(* Its source was not barred while it ran; it leaves no entry. *)
LEMMA RemoveFromCacheKeeps ==
    ASSUME AdmissionInv, UNCHANGED <<handlers, faults, spent>>,
           NEW e \in Editors, RemoveFromCache(e)
    PROVE  ListInv'
<1> DEFINE x == edits[e].source
<1>1. /\ edits[e] # None /\ edits[e].op = "remove" /\ edits[e].pc = "cache"
      /\ cached' = cached \ {x} /\ Return(e)
      /\ UNCHANGED <<stored, barred, due, raced>>
  BY DEF RemoveFromCache, Editing
<1>2. edits'[e] = None /\ \A d \in Editors : d # e => edits'[d] = edits[d]
  BY <1>1, EditMoves DEF AdmissionInv, TypeOK
<1>3. \A y : /\ Removing(y)' => Removing(y)
             /\ Removing(y) => Removing(y)' \/ y = x
             /\ AdditionHolds(y)' <=> AdditionHolds(y)
             /\ CheckHolds(y)' <=> CheckHolds(y)
  BY <1>1, <1>2 DEF Removing, AdditionHolds, CheckHolds, Editing, Running
<1>4. Removing(x)
  BY <1>1 DEF Removing, Editing
<1>5. BarredInv'
  BY <1>1, <1>3, <1>4 DEF AdmissionInv, BarredInv
<1>6. DueInv' /\ SpentInv'
  BY <1>1, EditLeaves DEF AdmissionInv, DueInv
<1>7. RacedInv' /\ CacheFollowsRows'
  BY <1>1, <1>3 DEF AdmissionInv, RacedInv, CacheFollowsRows
<1>8. QED
  BY <1>5, <1>6, <1>7 DEF ListInv

(* The process dies: nothing is cached, nobody asks. *)
LEMMA CrashKeeps ==
    ASSUME AdmissionInv, Crash
    PROVE  ListInv'
<1>1. /\ \A s \in Slots : ~ Running(s)' /\ due'[s] = {}
      /\ \A e \in Editors : edits'[e] = None
      /\ cached' = {} /\ spent' = {}
      /\ faults' = faults /\ stored' = stored
      /\ barred' = IF "readError" \in faults THEN {} ELSE barred
  BY DEF Crash, ProcessDies, BlacklistRestarts, Running
<1>2. \A x : ~ Removing(x)' /\ ~ AdditionHolds(x)' /\ ~ CheckHolds(x)'
  BY <1>1 DEF Removing, AdditionHolds, CheckHolds, Editing
<1>3. QED
  BY <1>1, <1>2 DEF AdmissionInv, BarredInv, DueInv, SpentInv, RacedInv,
                    CacheFollowsRows, ListInv

-----------------------------------------------------------------------------
(* The theorems. *)

(* Nobody is being asked about, nobody edits, every bucket is full. *)
LEMMA InitInv == Init => AdmissionInv /\ LimiterInv
<1> SUFFICES ASSUME Init PROVE AdmissionInv /\ LimiterInv
  OBVIOUS
<1>1. LimiterInv
  <2>1. LimiterTypeOK
    BY LimiterAssumption DEF Init, LimiterInit, LimiterTypeOK
  <2>2. ASSUME NEW k \in Keys
        PROVE  passed[k] * Unit + Available(k) <= Full + (now - since)
    <3>1. passed[k] = 0 /\ Available(k) = Full /\ now = 0 /\ since = 0
      BY DEF Init, LimiterInit, Available
    <3>2. passed[k] * Unit = 0
      BY <3>1, LimiterAssumption
    <3>3. QED
      BY <3>1, <3>2, FullType
  <2>3. QED
    BY <2>1, <2>2 DEF LimiterInv, RateInv
<1>2. /\ \A s \in Slots : ~ Running(s)
      /\ \A e \in Editors : edits[e] = None
      /\ \A x : ~ Removing(x) /\ ~ AdditionHolds(x) /\ ~ CheckHolds(x)
  BY DEF Init, BlacklistInit, Running, Removing, AdditionHolds, CheckHolds, Editing
<1>3. TypeOK /\ HoldsSource
  <2>1. BlacklistTypeOK
    BY BlacklistAssumption DEF Init, BlacklistInit, BlacklistTypeOK
  <2>2. QED
    BY <1>1, <1>2, <2>1, LoopAssumption, AdmissionAssumption
       DEF Init, LimiterInv, TypeOK, HoldsSource
<1>4. QED
  BY <1>1, <1>2, <1>3 DEF Init, BlacklistInit, AdmissionInv, BarredInv, DueInv,
                          SpentInv, RacedInv, CacheFollowsRows

(* One case per action; the types are a matter of their own. *)
LEMMA NextInv == AdmissionInv /\ LimiterTypeOK' /\ [Next]_vars => AdmissionInv'
<1> SUFFICES ASSUME AdmissionInv, LimiterTypeOK', [Next]_vars
             PROVE  Typed' /\ ListInv'
  BY TypeParts DEF TypeOK, Typed, HandlersOK, AdmissionInv, ListInv
<1>1. CASE \E s \in Slots : MessageStep(s)
  <2>1. PICK s \in Slots : MessageStep(s)
    BY <1>1
  <2>2. CASE Arrive(s)
    BY <2>2, ArriveTypes, ArriveKeeps DEF AdmissionInv
  <2>3. CASE Limit(s)
    BY <2>3, LimitTypes, LimitKeeps DEF AdmissionInv
  <2>4. CASE LookUp(s)
    BY <2>4, LookUpTypes, LookUpKeeps DEF AdmissionInv
  <2>5. CASE ReadRow(s)
    <3>1. handlers[s].left # <<>>
      BY <2>5 DEF ReadRow, AdmissionInv, DueInv
    <3>2. QED
      BY <2>5, <3>1, ReadRowTypes, ReadRowKeeps DEF AdmissionInv
  <2>6. CASE FillCache(s)
    BY <2>6, ReturnTypes, FillCacheKeeps DEF AdmissionInv
  <2>7. CASE Dispatched(s)
    <3>1. /\ Running(s) /\ Finish(s)
          /\ UNCHANGED <<faults, stored, cached, edits, barred, due, raced, spent>>
      BY <2>7 DEF Dispatched, AtEnd, BlacklistSame, blacklistVars
    <3>2. QED
      BY <2>7, <3>1, ReturnTypes, ReturnKeeps DEF AdmissionInv
  <2>8. QED
    BY <2>1, <2>2, <2>3, <2>4, <2>5, <2>6, <2>7 DEF MessageStep
<1>2. CASE Manage
  <2>1. PICK e \in Editors : EditStep(e)
    BY <1>2 DEF Manage
  <2>2. UNCHANGED <<handlers, loop, ops, faults, spent>>
    BY <1>2 DEF Manage
  <2>3. Typed'
    BY <2>1, <2>2, ManageTypes DEF AdmissionInv, Typed, TypeOK, HandlersOK,
                                   HoldsSource, Running
  <2>4. ListInv'
    BY <2>1, <2>2, EditEndsKeep, AddRowKeeps, AddToCacheKeeps, RemoveRowKeeps,
       RemoveFromCacheKeeps DEF EditStep
  <2>5. QED
    BY <2>3, <2>4
<1>3. CASE Crash
  <2>1. /\ handlers' = [s \in Slots |-> None] /\ loop' = None
        /\ UNCHANGED <<ops, faults>> /\ spent' = {}
    BY <1>3 DEF Crash, ProcessDies
  <2>2. BlacklistTypeOK'
    BY <1>3 DEF Crash, BlacklistRestarts, AdmissionInv, TypeOK, BlacklistTypeOK
  <2>3. Typed'
    BY <2>1, <2>2 DEF AdmissionInv, Typed, TypeOK, HandlersOK, HoldsSource, Running
  <2>4. QED
    BY <1>3, <2>3, CrashKeeps
<1>4. CASE LimiterStep \/ Timeout \/ Done \/ UNCHANGED vars
  <2>1. /\ UNCHANGED <<handlers, ops, faults, spent, blacklistVars>>
        /\ loop' = loop \/ loop' = None
    BY <1>4 DEF LimiterStep, Timeout, WaitEnds, Done, vars, BlacklistSame
  <2>2. Typed'
    BY <2>1 DEF AdmissionInv, Typed, TypeOK, HandlersOK, HoldsSource, Running,
                blacklistVars, BlacklistTypeOK
  <2>3. ListInv'
    BY <2>1 DEF AdmissionInv, ListInv, BarredInv, DueInv, SpentInv, RacedInv,
                CacheFollowsRows, Running, blacklistVars, Removing, AdditionHolds,
                CheckHolds, Editing
  <2>4. QED
    BY <2>2, <2>3
<1>5. QED
  BY <1>1, <1>2, <1>3, <1>4 DEF Next

(* The two invariants together are inductive. *)
LEMMA AdmissionInvHolds == Spec => [](AdmissionInv /\ LimiterInv)
<1>1. LimiterInv' => LimiterTypeOK'
  BY DEF LimiterInv
<1>2. QED
  BY <1>1, InitInv, NextInv, LimiterKeeps, PTL DEF Spec

(* Every variable has its type. *)
THEOREM TypeCorrect == Spec => []TypeOK
BY AdmissionInvHolds, PTL DEF AdmissionInv

(***************************************************************************)
(* A message from a source whose blocking was complete when it came, and   *)
(* has not been undone, reaches no command.                                *)
(***************************************************************************)
THEOREM BarredAreKeptOut == Spec => []BarredStayOut
<1>1. AdmissionInv => BarredStayOut
  BY ChainOrder, HandlerFields DEF AdmissionInv, DueInv, BarredStayOut, AtEnd
<1>2. QED
  BY <1>1, AdmissionInvHolds, PTL

(* Nor does such a message take a token. *)
THEOREM BarredTakeNoToken == Spec => []BarredSpendNothing
<1>1. AdmissionInv => BarredSpendNothing
  BY DEF AdmissionInv, DueInv, SpentInv, BarredSpendNothing, TypeOK
<1>2. QED
  BY <1>1, AdmissionInvHolds, PTL

(***************************************************************************)
(* A source without a row is in the cache only while its removal is under  *)
(* way, or if a check or an addition held the row while it was removed.    *)
(***************************************************************************)
THEOREM CacheIsExplained == Spec => []CacheFollowsRows
BY AdmissionInvHolds, PTL DEF AdmissionInv

(***************************************************************************)
(* From whatever moment one counts, no key gets more messages through than *)
(* a full bucket allows plus what has come since.                          *)
(***************************************************************************)
THEOREM RateBoundedHolds == Spec => []RateBounded
<1>1. LimiterInv => RateBounded
  <2> SUFFICES ASSUME LimiterInv, NEW k \in Keys
      PROVE  passed[k] * Unit <= Full + (now - since)
    BY DEF RateBounded
  <2>1. /\ Available(k) \in 0 .. Full
        /\ passed[k] * Unit \in Nat
        /\ Full \in Nat /\ now \in Int /\ since \in Int
        /\ passed[k] * Unit + Available(k) <= Full + (now - since)
    BY AvailableType, FullType, LimiterAssumption
       DEF LimiterInv, LimiterTypeOK, RateInv
  <2>2. QED
    BY <2>1
<1>2. QED
  BY <1>1, AdmissionInvHolds, PTL

=============================================================================
