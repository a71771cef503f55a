------------------------------ MODULE Admission -----------------------------
(***************************************************************************)
(* What a message goes through before its command runs: the chain of       *)
(* middlewares bot.New sets up.  The blacklist and the rate limiter may    *)
(* drop the message; the third middleware only logs and is left out.  The  *)
(* goroutines of two messages overlap when the event loop has given the    *)
(* first one up.                                                           *)
(*                                                                         *)
(* Faults: "readError" and "writeError" of the storage, and the "crash"    *)
(* and "timeout" of MessageLoop.                                           *)
(***************************************************************************)
EXTENDS RateLimiter, Blacklist, Sequences, FiniteSets, SequencesExt

CONSTANTS
    Messages,     \* records [scene, author, place]
    FaultRegimes  \* the sets of faults a behaviour may be given

Fault == {"readError", "writeError", "crash", "timeout"}

ASSUME AdmissionAssumption ==
    /\ FaultRegimes \subseteq SUBSET Fault
    /\ Messages \subseteq [scene : {"c2c", "group", "channel"},
                           author : Sources, place : Sources \cup {None}]

VARIABLE
    spent         \* auxiliary: the goroutines that were granted a token

vars == <<handlers, loop, ops, faults, limiterVars, blacklistVars, spent>>

\* The sources the blacklist is asked about, the group first.
SourcesOf(m) == IF m.scene = "group" THEN <<m.place, m.author>> ELSE <<m.author>>

\* resolveKey: whose bucket a message draws on.
KeyOf(m) == <<m.scene, IF m.scene = "c2c" THEN m.author ELSE m.place>>

Order(middleware) ==
    CASE middleware = "blacklist" -> -1500
      [] middleware = "limiter"   -> -500

\* Mutant: middlewares run in the order they are added.
AddedLast(chain, middleware) == Append(chain, middleware)

\* Chain.Add sorts the chain anew: the others are sorted, no two orders equal.
Added(chain, middleware) ==
    LET before == Cardinality({i \in DOMAIN chain :
                                 Order(chain[i]) < Order(middleware)})
    IN  SubSeq(chain, 1, before) \o <<middleware>>
            \o SubSeq(chain, before + 1, Len(chain))

\* The order in which bot.New adds them.
Chain == Added(Added(<<>>, "limiter"), "blacklist")

Handler == [pc : {"chain", "row", "cache"}, at : 1 .. Len(Chain) + 1,
            message : Messages, left : {SourcesOf(m) : m \in Messages} \cup
                                       {Tail(SourcesOf(m)) : m \in Messages} \cup {<<>>}]

ASSUME AdmissionNoneAssumption == None \notin Handler

TypeOK ==
    /\ handlers \in [Slots -> Handler \cup {None}]
    /\ loop \in Slots \cup {None}
    /\ loop # None => Running(loop)
    /\ ops \in 0 .. MaxOps
    /\ faults \in SUBSET Fault
    /\ LimiterTypeOK
    /\ BlacklistTypeOK
    /\ spent \subseteq Slots

Init ==
    /\ handlers = [s \in Slots |-> None]
    /\ loop = None
    /\ ops = 0
    /\ faults \in FaultRegimes
    /\ LimiterInit
    /\ BlacklistInit
    /\ spent = {}

-----------------------------------------------------------------------------
(* The chain. *)

LimiterSame == UNCHANGED limiterVars
BlacklistSame == UNCHANGED blacklistVars

Arrive(s) ==
    /\ \E m \in Messages :
         /\ Take(s, [pc |-> "chain", at |-> 1, message |-> m,
                     left |-> SourcesOf(m)])
         /\ due' = [due EXCEPT ![s] = barred \cap ToSet(SourcesOf(m))]
    /\ spent' = spent \ {s}
    /\ UNCHANGED <<faults, stored, cached, edits, edited, barred, raced>>
    /\ LimiterSame

Before(s, middleware) ==
    /\ Running(s)
    /\ handlers[s].pc = "chain"
    /\ handlers[s].at <= Len(Chain)
    /\ Chain[handlers[s].at] = middleware

\* next(): on to the middleware after this one.
PassOn(s) ==
    /\ handlers' = [handlers EXCEPT ![s].at = @ + 1, ![s].pc = "chain"]
    /\ loop' = loop

\* The limiter grants or drops the message.
Limit(s) ==
    /\ Before(s, "limiter")
    /\ \/ /\ Grant(KeyOf(handlers[s].message))
          /\ PassOn(s)
          /\ spent' = spent \cup {s}
       \/ /\ Deny(KeyOf(handlers[s].message))
          /\ Finish(s)
          /\ UNCHANGED spent
    /\ UNCHANGED <<ops, faults>>
    /\ BlacklistSame

\* The blacklist asks its cache about the next source, if there is one.
LookUp(s) ==
    /\ Before(s, "blacklist")
    /\ LET left == handlers[s].left IN
         CASE left = <<>> -> PassOn(s)
           [] left # <<>> /\ left[1] \in cached -> Finish(s)
           [] OTHER -> Goto(s, "row")
    /\ UNCHANGED <<ops, faults, spent>>
    /\ LimiterSame /\ BlacklistSame

\* It reads a row; one that is not there, or cannot be read, blocks nobody.
ReadRow(s) ==
    /\ Running(s) /\ handlers[s].pc = "row"
    /\ \/ handlers[s].left[1] \in stored /\ Goto(s, "cache")
       \/ /\ handlers[s].left[1] \notin stored \/ "readError" \in faults
          /\ handlers' = [handlers EXCEPT ![s].pc = "chain", ![s].left = Tail(@)]
          /\ loop' = loop
    /\ UNCHANGED <<ops, faults, spent>>
    /\ LimiterSame /\ BlacklistSame

\* It puts the row in the cache and drops the message.
FillCache(s) ==
    /\ Running(s) /\ handlers[s].pc = "cache"
    /\ cached' = cached \cup {handlers[s].left[1]}
    /\ Finish(s)
    /\ UNCHANGED <<ops, faults, spent, stored, edits, edited, barred, due, raced>>
    /\ LimiterSame

AtEnd(s) == Running(s) /\ handlers[s].at > Len(Chain)

\* The command or the listeners run; the other modules say what they do.
Dispatched(s) ==
    /\ AtEnd(s)
    /\ Finish(s)
    /\ UNCHANGED <<ops, faults, spent>>
    /\ LimiterSame /\ BlacklistSame

MessageStep(s) ==
    \/ Arrive(s) \/ Limit(s)
    \/ LookUp(s) \/ ReadRow(s) \/ FillCache(s) \/ Dispatched(s)

-----------------------------------------------------------------------------

LimiterStep ==
    /\ Tick \/ Cleanup \/ Observe
    /\ UNCHANGED <<handlers, loop, ops, faults, spent>>
    /\ BlacklistSame

Manage ==
    /\ \E e \in Editors : EditStep(e)
    /\ UNCHANGED <<handlers, loop, ops, faults, spent>>
    /\ LimiterSame

Timeout ==
    /\ WaitEnds
    /\ UNCHANGED <<faults, spent>>
    /\ LimiterSame /\ BlacklistSame

Crash ==
    /\ ProcessDies
    /\ LimiterRestarts
    /\ BlacklistRestarts
    /\ spent' = {}
    /\ UNCHANGED faults

\* No more messages come.
Done == ops = MaxOps /\ Idle /\ UNCHANGED vars

Next ==
    \/ \E s \in Slots : MessageStep(s)
    \/ LimiterStep \/ Manage \/ Timeout \/ Crash \/ Done

Spec == Init /\ [][Next]_vars

-----------------------------------------------------------------------------
(* Properties. *)

(***************************************************************************)
(* A message from a source whose blocking was complete when the message    *)
(* came, and has not been undone, reaches no command, whatever checks and  *)
(* edits run beside it, a storage that cannot be read included.            *)
(***************************************************************************)
BarredStayOut == \A s \in Slots : AtEnd(s) => due[s] = {}

(***************************************************************************)
(* Nor does it take a token from the bucket it shares with others: a       *)
(* blocked user cannot use up the messages of a group.                     *)
(***************************************************************************)
BarredSpendNothing ==
    \A s \in spent : Running(s) => due[s] = {}

=============================================================================
