------------------------------- MODULE EventBus -----------------------------
(***************************************************************************)
(* internal/bus: listeners by kind of event.  Publish copies the list      *)
(* under the lock, sorts the copy, and calls one listener after the other  *)
(* without the lock.                                                       *)
(***************************************************************************)
EXTENDS Integers, Sequences, FiniteSets, SequencesExt

CONSTANTS
    Listeners,   \* records [name, event, order]
    EventTypes

ASSUME BusAssumption ==
    /\ IsFiniteSet(Listeners)
    /\ \A l \in Listeners : l.event \in EventTypes /\ l.order \in Int

VARIABLES
    listeners,   \* for each type of event, in the order of subscription
    closed       \* the map of listeners is gone

busVars == <<listeners, closed>>

BusTypeOK ==
    /\ listeners \in [EventTypes -> Seq(Listeners)]
    /\ closed \in BOOLEAN

BusInit(subscribed) ==
    /\ listeners = [t \in EventTypes |->
            SetToSeq({l \in subscribed : l.event = t})]
    /\ closed = FALSE

Subscribed(l) == l \in ToSet(listeners[l.event])

\* Subscribe; after Close it writes to a nil map and panics.
Subscribe(l) ==
    /\ ~ closed /\ ~ Subscribed(l)
    /\ listeners' = [listeners EXCEPT ![l.event] = Append(@, l)]
    /\ UNCHANGED closed

\* Unsubscribe: all listeners of a type.
Unsubscribe(t) ==
    /\ listeners' = [listeners EXCEPT ![t] = <<>>]
    /\ UNCHANGED closed

CloseBus ==
    /\ listeners' = [t \in EventTypes |-> <<>>]
    /\ closed' = TRUE

Exchanged(s, i, j) == [s EXCEPT ![i] = s[j], ![j] = s[i]]

\* Mutant: the inner loop starts one too far.
SelectedSkipping(s, i) ==
    LET upto[j \in 0 .. Len(s)] ==
            IF j = 0 THEN s
            ELSE LET t == upto[j - 1] IN
                 IF i + 1 < j /\ t[j].order < t[i].order THEN Exchanged(t, i, j)
                 ELSE t
    IN upto[Len(s)]

\* The inner loop of sortListeners: whatever is after i and has a lower Order
\* is exchanged with what is at i.
Selected(s, i) ==
    LET upto[j \in 0 .. Len(s)] ==       \* i has been compared up to j
            IF j = 0 THEN s
            ELSE LET t == upto[j - 1] IN
                 IF i < j /\ t[j].order < t[i].order THEN Exchanged(t, i, j)
                 ELSE t
    IN upto[Len(s)]

\* sortListeners.  Listeners with the same Order do not keep their order.
Sorted(s) ==
    LET after[i \in 0 .. Len(s)] ==      \* up to i the places are filled
            IF i = 0 THEN s ELSE Selected(after[i - 1], i)
    IN after[Len(s)]

=============================================================================
