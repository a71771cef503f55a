------------------------------ MODULE Lifecycle -----------------------------
(***************************************************************************)
(* The running bot, from the adapter's event channel to the end of the     *)
(* process.  The adapter's session puts events on a bounded channel and    *)
(* drops what does not fit; the event loop takes one event at a time,      *)
(* records it and runs a message's handler in a goroutine of its own, for  *)
(* which it waits at most 30 seconds; a log cleanup runs beside it.  A     *)
(* signal, the admin panel's shutdown button or its restart button run     *)
(* Bot.shutdown, each in its own goroutine and none aware of the others.   *)
(*                                                                         *)
(* Events are numbered as they are received and a handler's goroutine has  *)
(* its event's number.  A timer may fire at any moment.  The module        *)
(* implements the loop of MessageLoop, see LoopRuns.                       *)
(***************************************************************************)
EXTENDS Naturals, Sequences, FiniteSets, SequencesExt

CONSTANTS
    Capacity,    \* of the event channel (512 or 256 in the code)
    MaxEvents,   \* bound: events received in a behaviour
    Callers      \* the shutdown requests: "signal", "button", "restart"

ASSUME LifecycleAssumption ==
    /\ Capacity \in Nat
    /\ MaxEvents \in Nat
    /\ Callers \subseteq {"signal", "button", "restart"}

Events == 1 .. MaxEvents
Resource == {"http", "events", "bus", "storage", "limiter"}
Phase == {"idle", "asked", "adapter", "session", "close", "cancel", "wait",
          "bus", "storage", "limiter", "done"}

VARIABLES
    process,     \* "running", "panicked" or "exited"
    session,     \* the adapter's session can still deliver events
    received,    \* the number of events the session has delivered
    buffer,      \* the event channel
    lost,        \* events that found the channel full, or closed
    taken,       \* auxiliary: the events the loop has taken, in order
    loop,        \* where the event loop is
    current,     \* the event it works on, or 0
    running,     \* the events whose handler runs
    started,     \* auxiliary: the events whose handler was started
    cleaning,    \* the log cleanup goroutine has not returned
    cancelled,   \* the bot's context is cancelled
    open,        \* what has not been closed yet
    phase,       \* where each shutdown is
    gaveUp       \* auxiliary: the waits of a shutdown that its timer ended

channel == <<received, buffer, lost>>
work == <<taken, loop, current, running, started>>
closing == <<cancelled, open, phase, gaveUp>>
vars == <<process, session, channel, work, cleaning, closing>>

TypeOK ==
    /\ process \in {"running", "panicked", "exited"}
    /\ session \in BOOLEAN
    /\ received \in 0 .. MaxEvents
    /\ buffer \in Seq(Events) /\ Len(buffer) <= Capacity
    /\ lost \subseteq Events
    /\ taken \in Seq(Events)
    /\ loop \in {"select", "record", "publish", "wait", "returned"}
    /\ current \in Events \cup {0}
    /\ loop \in {"select", "returned"} <=> current = 0
    /\ running \subseteq started /\ started \subseteq Events
    /\ cleaning \in BOOLEAN
    /\ cancelled \in BOOLEAN
    /\ open \subseteq Resource
    /\ phase \in [Callers -> Phase]
    /\ gaveUp \subseteq {"session", "goroutines"}

(***************************************************************************)
(* With placeholder credentials the adapter starts no session; the HTTP    *)
(* server, with the admin panel, and the log cleanup may be disabled.      *)
(***************************************************************************)
Init ==
    /\ process = "running"
    /\ session \in BOOLEAN
    /\ received = 0
    /\ buffer = <<>>
    /\ lost = {}
    /\ taken = <<>>
    /\ loop = "select"
    /\ current = 0
    /\ running = {}
    /\ started = {}
    /\ cleaning \in BOOLEAN
    /\ cancelled = FALSE
    /\ open \in {Resource, Resource \ {"http"}}
    /\ phase = [c \in Callers |-> "idle"]
    /\ gaveUp = {}

-----------------------------------------------------------------------------
(* The end of the process: its goroutines are gone. *)

ProcessEnds(how) ==
    /\ process' = how
    /\ session' = FALSE
    /\ cleaning' = FALSE
    /\ loop' = "returned"
    /\ current' = 0
    /\ running' = {}
    /\ UNCHANGED <<taken, started, cancelled, open, gaveUp>>

-----------------------------------------------------------------------------
(* The adapter. *)

\* Mutant: a full channel makes room by dropping its oldest event.
ReceiveEvicting ==
    /\ session /\ received < MaxEvents
    /\ received' = received + 1
    /\ "events" \in open
    /\ buffer' = IF Len(buffer) < Capacity THEN Append(buffer, received')
                 ELSE Append(Tail(buffer), received')
    /\ UNCHANGED <<process, session, lost, work, cleaning, closing>>

(***************************************************************************)
(* emitEvent: a send that does not block.  On a closed channel it panics;  *)
(* whether that ends the process is up to the library that called it.      *)
(***************************************************************************)
Receive ==
    /\ session /\ received < MaxEvents
    /\ received' = received + 1
    /\ \/ /\ "events" \in open /\ Len(buffer) < Capacity
          /\ buffer' = Append(buffer, received')
          /\ UNCHANGED <<process, session, lost, work, cleaning, closing>>
       \/ /\ "events" \in open => Len(buffer) = Capacity
          /\ lost' = lost \cup {received'}
          /\ UNCHANGED <<process, session, buffer, work, cleaning, closing>>
       \/ /\ "events" \notin open
          /\ lost' = lost \cup {received'}
          /\ ProcessEnds("panicked")
          /\ UNCHANGED <<buffer, phase>>

\* The session is over: its context was cancelled, or it ended cleanly.
SessionEnds ==
    /\ session
    /\ session' = FALSE
    /\ UNCHANGED <<process, channel, work, cleaning, closing>>

-----------------------------------------------------------------------------
(* The event loop. *)

LoopSame == UNCHANGED <<process, session, received, lost, cleaning, closing>>

\* A message, another event, or one that is not understood.
LoopTake ==
    /\ loop = "select"
    /\ buffer # <<>>
    /\ buffer' = Tail(buffer)
    /\ taken' = Append(taken, Head(buffer))
    /\ \/ /\ loop' \in {"record", "publish"}
          /\ current' = Head(buffer)
       \/ UNCHANGED <<loop, current>>
    /\ UNCHANGED <<running, started>>
    /\ LoopSame

LoopReturn ==
    /\ loop = "select"
    /\ cancelled \/ ("events" \notin open /\ buffer = <<>>)
    /\ loop' = "returned"
    /\ UNCHANGED <<buffer, taken, current, running, started>>
    /\ LoopSame

\* Mutant: the loop does not wait for the handler.
LoopStartAsync ==
    /\ loop = "record"
    /\ loop' = "select"
    /\ current' = 0
    /\ running' = running \cup {current}
    /\ started' = started \cup {current}
    /\ UNCHANGED <<buffer, taken>>
    /\ LoopSame

\* The message is recorded and its handler started.
LoopStart ==
    /\ loop = "record"
    /\ loop' = "wait"
    /\ running' = running \cup {current}
    /\ started' = started \cup {current}
    /\ UNCHANGED <<buffer, taken, current>>
    /\ LoopSame

\* Mutant: the event is not forgotten.
LoopSelectStale ==
    /\ loop' = "select"
    /\ UNCHANGED <<buffer, taken, current, running, started>>
    /\ LoopSame

LoopSelect ==
    /\ loop' = "select"
    /\ current' = 0
    /\ UNCHANGED <<buffer, taken, running, started>>
    /\ LoopSame

\* The listeners of another event run in the loop itself.
LoopPublish == loop = "publish" /\ LoopSelect

\* Mutant: the wait for a handler has no timer.
LoopWaitUntimed == loop = "wait" /\ cancelled /\ LoopSelect

\* Thirty seconds are over, or the bot's context is cancelled.
LoopWaitEnds == loop = "wait" /\ LoopSelect

HandlerReturns ==
    /\ \E e \in running :
         /\ running' = running \ {e}
         /\ IF loop = "wait" /\ current = e
            THEN loop' = "select" /\ current' = 0
            ELSE UNCHANGED <<loop, current>>
    /\ UNCHANGED <<buffer, taken, started>>
    /\ LoopSame

\* The log cleanup goroutine ends its round and sees the context.
CleanupReturns ==
    /\ cleaning /\ cancelled
    /\ cleaning' = FALSE
    /\ UNCHANGED <<process, session, channel, work, closing>>

-----------------------------------------------------------------------------
(* Bot.shutdown. *)

ShutdownSame == UNCHANGED <<process, session, channel, work, cleaning>>

To(c, p) == phase' = [phase EXCEPT ![c] = p]

Ask(c) ==
    /\ phase[c] = "idle"
    /\ c = "signal" \/ "http" \in open
    /\ To(c, "asked")
    /\ UNCHANGED <<cancelled, open, gaveUp>>
    /\ ShutdownSame

\* Stop the scheduler, which no plugin uses, and the HTTP server.
StopServers(c) ==
    /\ phase[c] = "asked"
    /\ open' = open \ {"http"}
    /\ To(c, "adapter")
    /\ UNCHANGED <<cancelled, gaveUp>>
    /\ ShutdownSame

\* The adapter tells its session to end ...
StopAdapter(c) ==
    /\ phase[c] = "adapter"
    /\ To(c, "session")
    /\ UNCHANGED <<cancelled, open, gaveUp>>
    /\ ShutdownSame

\* Mutant: ... and does not wait for it.
AwaitNoSession(c) ==
    /\ phase[c] = "session"
    /\ To(c, "close")
    /\ UNCHANGED <<cancelled, open, gaveUp>>
    /\ ShutdownSame

\* Mutant: ... and waits for it as long as it takes.
AwaitSessionUntimed(c) ==
    /\ phase[c] = "session"
    /\ ~ session
    /\ To(c, "close")
    /\ UNCHANGED <<cancelled, open, gaveUp>>
    /\ ShutdownSame

\* ... waits for it, but no longer than its timer says ...
AwaitSession(c) ==
    /\ phase[c] = "session"
    /\ gaveUp' = IF session THEN gaveUp \cup {"session"} ELSE gaveUp
    /\ To(c, "close")
    /\ UNCHANGED <<cancelled, open>>
    /\ ShutdownSame

\* ... and closes the channel, which panics the second time.
CloseEvents(c) ==
    /\ phase[c] = "close"
    /\ \/ /\ "events" \in open
          /\ open' = open \ {"events"}
          /\ To(c, "cancel")
          /\ UNCHANGED <<cancelled, gaveUp>>
          /\ ShutdownSame
       \/ /\ "events" \notin open
          /\ ProcessEnds("panicked")
          /\ UNCHANGED <<channel, phase>>

Cancel(c) ==
    /\ phase[c] = "cancel"
    /\ cancelled' = TRUE
    /\ To(c, "wait")
    /\ UNCHANGED <<open, gaveUp>>
    /\ ShutdownSame

\* Mutant: the wait group counts the event loop only.
AwaitLoopOnly(c) ==
    /\ phase[c] = "wait"
    /\ gaveUp' = IF loop = "returned" THEN gaveUp
                 ELSE gaveUp \cup {"goroutines"}
    /\ To(c, "bus")
    /\ UNCHANGED <<cancelled, open>>
    /\ ShutdownSame

\* Wait for the event loop and the log cleanup, at most five seconds.
AwaitGoroutines(c) ==
    /\ phase[c] = "wait"
    /\ gaveUp' = IF loop = "returned" /\ ~ cleaning THEN gaveUp
                 ELSE gaveUp \cup {"goroutines"}
    /\ To(c, "bus")
    /\ UNCHANGED <<cancelled, open>>
    /\ ShutdownSame

\* The event bus, the storage and the rate limiter, in this order.
Close(c) ==
    /\ phase[c] \in {"bus", "storage", "limiter"}
    /\ open' = open \ {phase[c]}
    /\ To(c, CASE phase[c] = "bus" -> "storage"
               [] phase[c] = "storage" -> "limiter"
               [] phase[c] = "limiter" -> "done")
    /\ UNCHANGED <<cancelled, gaveUp>>
    /\ ShutdownSame

(***************************************************************************)
(* The button's goroutine exits; Run returns and main exits; a restart     *)
(* exits if it could start the new process and goes on if not.             *)
(***************************************************************************)
Exit(c) ==
    /\ phase[c] = "done"
    /\ ProcessEnds("exited")
    /\ UNCHANGED <<channel, phase>>

ShutdownStep(c) ==
    \/ StopServers(c) \/ StopAdapter(c) \/ AwaitSession(c) \/ CloseEvents(c)
    \/ Cancel(c) \/ AwaitGoroutines(c) \/ Close(c)

-----------------------------------------------------------------------------

LoopStep ==
    \/ LoopTake \/ LoopReturn \/ LoopStart \/ LoopPublish \/ LoopWaitEnds

Stopped == process # "running" /\ UNCHANGED vars

Next ==
    \/ /\ process = "running"
       /\ \/ Receive \/ SessionEnds
          \/ LoopStep \/ HandlerReturns \/ CleanupReturns
          \/ \E c \in Callers : Ask(c) \/ ShutdownStep(c) \/ Exit(c)
    \/ Stopped

(***************************************************************************)
(* The loop and a shutdown keep going: each of their waits has a timer.    *)
(* Nothing is assumed of handlers, of the session, or of the log cleanup.  *)
(***************************************************************************)
Fairness ==
    /\ WF_vars(process = "running" /\ LoopStep)
    /\ \A c \in Callers : WF_vars(process = "running" /\ ShutdownStep(c))

Spec == Init /\ [][Next]_vars /\ Fairness

-----------------------------------------------------------------------------
(* Properties. *)

(***************************************************************************)
(* Every event that was received is in exactly one place: taken by the     *)
(* loop, in the channel, or counted as lost; and the loop takes events in  *)
(* the order they were received.                                           *)
(***************************************************************************)
AcceptedInOrder ==
    LET accepted == taken \o buffer IN
    /\ \A i, j \in DOMAIN accepted : i < j => accepted[i] < accepted[j]
    /\ ToSet(accepted) \cap lost = {}
    /\ ToSet(accepted) \cup lost = 1 .. received

(***************************************************************************)
(* The storage is closed only when the event loop and the log cleanup have *)
(* returned, unless they took more than the five seconds they are given.   *)
(***************************************************************************)
StorageOutlivesLoop ==
    process = "running" /\ "storage" \notin open /\ "goroutines" \notin gaveUp
        => loop = "returned" /\ ~ cleaning

(***************************************************************************)
(* A single shutdown whose session ends in time does not panic: nothing is *)
(* sent on the closed event channel and nothing is closed twice.           *)
(***************************************************************************)
PanicNeedsCause ==
    process = "panicked" =>
        \/ "session" \in gaveUp
        \/ Cardinality({c \in Callers : phase[c] # "idle"}) > 1

(***************************************************************************)
(* An event on the channel is taken sooner or later, however many handlers *)
(* hang, unless the bot is stopped first.                                  *)
(***************************************************************************)
EventsAreTaken ==
    \A e \in Events :
        e \in ToSet(buffer) ~>
            e \in ToSet(taken) \/ cancelled \/ process # "running"

(***************************************************************************)
(* A shutdown that was requested closes everything or ends with the        *)
(* process, whatever hangs.                                                *)
(***************************************************************************)
ShutdownEnds ==
    \A c \in Callers :
        phase[c] = "asked" ~> phase[c] = "done" \/ process # "running"

(***************************************************************************)
(* The loop that the plugin modules build on: every step of this module is *)
(* a step of MessageLoop's loop, or one it does not see.                   *)
(***************************************************************************)
Loop == INSTANCE MessageLoop WITH
    Slots <- Events, None <- 0, MaxOps <- MaxEvents,
    handlers <- [e \in Events |-> IF e \in running THEN e ELSE 0],
    loop <- IF loop = "wait" THEN current ELSE 0,
    ops <- Cardinality(started),
    faults <- {"timeout", "crash"}

LoopRuns ==
    [][\/ \E e \in Events : Loop!Take(e, e) \/ Loop!Finish(e)
       \/ Loop!WaitEnds
       \/ Loop!ProcessDies]_<<running, started, loop = "wait">>

(***************************************************************************)
(* bot.go:805 says that a shutdown waits, with a timeout, for "goroutines  *)
(* to finish (event loop, cleanup, etc.)".  The goroutines of the handlers *)
(* are not among them, and cancelling the context makes the loop abandon   *)
(* the one it waits for: the storage can be closed under it.               *)
(***************************************************************************)
GoroutinesFinish ==
    process = "running" /\ "storage" \notin open /\ gaveUp = {}
        => running = {}

=============================================================================
