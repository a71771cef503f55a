------------------------------- MODULE Services -----------------------------
(***************************************************************************)
(* The event loop among the services it shares with the rest of the        *)
(* process: the router, the permission checker and the event bus decide    *)
(* what a message or a guild event runs, the admin panel is told of it,    *)
(* requests to the panel use the scheduler and may stop the bot, and the   *)
(* shutdown stops the scheduler, cancels the context and closes the bus.   *)
(* Beside them are the cache and the adapter's session.                    *)
(*                                                                         *)
(* A message is handled in a goroutine of its own, for which the loop      *)
(* waits at most 30 seconds.  A guild event is handled by the loop itself; *)
(* here it has a slot too, and no timer.                                   *)
(*                                                                         *)
(* Each behaviour has a load, the parts of the environment that do         *)
(* anything in it.  Faults, beside those of the parts: "timeout", a        *)
(* handler is slow; "hang", a listener or a command never returns.         *)
(***************************************************************************)
EXTENDS MessageLoop, Router, EventBus, EventStream, Scheduler, AdminPanel,
        TTLCache, Reconnect

CONSTANTS
    Loads,       \* records [load, faults]
    Chatter,     \* a word that is no command's
    MaxEdits     \* bound: commands and listeners registered or taken away

\* The goroutine of the loop publishes events of its own; the panel's stop
\* button calls the shutdown, as a signal does.
LoopTeller == "loop"
Panel == "panel"

ASSUME ServicesAssumption ==
    /\ LoopTeller \notin Slots /\ Tellers = Slots \cup {LoopTeller}
    /\ Panel \in Callers
    /\ {"message", "guild"} \subseteq EventTypes
    /\ Chatter \in Words
    /\ MaxEdits \in Nat \ {0}
    /\ \A l \in Loads : "crash" \in l.faults => l.load \subseteq {"requests", "time"}

VARIABLES
    load,        \* which parts of the environment act
    cancelled,   \* the bot's context is cancelled
    edits        \* registrations so far

loopVars == <<handlers, loop, ops>>
shutdownVars == <<cancelled, edits>>
vars == <<loopVars, faults, load, routerVars, busVars, streamVars,
          schedulerVars, panelVars, cacheVars, clock, sessionVars,
          shutdownVars>>

Handler ==
    [op : {"message", "guild"},
     pc : {"route", "denied", "tell", "run", "listen", "hung"},
     word : Words, role : Roles, cmd : CommandOr,
     left : Seq(Listeners),
     ran : Seq(Listeners),           \* auxiliary
     heard : SUBSET Listeners,       \* auxiliary: those subscribed
     meant : SUBSET Commands]        \* auxiliary: those the word may mean

\* The types of the state of all parts.
TypeOK ==
    /\ RouterTypeOK /\ BusTypeOK /\ StreamTypeOK /\ SchedulerTypeOK
    /\ PanelTypeOK /\ CacheTypeOK /\ ReconnectTypeOK
    /\ handlers \in [Slots -> Handler \cup {None}]
    /\ loop \in Slots \cup {None}
    /\ ops \in 0 .. MaxOps /\ edits \in 0 .. MaxEdits
    /\ clock \in 0 .. MaxTime
    /\ cancelled \in BOOLEAN

On(part) == part \in load

\* What a load keeps small, so that its own cases can be many: messages,
\* registrations, requests and clients in a behaviour, and the listeners that
\* are there from the start.
MessagesHere == IF On("commands") THEN 1 ELSE MaxOps
EditsHere == IF On("streams") THEN 1 ELSE MaxEdits
RequestsHere == IF On("jobs") THEN Requests \cap 1 .. 2 ELSE Requests
ClientsHere == IF On("logs") \/ On("commands") THEN 1 ELSE Cardinality(Clients)
ListenersHere == IF On("edits") \/ On("streams") THEN {} ELSE Listeners

Init ==
    /\ \E l \in Loads : load = l.load /\ faults = l.faults
    /\ handlers = [s \in Slots |-> None] /\ loop = None /\ ops = 0
    /\ RouterInit /\ (On("commands") \/ permissions = <<>>)
    /\ BusInit(ListenersHere)
    /\ StreamInit
    /\ SchedulerInit
    /\ PanelInit /\ (On("time") \/ password = NoPassword)
    /\ CacheInit /\ clock = 0
    /\ ReconnectInit
    /\ cancelled = FALSE /\ edits = 0

-----------------------------------------------------------------------------
(* The event loop. *)

\* processRawEvent ends with an event for the panel, if there is a panel.
LoopTells == telling' = IF On("streams") THEN Ask(LoopTeller) ELSE telling

HasTold(t) == telling[t].pc = "no"

Fresh(op, pc, word, role) ==
    [op |-> op, pc |-> pc, word |-> word, role |-> role, cmd |-> NoCommand,
     left |-> <<>>, ran |-> <<>>, heard |-> {}, meant |-> {}]

\* Publish has copied and sorted the listeners of a type.
Heard(h, type) == [h EXCEPT !.pc = "listen", !.left = Sorted(listeners[type]),
                            !.heard = ToSet(listeners[type])]

OtherThanLoop == <<faults, load, routerVars, busVars, schedulerVars, panelVars,
                   cacheVars, clock, sessionVars, shutdownVars>>
OtherThanTelling == <<clients, registered, instant, logVars, panics>>

\* The loop takes a message.
TakeMessage(s) ==
    /\ On("events") \/ On("commands")
    /\ ops < MessagesHere
    /\ cron # "none"
    /\ HasTold(s) /\ HasTold(LoopTeller)
    /\ \E word \in IF On("commands") THEN Words ELSE {Chatter},
          role \in IF On("commands") THEN Roles ELSE {""} :
          Take(s, Fresh("message", "route", word, role))
    /\ UNCHANGED <<telling, OtherThanTelling, OtherThanLoop>>

\* The loop takes a guild event, an interaction for instance.
TakeGuildEvent(s) ==
    /\ On("events")
    /\ cron # "none"
    /\ HasTold(s) /\ HasTold(LoopTeller)
    /\ Take(s, Heard(Fresh("guild", "listen", Chatter, ""), "guild"))
    /\ UNCHANGED <<telling, OtherThanTelling, OtherThanLoop>>

Registered == {commands[w] : w \in Words} \ {NoCommand}

\* Resolve, then the permission check; or the listeners, as they are now.
Route(s) ==
    LET h == handlers[s]
        cmd == Resolve(h.word)
        after == [h EXCEPT !.cmd = cmd,
                           !.meant = {c \in Registered : Answers(c, h.word)}]
    IN
    /\ At(s, "message", "route")
    /\ \/ /\ cmd = NoCommand
          /\ handlers' = [handlers EXCEPT ![s] = Heard(after, "message")]
          /\ UNCHANGED telling
       \/ /\ cmd # NoCommand /\ ~ Allowed(Required(cmd), h.role)
          /\ handlers' = [handlers EXCEPT ![s] = [after EXCEPT !.pc = "denied"]]
          /\ UNCHANGED telling
       \/ /\ cmd # NoCommand /\ Allowed(Required(cmd), h.role)
          /\ handlers' = [handlers EXCEPT ![s] = [after EXCEPT !.pc = "tell"]]
          /\ telling' = IF On("streams") THEN Ask(s) ELSE telling
    /\ UNCHANGED <<loop, ops, OtherThanTelling, OtherThanLoop>>

\* The panel has been told of the command.
RunCommand(s) ==
    /\ At(s, "message", "tell") /\ HasTold(s)
    /\ Goto(s, "run")
    /\ UNCHANGED <<ops, streamVars, OtherThanLoop>>

\* Publish calls the next listener, unless the context is cancelled.
Listen(s) ==
    /\ Running(s) /\ handlers[s].pc = "listen"
    /\ handlers[s].left # <<>> /\ ~ cancelled
    /\ handlers' = [handlers EXCEPT ![s].left = Tail(@),
                        ![s].ran = Append(@, Head(handlers[s].left))]
    /\ UNCHANGED <<loop, ops, streamVars, OtherThanLoop>>

\* A listener or a command does not return.
Hang(s) ==
    /\ "hang" \in faults
    /\ Running(s)
    /\ \/ handlers[s].pc = "run"
       \/ handlers[s].pc = "listen" /\ handlers[s].left # <<>> /\ ~ cancelled
    /\ Goto(s, "hung")
    /\ UNCHANGED <<ops, streamVars, OtherThanLoop>>

\* The command, or Publish, has returned.
Return(s) ==
    /\ Running(s)
    /\ \/ handlers[s].pc \in {"denied", "run"}
       \/ handlers[s].pc = "listen" /\ (handlers[s].left = <<>> \/ cancelled)
    /\ Finish(s)
    /\ IF loop = s THEN LoopTells ELSE UNCHANGED telling
    /\ UNCHANGED <<ops, OtherThanTelling, OtherThanLoop>>

\* The loop stops waiting for a message: thirty seconds are over, or the
\* context is cancelled.
Abandon ==
    /\ loop # None
    /\ handlers[loop].op = "message"
    /\ "timeout" \in faults \/ handlers[loop].pc = "hung" \/ cancelled
    /\ loop' = None
    /\ LoopTells
    /\ UNCHANGED <<handlers, ops, OtherThanTelling, OtherThanLoop>>

HandlerStep(s) == Route(s) \/ RunCommand(s) \/ Listen(s) \/ Return(s)

LoopStep ==
    \/ \E s \in Slots :
         TakeMessage(s) \/ TakeGuildEvent(s) \/ HandlerStep(s) \/ Hang(s)
    \/ Abandon

-----------------------------------------------------------------------------
(* What else goes on. *)

\* Commands are registered while the plugins are initialised: the router has
\* no mutex.  The bus has one, and plugins may keep it.
Edit ==
    /\ edits < EditsHere
    /\ edits' = edits + 1
    /\ \/ /\ On("commands") /\ cron = "none"
          /\ \/ \E c \in Commands : Register(c)
             \/ \E w \in Words : Unregister(w)
          /\ UNCHANGED busVars
       \/ /\ On("edits")
          /\ \/ \E l \in Listeners : Subscribe(l)
             \/ \E t \in EventTypes : Unsubscribe(t)
          /\ UNCHANGED routerVars
    /\ UNCHANGED <<loopVars, faults, load, streamVars, schedulerVars, panelVars,
                   cacheVars, clock, sessionVars, cancelled>>

Publish(t) == PublishStep(t) /\ UNCHANGED <<loopVars, OtherThanLoop>>

Stream ==
    /\ \/ /\ On("streams")
          /\ \E c \in Clients :
               \/ /\ Cardinality({d \in Clients : clients[d].pc # "none"})
                        < ClientsHere
                  /\ Connect(c, faults)
               \/ SetCursor(c, faults)
               \/ Push(c) \/ Receive(c) \/ Disconnect(c)
       \/ /\ On("logs")
          /\ \/ \E w \in Writers :
                  Stamp(w, faults) \/ Insert(w, faults) \/ Commit(w, faults)
             \/ CleanUpLogs
    /\ UNCHANGED <<loopVars, OtherThanLoop>>

OtherThanSchedule == <<loopVars, faults, load, routerVars, busVars, streamVars,
                       cacheVars, clock, shutdownVars>>

\* Run starts the scheduler before anything that could use it.
Schedule ==
    /\ Start \/ (On("jobs") /\ SchedulerStep)
    /\ UNCHANGED <<OtherThanSchedule, panelVars, sessionVars>>

HttpUp == cron # "none" /\ \A c \in Callers : stopping[c] # "stopped"

\* Requests to the panel: the dashboard lists the tasks, which needs the
\* scheduler's mutex, and the button calls the shutdown.  (What a second
\* press does is Lifecycle's.)
Serve ==
    /\ On("requests")
    /\ \E r \in RequestsHere :
         \/ HttpUp /\ Arrive(r) /\ UNCHANGED schedulerVars
         \/ RequestStep(r, faults) /\ UNCHANGED schedulerVars
         \/ ServePage(r, "tasks") /\ MutexFree /\ UNCHANGED schedulerVars
         \/ /\ ServePage(r, "stop")
            /\ IF stopping[Panel] = "idle" THEN AskStop(Panel)
               ELSE UNCHANGED schedulerVars
    /\ UNCHANGED <<OtherThanSchedule, sessionVars>>

\* The process dies and is started again.  Behaviours in which it may are
\* about the panel, and nothing else has happened in them.
Restart ==
    /\ On("requests")
    /\ \A c \in Callers : stopping[c] = "idle"
    /\ PanelRestarts(faults)
    /\ UNCHANGED <<OtherThanSchedule, schedulerVars, sessionVars>>

Session ==
    /\ On("session")
    /\ SessionStep
    /\ UNCHANGED <<OtherThanSchedule, schedulerVars, panelVars>>

\* The steps of it that wait for nothing but a timer.
SessionGoesOn == Session /\ OwnStep

Cache ==
    /\ On("cache")
    /\ CacheStep
    /\ UNCHANGED <<loopVars, faults, load, routerVars, busVars, streamVars,
                   schedulerVars, panelVars, sessionVars, shutdownVars>>

Time ==
    /\ On("time")
    /\ ClockTicks
    /\ UNCHANGED <<loopVars, faults, load, routerVars, busVars, streamVars,
                   schedulerVars, panelVars, cacheVars, sessionVars,
                   shutdownVars>>

-----------------------------------------------------------------------------
(* The shutdown, as far as these parts see it: a signal, or the panel; the *)
(* scheduler; the HTTP server and the adapter; the context; the bus.       *)

Signal ==
    /\ On("stop") /\ cron # "none"
    /\ \E c \in Callers \ {Panel} : AskStop(c)
    /\ UNCHANGED <<OtherThanSchedule, panelVars, sessionVars>>

StopScheduler(c) ==
    /\ StopLock(c) \/ StopReturn(c)
    /\ UNCHANGED <<OtherThanSchedule, panelVars, sessionVars>>

StopSession ==
    /\ \E c \in Callers : stopping[c] = "stopped"
    /\ StopAdapter
    /\ UNCHANGED <<OtherThanSchedule, schedulerVars, panelVars>>

Cancel ==
    /\ adapterStopped /\ ~ cancelled
    /\ cancelled' = TRUE
    /\ UNCHANGED <<loopVars, faults, load, routerVars, busVars, streamVars,
                   schedulerVars, panelVars, cacheVars, clock, sessionVars,
                   edits>>

\* Five seconds later at the latest, whoever is still at work.
CloseServices ==
    /\ cancelled /\ ~ closed
    /\ CloseBus
    /\ UNCHANGED <<loopVars, faults, load, routerVars, streamVars,
                   schedulerVars, panelVars, cacheVars, clock, sessionVars,
                   shutdownVars>>

Shutdown ==
    \/ Signal
    \/ \E c \in Callers : StopScheduler(c)
    \/ StopSession
    \/ Cancel
    \/ CloseServices

Next ==
    \/ LoopStep \/ Edit \/ Stream \/ (\E t \in Tellers : Publish(t)) \/ Schedule
    \/ Serve \/ Restart \/ Session \/ Cache \/ Time
    \/ Shutdown

(***************************************************************************)
(* Goroutines that can go on do: handlers that do not hang, the publishing *)
(* of events, the loop's timer, jobs, calls of Stop, and the adapter's     *)
(* goroutine.  Nothing is assumed of what comes from outside.              *)
(***************************************************************************)
Fairness ==
    /\ \A s \in Slots : WF_vars(HandlerStep(s))
    /\ \A t \in Tellers : WF_vars(Publish(t))
    /\ WF_vars(Abandon)
    /\ SchedulerFairness
    /\ WF_vars(SessionGoesOn)

Spec == Init /\ [][Next]_vars /\ Fairness

-----------------------------------------------------------------------------

(***************************************************************************)
(* The loop is done with every event: it waits for no message for ever,    *)
(* whatever its command does, and publishing an event for the panel waits  *)
(* for no client.  The exception is a listener of a guild event that does  *)
(* not return: there is no timer for it, and no event after it is taken.   *)
(***************************************************************************)
Busy == loop # None \/ ~ HasTold(LoopTeller)
GuildEventHangs ==
    loop # None /\ At(loop, "guild", "hung")

LoopGoesOn == Busy ~> ~ Busy \/ GuildEventHangs

(***************************************************************************)
(* A message's command is one that it names or gives an alias of, by name  *)
(* before alias, and there is a command whenever there is such a one.      *)
(* Which is meant is not clear when a name or an alias was registered      *)
(* again.  Even so the author is refused exactly if the level in the       *)
(* settings does not admit the role, as the comments of the checker put    *)
(* it, or for one of the two reasons they do not know: a command without   *)
(* an entry is not public but has its own level, and public in a list is   *)
(* not everyone.                                                           *)
(***************************************************************************)
RunsWhatIsMeant ==
    \A s \in Slots :
        LET h == handlers[s] IN
        Running(s) /\ h.op = "message" /\ h.pc # "route" =>
            /\ clash \/ (h.cmd = NoCommand <=> h.meant = {})
            /\ h.cmd # NoCommand =>
                 /\ clash \/ h.cmd \in h.meant
                 /\ \A c \in h.meant : c.name = h.word => h.cmd = c
                 /\ h.pc = "denied" <=>
                      \/ h.role \notin Admits(Documented(h.cmd))
                      \/ Unlisted(h.cmd, h.role)
                      \/ NotInTheList(h.cmd, h.role)

(***************************************************************************)
(* Whoever was subscribed when the event was taken is called, or is still  *)
(* to be called, once, and those with a lower Order before the others.     *)
(***************************************************************************)
ListenersInOrder ==
    \A s \in Slots :
        LET h == handlers[s] IN
        Running(s) =>
            LET all == h.ran \o h.left IN
            /\ Len(all) = Cardinality(h.heard) /\ ToSet(all) = h.heard
            /\ \A i, j \in DOMAIN all : i < j => all[i].order <= all[j].order

\* What a client of the stream is shown of the log.
LogsShown == StreamExact(faults)

=============================================================================
