----------------------------- MODULE MessageLoop ----------------------------
(***************************************************************************)
(* How internal/bot runs a plugin's command handler.  processMessageEvent  *)
(* starts a goroutine for the handler and waits for it, at most 30         *)
(* seconds; then it takes the next event while the handler goes on, nobody *)
(* having told it to stop.  A process that dies takes its handlers with it *)
(* and leaves the tables.                                                  *)
(*                                                                         *)
(* The modules that extend this one say what a handler is (a record with a *)
(* place pc and a command op) and what the steps of the commands do.       *)
(***************************************************************************)
EXTENDS Integers

CONSTANTS
    Slots,      \* names for the goroutines a handler can run in
    None,       \* no handler in a slot; the loop waits for nobody
    MaxOps      \* bound: commands in a behaviour

ASSUME LoopAssumption == None \notin Slots /\ MaxOps \in Nat

VARIABLES
    handlers,   \* the handler that runs in each slot, or None
    loop,       \* the slot processMessageEvent waits for, or None
    ops,        \* commands taken so far
    faults      \* which faults the environment may show in this behaviour

Running(s) == handlers[s] # None
At(s, op, pc) == Running(s) /\ handlers[s].op = op /\ handlers[s].pc = pc
Idle == \A s \in Slots : ~ Running(s)

\* Mutant: the loop is not told that the handler has returned.
FinishUnnoticed(s) == handlers' = [handlers EXCEPT ![s] = None] /\ loop' = loop

\* Handler s returns.  If the event loop still waits for it, the loop goes on.
Finish(s) ==
    /\ handlers' = [handlers EXCEPT ![s] = None]
    /\ loop' = IF loop = s THEN None ELSE loop

Goto(s, pc) ==
    /\ handlers' = [handlers EXCEPT ![s].pc = pc]
    /\ loop' = loop

\* The loop takes a message that is a command and starts a handler for it.
Take(s, h) ==
    /\ loop = None
    /\ ~ Running(s)
    /\ ops < MaxOps
    /\ handlers' = [handlers EXCEPT ![s] = h]
    /\ loop' = s
    /\ ops' = ops + 1

\* Thirty seconds are over: the loop goes on, the handler too.
WaitEnds ==
    /\ "timeout" \in faults
    /\ loop # None
    /\ loop' = None
    /\ UNCHANGED <<handlers, ops>>

\* The process dies and is started again.
ProcessDies ==
    /\ "crash" \in faults
    /\ ~ Idle
    /\ handlers' = [s \in Slots |-> None]
    /\ loop' = None
    /\ UNCHANGED ops

=============================================================================
