------------------------------ MODULE Scheduler -----------------------------
(***************************************************************************)
(* internal/scheduler.  Plugins register functions under a cron            *)
(* expression; a library (external) runs each entry in a goroutine of its  *)
(* own when it is due.  Every operation holds the scheduler's mutex, and   *)
(* Stop holds it while it waits for the running jobs.                      *)
(*                                                                         *)
(* An expression is one of three kinds.  Every checks it with a parser     *)
(* that knows five fields and descriptors (@daily, @every 1h); the library *)
(* is started with one that knows six fields and descriptors.              *)
(***************************************************************************)
EXTENDS Naturals, Sequences, FiniteSets, SequencesExt

CONSTANTS
    Fns,         \* the functions plugins register
    LockingFns,  \* those that call Tasks or HasTasks, and so take the mutex
    Jobs,        \* names for the goroutines the library runs jobs in
    Callers,     \* those who may stop the scheduler
    MaxTasks,    \* bound: functions registered under an expression
    MaxFires     \* bound: jobs started in a behaviour

ASSUME SchedulerAssumption ==
    LockingFns \subseteq Fns /\ {MaxTasks, MaxFires} \subseteq Nat

Spec5 == "five fields"
Spec6 == "six fields"
Specs == {"descriptor", Spec5, Spec6}

VARIABLES
    cron,      \* the library: "none" before Start, "running" or "stopped"
    tasks,     \* for each expression the functions registered under it
    entries,   \* what the library runs: sequences of functions
    jobs,      \* what the job in each goroutine has left to call
    fires,     \* jobs started so far
    stopping   \* where each call of Stop is

schedulerVars == <<cron, tasks, entries, jobs, fires, stopping>>

SchedulerTypeOK ==
    /\ cron \in {"none", "running", "stopped"}
    /\ tasks \in [Specs -> Seq(Fns)]
    /\ entries \subseteq Seq(Fns)
    /\ jobs \in [Jobs -> Seq(Fns)]
    /\ fires \in 0 .. MaxFires
    /\ stopping \in [Callers -> {"idle", "asked", "holds", "stopped"}]

SchedulerInit ==
    /\ cron = "none"
    /\ tasks = [x \in Specs |-> <<>>]
    /\ entries = {}
    /\ jobs = [j \in Jobs |-> <<>>]
    /\ fires = 0
    /\ stopping = [c \in Callers |-> "idle"]

\* The mutex is free: only Stop keeps it from one step to the next.
MutexFree == \A c \in Callers : stopping[c] # "holds"

Accepts(spec) == spec # Spec6
Runs(spec) == spec # Spec5

\* Every: the function is registered, and handed to a library that runs.
Every(spec, fn) ==
    /\ MutexFree
    /\ Accepts(spec) /\ Len(tasks[spec]) < MaxTasks
    /\ tasks' = [tasks EXCEPT ![spec] = Append(@, fn)]
    /\ entries' = IF cron # "none" /\ Runs(spec) THEN entries \cup {<<fn>>}
                  ELSE entries
    /\ UNCHANGED <<cron, jobs, fires, stopping>>

\* Start: one entry for the functions of an expression, called in order.
\* An expression the library refuses is passed over.
Start ==
    /\ MutexFree
    /\ cron = "none"
    /\ cron' = "running"
    /\ entries' = {tasks[x] : x \in {y \in Specs : Runs(y)}} \ {<<>>}
    /\ UNCHANGED <<tasks, jobs, fires, stopping>>

\* The library starts a job.
Fire(j) ==
    /\ cron = "running"
    /\ fires < MaxFires
    /\ jobs[j] = <<>>
    /\ \E e \in entries : jobs' = [jobs EXCEPT ![j] = e]
    /\ fires' = fires + 1
    /\ UNCHANGED <<cron, tasks, entries, stopping>>

Waits(j) == jobs[j] # <<>> /\ Head(jobs[j]) \in LockingFns /\ ~ MutexFree

\* A function of the job returns.
JobStep(j) ==
    /\ jobs[j] # <<>> /\ ~ Waits(j)
    /\ jobs' = [jobs EXCEPT ![j] = Tail(@)]
    /\ UNCHANGED <<cron, tasks, entries, fires, stopping>>

AskStop(c) ==
    /\ stopping[c] = "idle"
    /\ stopping' = [stopping EXCEPT ![c] = "asked"]
    /\ UNCHANGED <<cron, tasks, entries, jobs, fires>>

\* Mutant: Stop waits for the jobs and leaves the library running.
StopLockForgetful(c) ==
    /\ stopping[c] = "asked" /\ MutexFree
    /\ stopping' = [stopping EXCEPT ![c] = "holds"]
    /\ UNCHANGED <<cron, tasks, entries, jobs, fires>>

\* Stop takes the mutex and tells the library, if there is one, ...
StopLock(c) ==
    /\ stopping[c] = "asked" /\ MutexFree
    /\ stopping' = [stopping EXCEPT ![c] = "holds"]
    /\ cron' = IF cron = "none" THEN cron ELSE "stopped"
    /\ UNCHANGED <<tasks, entries, jobs, fires>>

\* ... and returns when no job runs any more.
StopReturn(c) ==
    /\ stopping[c] = "holds"
    /\ cron # "none" => \A j \in Jobs : jobs[j] = <<>>
    /\ stopping' = [stopping EXCEPT ![c] = "stopped"]
    /\ UNCHANGED <<cron, tasks, entries, jobs, fires>>

SchedulerStep ==
    \/ Start
    \/ \E x \in Specs, f \in Fns : Every(x, f)
    \/ \E j \in Jobs : Fire(j) \/ JobStep(j)

-----------------------------------------------------------------------------

(***************************************************************************)
(* A job returns, and a call of Stop gets the mutex if it is free again    *)
(* and again: Go's mutexes are not unfair for ever.                        *)
(***************************************************************************)
SchedulerFairness ==
    /\ \A j \in Jobs : WF_schedulerVars(JobStep(j))
    /\ \A c \in Callers : SF_schedulerVars(StopLock(c))
                          /\ WF_schedulerVars(StopReturn(c))

(***************************************************************************)
(* Stop returns, and what it was called for is true: no task runs any      *)
(* more, and none is started.  The exception is a job that asks for the    *)
(* mutex while Stop holds it: then the two wait for each other, and with   *)
(* them the shutdown, for which there is no timer here.                    *)
(***************************************************************************)
Quiet == cron # "running" /\ \A j \in Jobs : jobs[j] = <<>>

QuietAfter(c) == stopping[c] = "stopped" => Quiet

StopReturns ==
    /\ [](\A c \in Callers : QuietAfter(c))
    /\ \A c \in Callers :
         stopping[c] = "asked" ~>
             stopping[c] = "stopped" \/ \E j \in Jobs : Waits(j)

=============================================================================
