------------------------------- MODULE Reconnect ----------------------------
(***************************************************************************)
(* The goroutine of the WebSocket adapter that keeps a session with QQ.    *)
(* The library's session manager (external) blocks while a session lasts   *)
(* and returns an error when it has ended for good; the goroutine then     *)
(* waits, asks for the gateway's address anew and tries again.  Each wait  *)
(* is twice the last, up to a maximum; the Ready event sets it back.       *)
(* The session manager takes no context: only the goroutine's own waits    *)
(* see that the adapter is stopped.                                        *)
(***************************************************************************)
EXTENDS Naturals, FiniteSets, FiniteSetsExt

CONSTANTS
    InitialWait, \* 100 ms in the code
    MaxWait,     \* 30 s in the code, 300 times as long
    MaxSessions  \* bound: sessions that end

ASSUME ReconnectAssumption ==
    InitialWait \in Nat \ {0} /\ MaxWait \in Nat /\ MaxSessions \in Nat
    /\ InitialWait <= MaxWait

VARIABLES
    session,     \* what the goroutine does
    backoffCur,  \* the next wait
    wait,        \* the present one
    ended,       \* sessions that have ended so far
    failures,    \* auxiliary: those since Ready
    adapterStopped

sessionVars == <<session, backoffCur, wait, ended, failures, adapterStopped>>

ReconnectTypeOK ==
    /\ session \in {"top", "opening", "up", "lost", "waiting", "asking",
                    "returned", "stopped"}
    /\ backoffCur \in InitialWait .. MaxWait
    /\ wait \in 0 .. MaxWait
    /\ ended \in 0 .. MaxSessions
    /\ failures \in 0 .. MaxSessions
    /\ adapterStopped \in BOOLEAN

ReconnectInit ==
    /\ session = "top"
    /\ backoffCur = InitialWait
    /\ wait = 0 /\ ended = 0 /\ failures = 0
    /\ adapterStopped = FALSE

\* The head of the loop: a look at the context, and sessionManager.Start.
TryAgain ==
    /\ session = "top"
    /\ session' = IF adapterStopped THEN "stopped" ELSE "opening"
    /\ UNCHANGED <<backoffCur, wait, ended, failures, adapterStopped>>

\* QQ answers with Ready.
Ready ==
    /\ session = "opening"
    /\ session' = "up"
    /\ backoffCur' = InitialWait
    /\ failures' = 0
    /\ UNCHANGED <<wait, ended, adapterStopped>>

\* Start returns: with an error, or with none, which ends the goroutine.
SessionEnded ==
    /\ session \in {"opening", "up"}
    /\ ended < MaxSessions
    /\ session' \in {"lost", "returned"}
    /\ ended' = ended + 1
    /\ failures' = failures + 1
    /\ UNCHANGED <<backoffCur, wait, adapterStopped>>

\* Mutant: the wait grows without a maximum.
BackOffForEver ==
    /\ session = "lost"
    /\ session' = "waiting"
    /\ wait' = backoffCur
    /\ backoffCur' = 2 * backoffCur
    /\ UNCHANGED <<ended, failures, adapterStopped>>

\* The wait is fixed, and the next one.
BackOff ==
    /\ session = "lost"
    /\ session' = "waiting"
    /\ wait' = backoffCur
    /\ backoffCur' = Min({2 * backoffCur, MaxWait})
    /\ UNCHANGED <<ended, failures, adapterStopped>>

\* The wait is over, or the adapter is stopped.
Waited ==
    /\ session = "waiting"
    /\ \/ session' = "asking"
       \/ adapterStopped /\ session' = "stopped"
    /\ UNCHANGED <<backoffCur, wait, ended, failures, adapterStopped>>

\* Mutant: the goroutine ends when it cannot get the gateway's address.
AskGatewayOnce ==
    /\ session = "asking"
    /\ session' \in {"top", "stopped"}
    /\ UNCHANGED <<backoffCur, wait, ended, failures, adapterStopped>>

\* The gateway's address is read; if that fails the old one will do.
AskGateway ==
    /\ session = "asking"
    /\ session' = "top"
    /\ UNCHANGED <<backoffCur, wait, ended, failures, adapterStopped>>

\* Stop cancels the context.
StopAdapter ==
    /\ ~ adapterStopped
    /\ adapterStopped' = TRUE
    /\ UNCHANGED <<session, backoffCur, wait, ended, failures>>

SessionStep ==
    TryAgain \/ Ready \/ SessionEnded \/ BackOff \/ Waited \/ AskGateway

\* The steps that the goroutine takes by itself: of QQ nothing is assumed.
OwnStep == TryAgain \/ BackOff \/ Waited \/ AskGateway

-----------------------------------------------------------------------------

(***************************************************************************)
(* After a session has ended with an error the next one is tried, unless   *)
(* the adapter is stopped.                                                 *)
(***************************************************************************)
TriesAgain == session = "lost" ~> session \in {"opening", "up"} \/ adapterStopped

\* The initial wait doubled n times.
Doubled[n \in 0 .. MaxSessions] ==
    IF n = 0 THEN InitialWait ELSE 2 * Doubled[n - 1]

(***************************************************************************)
(* The n-th wait since Ready is the initial one doubled n - 1 times, or    *)
(* the maximum.                                                            *)
(***************************************************************************)
WaitsAsStated ==
    session = "waiting" => wait = Min({Doubled[failures - 1], MaxWait})

\* The session is kept.
Reconnected == TriesAgain /\ []WaitsAsStated

=============================================================================
