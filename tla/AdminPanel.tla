------------------------------ MODULE AdminPanel ----------------------------
(***************************************************************************)
(* internal/admin: the password and the sessions of the web panel.  The    *)
(* password's hash is in the key-value table; whether there is one is read *)
(* once, when the process starts, into passwordSet.  Sessions are in       *)
(* memory: a token, with the moment it expires.                            *)
(*                                                                         *)
(* Requests are served side by side.  Each is a record that goes from step *)
(* to step of its handler; the token a login hands out is named after the  *)
(* login.  Faults: "readError" and "writeError" of the table; "crash", the *)
(* process dies and is started again.                                      *)
(***************************************************************************)
EXTENDS Clock

CONSTANTS
    Passwords,
    NoPassword,
    TTL,         \* of a session (24 hours in the code)
    MaxRequests  \* bound

ASSUME PanelAssumption ==
    TTL \in Nat /\ MaxRequests \in Nat /\ NoPassword \notin Passwords

VARIABLES
    password,    \* the stored one
    passwordSet,
    sessions,    \* for each token the moment it expires, or Never
    requests,    \* the requests, in the order of arrival
    over,        \* auxiliary: tokens whose logout has been answered
    misread,     \* auxiliary: a process did not see the stored password
    overlapped   \* auxiliary: two requests set a password side by side

panelVars == <<password, passwordSet, sessions, requests, over, misread,
               overlapped>>

Requests == 1 .. MaxRequests
Pages == {"other", "tasks", "stop"}   \* those behind authMiddleware

Request ==
    [pc : {"none", "new", "set", "flag", "verify", "create",   \* a login
           "look", "forget", "serve", "done"},                 \* a page
     kind : {"login", "logout"} \cup Pages,
     password : Passwords \cup {NoPassword},
     token : Requests \cup {0},
     expiry : Nat \cup {Never},
     late : BOOLEAN]       \* auxiliary: the session had ended on arrival

NoRequest == [pc |-> "none", kind |-> "login", password |-> NoPassword,
              token |-> 0, expiry |-> Never, late |-> FALSE]

PanelTypeOK ==
    /\ password \in Passwords \cup {NoPassword}
    /\ passwordSet \in BOOLEAN
    /\ sessions \in [Requests -> Nat \cup {Never}]
    /\ requests \in [Requests -> Request]
    /\ over \subseteq Requests
    /\ misread \in BOOLEAN /\ overlapped \in BOOLEAN

PanelInit ==
    /\ password \in {NoPassword} \cup Passwords
    /\ passwordSet = (password # NoPassword)
    /\ sessions = [r \in Requests |-> Never]
    /\ requests = [r \in Requests |-> NoRequest]
    /\ over = {}
    /\ misread = FALSE /\ overlapped = FALSE

InStep(r, pc) == requests[r].pc = pc
GoTo(r, pc) == requests' = [requests EXCEPT ![r].pc = pc]

HandedOut == {t \in Requests : requests[t].kind = "login"
                               /\ requests[t].expiry # Never}

\* The session of a token has ended: its time is over, or its user left.
Ended(t) == t \in over \/ Expired(requests[t].expiry)

\* A request arrives.  Who sends a token has been given it.
Arrive(r) ==
    /\ InStep(r, "none")
    /\ \A q \in 1 .. r - 1 : ~ InStep(q, "none")
    /\ \/ \E p \in Passwords \cup {NoPassword} :
            requests' = [requests EXCEPT ![r] =
                [NoRequest EXCEPT !.pc = "new", !.password = p]]
       \/ \E t \in HandedOut, k \in {"logout"} \cup Pages :
            requests' = [requests EXCEPT ![r] =
                [NoRequest EXCEPT !.pc = "new", !.kind = k, !.token = t,
                                  !.late = Ended(t)]]
    /\ UNCHANGED <<password, passwordSet, sessions, over, misread,
                   overlapped, clock>>

-----------------------------------------------------------------------------
(* handleLogin *)

\* It looks at passwordSet: the password is to be compared, or set, if there
\* is one and it has been confirmed.
LoginRead(r) ==
    /\ InStep(r, "new") /\ requests[r].kind = "login"
    /\ GoTo(r, CASE passwordSet -> "verify"
                 [] ~ passwordSet /\ requests[r].password # NoPassword -> "set"
                 [] OTHER -> "done")
    /\ overlapped' = (overlapped \/
           /\ ~ passwordSet
           /\ \E q \in Requests : InStep(q, "set") \/ InStep(q, "flag"))
    /\ UNCHANGED <<password, passwordSet, sessions, over, misread, clock>>

\* setPassword: the hash is stored ...
SetStore(r, faults) ==
    /\ InStep(r, "set")
    /\ \/ GoTo(r, "flag") /\ password' = requests[r].password
       \/ "writeError" \in faults /\ GoTo(r, "done") /\ UNCHANGED password
    /\ UNCHANGED <<passwordSet, sessions, over, misread, overlapped, clock>>

\* Mutant: the panel goes on asking for a first password.
SetFlagForgetful(r) ==
    /\ InStep(r, "flag")
    /\ GoTo(r, "create")
    /\ UNCHANGED <<password, passwordSet, sessions, over, misread,
                   overlapped, clock>>

\* ... and passwordSet tells the next login.
SetFlag(r) ==
    /\ InStep(r, "flag")
    /\ GoTo(r, "create")
    /\ passwordSet' = TRUE
    /\ UNCHANGED <<password, sessions, over, misread, overlapped, clock>>

\* verifyPassword: what cannot be read is no match.
Verify(r, faults) ==
    /\ InStep(r, "verify")
    /\ \/ GoTo(r, IF requests[r].password = password THEN "create" ELSE "done")
       \/ "readError" \in faults /\ GoTo(r, "done")
    /\ UNCHANGED <<password, passwordSet, sessions, over, misread,
                   overlapped, clock>>

\* createSession
CreateSession(r) ==
    /\ InStep(r, "create")
    /\ sessions' = [sessions EXCEPT ![r] = clock + TTL]
    /\ requests' = [requests EXCEPT ![r].pc = "done", ![r].expiry = clock + TTL]
    /\ UNCHANGED <<password, passwordSet, over, misread, overlapped, clock>>

LoginStep(r, faults) ==
    \/ LoginRead(r)
    \/ SetStore(r, faults)
    \/ SetFlag(r)
    \/ Verify(r, faults)
    \/ CreateSession(r)

-----------------------------------------------------------------------------

\* Mutant: the cookie goes, the session stays.
LogoutForgetful(r) ==
    /\ InStep(r, "new") /\ requests[r].kind = "logout"
    /\ over' = over \cup {requests[r].token}
    /\ GoTo(r, "done")
    /\ UNCHANGED <<password, passwordSet, sessions, misread, overlapped, clock>>

\* handleLogout
Logout(r) ==
    /\ InStep(r, "new") /\ requests[r].kind = "logout"
    /\ sessions' = [sessions EXCEPT ![requests[r].token] = Never]
    /\ over' = over \cup {requests[r].token}
    /\ GoTo(r, "done")
    /\ UNCHANGED <<password, passwordSet, misread, overlapped, clock>>

\* validateSession: the expiry is read under the read lock, ...
ReadSession(r) ==
    /\ InStep(r, "new") /\ requests[r].kind \in Pages
    /\ LET expiry == sessions[requests[r].token] IN
       requests' = [requests EXCEPT
           ![r].pc = IF expiry = Never THEN "done" ELSE "look",
           ![r].expiry = expiry]
    /\ UNCHANGED <<password, passwordSet, sessions, over, misread,
                   overlapped, clock>>

\* ... then compared with the time, ...
LookAtExpiry(r) ==
    /\ InStep(r, "look")
    /\ GoTo(r, IF Expired(requests[r].expiry) THEN "forget" ELSE "serve")
    /\ UNCHANGED <<password, passwordSet, sessions, over, misread,
                   overlapped, clock>>

\* ... and a session that has expired is deleted, under the lock again.
ForgetSession(r) ==
    /\ InStep(r, "forget")
    /\ sessions' = [sessions EXCEPT ![requests[r].token] = Never]
    /\ GoTo(r, "done")
    /\ UNCHANGED <<password, passwordSet, over, misread, overlapped, clock>>

\* The page is served; what it does beyond that is its caller's.
ServePage(r, page) ==
    /\ InStep(r, "serve") /\ requests[r].kind = page
    /\ GoTo(r, "done")
    /\ UNCHANGED <<password, passwordSet, sessions, over, misread,
                   overlapped, clock>>

\* The process dies and is started again: New reads the password, and takes
\* a failure to for there being none.
PanelRestarts(faults) ==
    /\ "crash" \in faults
    /\ \E r \in Requests : ~ InStep(r, "none")
    /\ sessions' = [t \in Requests |-> Never]
    /\ over' = HandedOut
    /\ requests' = [r \in Requests |->
            IF InStep(r, "none") THEN requests[r]
            ELSE [requests[r] EXCEPT !.pc = "done"]]
    /\ \/ passwordSet' = (password # NoPassword) /\ UNCHANGED misread
       \/ /\ "readError" \in faults
          /\ passwordSet' = FALSE
          /\ misread' = (misread \/ password # NoPassword)
    /\ UNCHANGED <<password, overlapped, clock>>

RequestStep(r, faults) ==
    \/ LoginStep(r, faults)
    \/ Logout(r)
    \/ ReadSession(r) \/ LookAtExpiry(r) \/ ForgetSession(r)
    \/ ServePage(r, "other")

-----------------------------------------------------------------------------

(***************************************************************************)
(* What is behind authMiddleware is served to nobody whose session had     *)
(* ended when the request came: 24 hours were over, the user had logged    *)
(* out, or the process that knew the session was gone.                     *)
(* The event stream, /admin/sse, has no such check (admin.go:245) and is   *)
(* not covered.                                                            *)
(***************************************************************************)
SessionEnds ==
    \A r \in Requests :
        requests[r].kind \in Pages /\ requests[r].pc = "serve"
            => ~ requests[r].late

(***************************************************************************)
(* A password that is set stays, whatever logins follow.  There are two    *)
(* exceptions: two first logins that overlap both set theirs, and after a  *)
(* start at which the table could not be read the next login sets one.     *)
(***************************************************************************)
PasswordKept ==
    [][password # NoPassword /\ password' # password
           => misread \/ overlapped]_panelVars

=============================================================================
