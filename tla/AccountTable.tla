---------------------------- MODULE AccountTable ----------------------------
(***************************************************************************)
(* The table bank_accounts, which three plugins read and write: bank,      *)
(* checkin and store.  Each of them has its own copy of the same access    *)
(* code: read the row into a Go struct, change the struct, write the whole *)
(* struct back with gorm's Save.  Nothing locks the row in between.        *)
(*                                                                         *)
(* This module holds the rows, the arithmetic on them and the shape of a   *)
(* handler.  The modules Bank, Checkin and Store add the steps of their    *)
(* handlers, and Economy composes the three.                               *)
(***************************************************************************)
EXTENDS MessageLoop

CONSTANTS
    Users,      \* the users that own an account
    MaxInt      \* the largest Go int: 2^63 - 1, scaled down in a run

ASSUME MaxIntAssumption == MaxInt \in Nat

VARIABLES
    rows,       \* bank_accounts: the stored row of each user
    records,    \* checkin_records: last date and streak of each user
    day         \* today's date, as the process's clock gives it

(***************************************************************************)
(* Auxiliary variables: no step of the code reads them.                    *)
(***************************************************************************)
VARIABLES
    due,        \* what each user is entitled to: credits stored, less what
                \* the game handed out and the owner took
    history,    \* the dates each user has checked in on
    paid,       \* the dates each user was paid a reward for
    overflowed, \* the <<user, currency>> pairs whose sum left Go's int
    straddled   \* the users with a check-in that read two different dates

tableVars == <<rows, records>>
auxVars == <<due, history, paid, overflowed, straddled>>
vars == <<rows, records, day, handlers, loop, ops, faults, auxVars>>

-----------------------------------------------------------------------------
(* Rows. *)

Currency == {"Gold", "Exp", "ExpLevel"}

\* A row's numbers, and an amount of each currency.
Row == [Currency -> -(MaxInt + 1) .. MaxInt]
Amount == [Currency -> 0 .. MaxInt]
ZeroRow == [c \in Currency |-> 0]

\* n of one currency.
Only(c, n) == [d \in Currency |-> IF d = c THEN n ELSE 0]

\* Go's int addition: what exceeds the largest int wraps to the negatives.
Wrap(x) == IF x > MaxInt THEN x - 2 * (MaxInt + 1) ELSE x
Credit(acc, amount) == [c \in Currency |-> Wrap(acc[c] + amount[c])]
Debit(acc, amount) == [c \in Currency |-> acc[c] - amount[c]]
Overflows(u, acc, amount) ==
    {<<u, c>> : c \in {d \in Currency : acc[d] + amount[d] > MaxInt}}

\* Mutant: one may be missing.
CoversOffByOne(acc, amount) ==
    \A c \in Currency : amount[c] > 0 => acc[c] >= amount[c] - 1

\* The balance check of a debit: only the currencies it names count.
Covers(acc, amount) ==
    \A c \in Currency : amount[c] > 0 => acc[c] >= amount[c]

-----------------------------------------------------------------------------
(* Check-in records: the empty date "" is 0, which is no day's yesterday.  *)

NoDate == 0
Record == [last : Nat, days : Nat]
NoRecord == [last |-> NoDate, days |-> 0]

-----------------------------------------------------------------------------
(* Running handlers. *)

Op == {"withdraw", "give", "deduct", "buy", "checkin"}

PC == {"read", "post", "save", "record", "today", "streak", "saveRecord"}

\* acc and rec are the handler's structs, amount what the command moves.
Handler == [pc : PC, op : Op, user : Users, amount : Amount,
            acc : Row, rec : Record, today : Nat]

ASSUME NoneAssumption == None \notin Handler

GotoWith(s, pc, acc) ==
    /\ handlers' = [handlers EXCEPT ![s].pc = pc, ![s].acc = acc]
    /\ loop' = loop

(***************************************************************************)
(* The possible results of getAccount: the stored row (a user without one  *)
(* has the zero row), or the zero row because the query failed.            *)
(***************************************************************************)
GetAccount(u) ==
    {rows[u]} \cup (IF "readError" \in faults THEN {ZeroRow} ELSE {})

(***************************************************************************)
(* saveAccount writes the whole struct.  Its error is not looked at: the   *)
(* handler reports success either way.                                     *)
(***************************************************************************)
SaveAccount(u, acc) == rows' = [rows EXCEPT ![u] = acc]
SaveAccountFails == "saveError" \in faults /\ rows' = rows

\* A user becomes entitled to n more, or has been given n of it.
Owe(u, n) == due' = [due EXCEPT ![u] = [c \in Currency |-> @[c] + n[c]]]
Settle(u, n) == due' = [due EXCEPT ![u] = Debit(@, n)]

\* A step that leaves the tables and the auxiliary variables alone.
OnlyHandlerMoves == UNCHANGED <<tableVars, day, ops, faults, auxVars>>

(***************************************************************************)
(* What every handler may do before it reads an account: answer that the   *)
(* scene is wrong, the arguments are bad, the database is not there or the *)
(* user has no bound player, and return.                                   *)
(***************************************************************************)
Refuse(s) ==
    /\ Running(s)
    /\ \/ handlers[s].op # "checkin" /\ handlers[s].pc = "read"
       \/ handlers[s].pc = "record"
    /\ Finish(s)
    /\ OnlyHandlerMoves

=============================================================================
