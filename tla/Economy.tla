------------------------------- MODULE Economy ------------------------------
(***************************************************************************)
(* The handlers of bank, store and checkin under the message loop that     *)
(* runs them.                                                              *)
(*                                                                         *)
(* A behaviour has a fixed set of faults, chosen from FaultRegimes:        *)
(*   "lostReply"  the game did what it was asked, the answer is not read   *)
(*   "readError"  a query of the account or of the record fails            *)
(*   "saveError"  a Save fails                                             *)
(*   "crash"      the process dies with handlers running                   *)
(*   "timeout"    a handler runs for longer than the loop waits            *)
(***************************************************************************)
EXTENDS Bank, Checkin, Store

CONSTANTS
    InitialRows,  \* rows a user may start with, none negative
    Withdrawals,  \* amounts of a withdraw, give or deduct command
    Rewards,      \* what one check-in may pay
    Price,        \* what the one product of the store costs
    FaultRegimes, \* the sets of faults a behaviour may be given
    MaxDay        \* bound: the last date

FirstDay == 2
Fault == {"lostReply", "readError", "saveError", "crash", "timeout"}

ASSUME EconomyAssumption ==
    /\ InitialRows \subseteq {r \in Row : \A c \in Currency : r[c] >= 0}
    /\ Withdrawals \subseteq Amount
    /\ Rewards \subseteq Amount
    /\ Price \in Amount
    /\ FaultRegimes \subseteq SUBSET Fault
    /\ MaxDay \in Nat

TypeOK ==
    /\ rows \in [Users -> Row]
    /\ records \in [Users -> Record]
    /\ day \in Nat /\ day >= FirstDay
    /\ handlers \in [Slots -> Handler \cup {None}]
    /\ loop \in Slots \cup {None}
    /\ loop # None => Running(loop)
    /\ ops \in Nat
    /\ faults \in SUBSET Fault
    /\ due \in [Users -> [Currency -> Int]]
    /\ history \in [Users -> SUBSET Nat]
    /\ paid \in [Users -> SUBSET Nat]
    /\ overflowed \subseteq Users \X Currency
    /\ straddled \subseteq Users

Init ==
    /\ rows \in [Users -> InitialRows]
    /\ records = [u \in Users |-> NoRecord]
    /\ day = FirstDay
    /\ handlers = [s \in Slots |-> None]
    /\ loop = None
    /\ ops = 0
    /\ faults \in FaultRegimes
    /\ due = rows
    /\ history = [u \in Users |-> {}]
    /\ paid = [u \in Users |-> {}]
    /\ overflowed = {}
    /\ straddled = {}

-----------------------------------------------------------------------------

NewHandler(pc, op, u, amount) ==
    [pc |-> pc, op |-> op, user |-> u, amount |-> amount,
     acc |-> ZeroRow, rec |-> NoRecord, today |-> NoDate]

\* The commands a message may ask for, as the handler each of them starts.
Commands(u) ==
    {NewHandler("read", op, u, n) :
        op \in {"withdraw", "give", "deduct"}, n \in Withdrawals}
    \cup {NewHandler("read", "buy", u, Price)}
    \cup {NewHandler("record", "checkin", u, n) : n \in Rewards}

Dispatch(s) ==
    /\ \E u \in Users : \E h \in Commands(u) : Take(s, h)
    /\ UNCHANGED <<tableVars, day, faults, auxVars>>

Timeout == WaitEnds /\ UNCHANGED <<tableVars, day, faults, auxVars>>

Crash == ProcessDies /\ UNCHANGED <<tableVars, day, faults, auxVars>>

Midnight ==
    /\ day < MaxDay
    /\ day' = day + 1
    /\ UNCHANGED <<tableVars, handlers, loop, ops, faults, auxVars>>

\* The bounds are used up and nothing runs.
Done ==
    /\ Idle /\ ops = MaxOps /\ day >= MaxDay
    /\ UNCHANGED vars

HandlerStep(s) == Refuse(s) \/ BankStep(s) \/ BuyStep(s) \/ CheckinStep(s)

Next ==
    \/ \E s \in Slots : Dispatch(s) \/ HandlerStep(s)
    \/ Timeout
    \/ Crash
    \/ Midnight
    \/ Done

Spec == Init /\ [][Next]_vars

-----------------------------------------------------------------------------
(* Properties. *)

(***************************************************************************)
(* A stored balance is below zero only where a sum has left Go's int:      *)
(* every debit is checked against the struct it is taken from.  No fault   *)
(* and no overlap of handlers gets an account into debt.                   *)
(***************************************************************************)
NoDebt ==
    \A u \in Users, c \in Currency :
        rows[u][c] < 0 => <<u, c>> \in overflowed

(***************************************************************************)
(* "Act first, take the price only on success" (store.go:358): while       *)
(* handlers do not overlap and reads work, a user never has less than what *)
(* was credited, less what the game handed out and the owner took.  Lost   *)
(* answers, failed saves and crashes all fall on the other side.           *)
(***************************************************************************)
NeverOvercharged ==
    faults \cap {"readError", "timeout"} = {} =>
        \A u \in Users, c \in Currency :
            <<u, c>> \notin overflowed => rows[u][c] >= due[u][c]

(***************************************************************************)
(* Without faults the books balance whenever no handler runs: withdrawing  *)
(* and buying move exactly what the game hands out.                        *)
(***************************************************************************)
BooksBalance ==
    Idle /\ faults = {} =>
        \A u \in Users, c \in Currency :
            <<u, c>> \notin overflowed => rows[u][c] = due[u][c]

(***************************************************************************)
(* A check-in of one date is paid once, also when the process dies between *)
(* the two stores.  (A failed save of the record, a failed read of it or a *)
(* second handler in parallel pays twice: those regimes are left out.)     *)
(***************************************************************************)
RewardOncePerDay ==
    [][faults \cap {"readError", "saveError", "timeout"} = {} =>
         \A s \in Slots :
            PayReward(s) => handlers[s].today \notin paid[handlers[s].user]]_vars

(***************************************************************************)
(* A stored streak of n days is backed by n check-ins on n dates in a row. *)
(* It holds under every fault, overlap of handlers and position of         *)
(* midnight.                                                               *)
(***************************************************************************)
StreakBacked ==
    \A u \in Users : \A k \in 0 .. records[u].days - 1 :
        records[u].last - k \in history[u]

(***************************************************************************)
(* And it is not too short: the day before the streak began has no         *)
(* check-in, unless a check-in of this user read two different dates.      *)
(***************************************************************************)
StreakExact ==
    faults \cap {"readError", "timeout"} = {} =>
        \A u \in Users \ straddled :
            records[u].last # NoDate =>
                records[u].last - records[u].days \notin history[u]

(***************************************************************************)
(* The comment at checkin.go:138 says that a streak goes on if the user    *)
(* checked in the day before.  handleCheckin asks the clock twice, so at   *)
(* midnight the day before is the wrong one.                               *)
(***************************************************************************)
StreakContinues ==
    \A u \in Users : records[u].last # NoDate =>
        records[u].last - records[u].days \notin history[u]

(***************************************************************************)
(* The comment at bank.go:310 says that a withdrawal takes the gold from   *)
(* the local account and gives it to the player.  If the answer of the     *)
(* game is lost, the player has it and the account keeps it.               *)
(***************************************************************************)
WithdrawalTakesGold ==
    Idle => \A u \in Users, c \in Currency : rows[u][c] <= due[u][c]

(***************************************************************************)
(* The comment at bank.go:133 says that getAccount gives the zero account  *)
(* to a user who has none.  It gives it whenever the query fails, and the  *)
(* next save stores it: a user without a debit loses the balance.          *)
(***************************************************************************)
ZeroOnlyIfAbsent ==
    \A u \in Users, c \in Currency : rows[u][c] >= due[u][c]

=============================================================================
