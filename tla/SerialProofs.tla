----------------------------- MODULE SerialProofs ---------------------------
(***************************************************************************)
(* Proofs of what Economy promises while handlers do not overlap, whatever *)
(* else fails: a user is not charged for what the game did not do, without *)
(* faults the books balance, a streak is not too short, and a check-in is  *)
(* paid once.                                                              *)
(*                                                                         *)
(* Each of the four speaks of the tables alone; between the steps of a     *)
(* handler the tables are not enough.  The invariants say what the one     *)
(* handler that runs holds: a struct that follows from its user's row, and *)
(* a record that follows from the stored one.                              *)
(***************************************************************************)
EXTENDS EconomyProofs

\* Lost answers, failed saves and crashes; no failed reads, no overlap.
Serial == faults \cap {"readError", "timeout"} = {}

\* Handlers do not overlap unless the loop gives one up.
OneHandler == "timeout" \notin faults => \A s \in Slots : Running(s) => loop = s

-----------------------------------------------------------------------------
(* Money. *)

\* The game has handed out what a handler has still to take off the row.
Owes(h) == h.op \in {"withdraw", "buy"} /\ h.pc = "save"

\* What the struct of a handler is, given its user's row.
StructFollows(h, row, over) ==
    /\ h.pc = "post" => h.acc = row
    /\ h.pc = "save" => \A c \in Currency :
         IF h.op \in {"give", "checkin"}
         THEN <<h.user, c>> \notin over => h.acc[c] = row[c] + h.amount[c]
         ELSE h.acc[c] = row[c] - h.amount[c]

\* A row, less what is still to be taken off it, is not below the debt to its
\* user; without faults it is the debt.
Ledger(u, row, taken, debt, over) ==
    \A c \in Currency : <<u, c>> \notin over =>
        /\ row[c] - taken[c] >= debt[c]
        /\ faults = {} => row[c] - taken[c] = debt[c]

Owing(u) ==
    \E s \in Slots : Running(s) /\ handlers[s].user = u /\ Owes(handlers[s])

MoneyHeld(h) ==
    /\ StructFollows(h, rows[h.user], overflowed)
    /\ Owes(h) => Ledger(h.user, rows[h.user], h.amount, due[h.user], overflowed)

MoneyInv ==
    /\ \A u \in Users :
         ~ Owing(u) => Ledger(u, rows[u], ZeroRow, due[u], overflowed)
    /\ \A s \in Slots : Running(s) => MoneyHeld(handlers[s])

-----------------------------------------------------------------------------
(* Check-ins. *)

RecordHeld(h) ==
    /\ h.pc \in {"today", "streak"} => h.rec = records[h.user]
    /\ h.pc = "saveRecord" =>
         /\ records[h.user].last < h.today
         /\ h.user \notin straddled =>
              h.rec.days >= 1 /\ h.rec.last - h.rec.days \notin history[h.user]

RecordInv ==
    /\ \A u \in Users :
         /\ \A d \in history[u] : d <= records[u].last
         /\ u \notin straddled /\ records[u].last # NoDate =>
              records[u].last - records[u].days \notin history[u]
    /\ \A s \in Slots : Running(s) => RecordHeld(handlers[s])

\* Once the record is stored and until the reward is, its date is unpaid.
PaidHeld(h) ==
    h.op = "checkin" /\ h.pc \in {"read", "save"} =>
        h.today = records[h.user].last /\ h.today \notin paid[h.user]

PaidInv ==
    /\ \A u \in Users : \A d \in paid[u] : d <= records[u].last
    /\ \A s \in Slots : Running(s) => PaidHeld(handlers[s])

SerialInv ==
    /\ OneHandler
    /\ Serial => MoneyInv /\ RecordInv
    /\ Serial /\ "saveError" \notin faults => PaidInv

-----------------------------------------------------------------------------
(* One handler at a time. *)

(* The handler the loop waits for is the only one. *)
LEMMA Alone ==
    ASSUME OneHandler, Serial, NEW s \in Slots, Running(s)
    PROVE  \A t \in Slots : t # s => ~ Running(t)
BY DEF OneHandler, Serial

(* A step of a handler is one of the handler alone. *)
LEMMA HandlerMoves ==
    ASSUME TypeInv, NEW s \in Slots, HandlerStep(s)
    PROVE  /\ Running(s) /\ faults' = faults
           /\ Finish(s) \/ /\ loop' = loop
                           /\ \E g : handlers' = [handlers EXCEPT ![s] = g]
<1>1. Running(s) /\ faults' = faults
  BY DEF HandlerStep, Refuse, BankStep, BuyStep, CheckinStep, WithdrawRead,
         WithdrawPost, WithdrawSave, GiveRead, GiveSave, DeductRead, DeductSave,
         BuyRead, BuyPost, BuySave, CheckinRecord, CheckinToday, CheckinStreak,
         CheckinSaveRecord, RewardRead, RewardSave, At, OnlyHandlerMoves
<1> DEFINE Moves == \E g : handlers' = [handlers EXCEPT ![s] = g]
<1>2. \A pc, acc : GotoWith(s, pc, acc) => Moves /\ loop' = loop
  BY DEF GotoWith
<1>3. \A pc : Goto(s, pc) => Moves /\ loop' = loop
  BY DEF Goto
<1>4. CASE Refuse(s)
  BY <1>4, <1>1 DEF Refuse
<1>5. CASE BankStep(s) \/ BuyStep(s)
  <2>1. Finish(s) \/ \E pc, acc : GotoWith(s, pc, acc)
    <3>1. CASE WithdrawRead(s) \/ DeductRead(s) \/ BuyRead(s) \/ GiveRead(s)
      BY <3>1, Zenon DEF WithdrawRead, DeductRead, BuyRead, GiveRead
    <3>2. CASE WithdrawPost(s) \/ BuyPost(s)
      BY <3>2, Zenon
         DEF WithdrawPost, WithdrawPostAnswered, WithdrawPostLost,
             WithdrawPostFails, BuyPost, BuyPostAnswered, BuyPostLost, BuyPostFails
    <3>3. CASE WithdrawSave(s) \/ GiveSave(s) \/ DeductSave(s) \/ BuySave(s)
      BY <3>3, Zenon DEF WithdrawSave, GiveSave, DeductSave, BuySave
    <3>4. QED
      BY <1>5, <3>1, <3>2, <3>3, Zenon DEF BankStep, BuyStep
  <2>2. QED
    BY <1>1, <1>2, <2>1
<1>6. CASE CheckinStep(s)
  <2>1. CASE CheckinRecord(s)
    <3>1. PICK rec : handlers' = [handlers EXCEPT ![s].pc = "today", ![s].rec = rec]
      BY <2>1 DEF CheckinRecord
    <3>2. handlers' = [handlers EXCEPT ![s] =
                          [handlers[s] EXCEPT !.pc = "today", !.rec = rec]]
      BY <3>1
    <3>3. Moves
      BY <3>2
    <3>4. QED
      BY <1>1, <2>1, <3>3 DEF CheckinRecord
  <2>2. CASE CheckinToday(s)
    <3>1. CASE Finish(s)
      BY <1>1, <3>1
    <3>2. CASE ~ Finish(s)
      <4>1. /\ loop' = loop
            /\ handlers' = [handlers EXCEPT ![s] =
                    [handlers[s] EXCEPT !.pc = "streak", !.today = day]]
        BY <2>2, <3>2 DEF CheckinToday
      <4>2. Moves
        BY <4>1
      <4>3. QED
        BY <1>1, <4>1, <4>2
    <3>3. QED
      BY <3>1, <3>2
  <2>3. CASE CheckinStreak(s)
    <3>1. /\ loop' = loop
          /\ handlers' = [handlers EXCEPT ![s] =
                [handlers[s] EXCEPT !.pc = "saveRecord",
                    !.rec = NextRecord(@, handlers[s].today, day - 1)]]
      BY <2>3 DEF CheckinStreak
    <3>2. Moves
      BY <3>1
    <3>3. QED
      BY <1>1, <3>1, <3>2
  <2>4. CASE CheckinSaveRecord(s)
    BY <1>1, <1>3, <2>4 DEF CheckinSaveRecord
  <2>5. CASE RewardRead(s) \/ RewardSave(s)
    BY <1>1, <1>2, <2>5, Zenon DEF RewardRead, RewardSave
  <2>6. QED
    BY <1>6, <2>1, <2>2, <2>3, <2>4, <2>5 DEF CheckinStep
<1>7. QED
  BY <1>4, <1>5, <1>6 DEF HandlerStep

(* The loop takes a message when it waits for no handler. *)
LEMMA OneHandlerKept ==
    ASSUME TypeInv, OneHandler, [Next]_vars
    PROVE  OneHandler'
<1>1. ASSUME NEW s \in Slots, Dispatch(s) PROVE OneHandler'
  <2>1. PICK h : handlers' = [handlers EXCEPT ![s] = h] /\ loop = None /\ loop' = s
    BY <1>1 DEF Dispatch, Take
  <2>2. QED
    BY <1>1, <2>1, LoopAssumption DEF OneHandler, Running, Dispatch, TypeInv, TypeOK
<1>2. ASSUME NEW s \in Slots, HandlerStep(s) PROVE OneHandler'
  <2>1. /\ Running(s) /\ faults' = faults
        /\ Finish(s) \/ /\ loop' = loop
                        /\ \E g : handlers' = [handlers EXCEPT ![s] = g]
    BY <1>2, HandlerMoves
  <2>2. CASE Finish(s)
    BY <2>1, <2>2 DEF Finish, OneHandler, Running, TypeInv, TypeOK
  <2>3. CASE loop' = loop /\ \E g : handlers' = [handlers EXCEPT ![s] = g]
    BY <2>1, <2>3 DEF OneHandler, Running, TypeInv, TypeOK
  <2>4. QED
    BY <2>1, <2>2, <2>3
<1>3. CASE Timeout \/ Crash \/ Midnight \/ Done \/ UNCHANGED vars
  BY <1>3 DEF Timeout, WaitEnds, Crash, ProcessDies, Midnight, Done, vars,
              OneHandler, Running
<1>4. QED
  BY <1>1, <1>2, <1>3 DEF Next

-----------------------------------------------------------------------------
(* Every step keeps the money in order. *)

(* The only handler goes on as g, or ends; one user's row and debt change. *)
LEMMA MoneyStep ==
    ASSUME TypeInv, MoneyInv, faults' = faults,
           NEW s \in Slots, \A t \in Slots : t # s => ~ Running(t),
           NEW u \in Users, Running(s) => handlers[s].user = u,
           NEW g, handlers' = [handlers EXCEPT ![s] = g],
           \A v \in Users : v # u => rows'[v] = rows[v] /\ due'[v] = due[v],
           overflowed \subseteq overflowed',
           g # None => g.user = u /\ StructFollows(g, rows'[u], overflowed'),
           g # None /\ Owes(g) =>
                Ledger(u, rows'[u], g.amount, due'[u], overflowed'),
           g = None \/ ~ Owes(g) =>
                Ledger(u, rows'[u], ZeroRow, due'[u], overflowed')
    PROVE  MoneyInv'
<1>1. /\ handlers'[s] = g
      /\ \A t \in Slots : t # s => ~ Running(t)'
  BY DEF TypeInv, TypeOK, Running
<1>2. ASSUME NEW t \in Slots, Running(t)' PROVE MoneyHeld(handlers[t])'
  <2>1. t = s /\ g # None
    BY <1>1, <1>2 DEF Running
  <2>2. QED
    BY <1>1, <2>1 DEF MoneyHeld, Ledger
<1>3. ASSUME NEW v \in Users, ~ Owing(v)'
      PROVE  Ledger(v, rows[v], ZeroRow, due[v], overflowed)'
  <2>1. CASE v = u
    <3>1. g = None \/ ~ Owes(g)
      BY <1>1, <1>3, <2>1 DEF Owing, Running
    <3>2. QED
      BY <2>1, <3>1 DEF Ledger
  <2>2. CASE v # u
    <3>1. ~ Owing(v)
      BY <2>2 DEF Owing
    <3>2. Ledger(v, rows[v], ZeroRow, due[v], overflowed)
      BY <3>1 DEF MoneyInv
    <3>3. QED
      BY <2>2, <3>2 DEF Ledger
  <2>3. QED
    BY <2>1, <2>2
<1>4. QED
  BY <1>2, <1>3 DEF MoneyInv

(* The numbers of a row, of an amount and of a debt. *)
LEMMA Numbers ==
    ASSUME TypeInv, NEW u \in Users, NEW n \in Amount, NEW c \in Currency
    PROVE  /\ rows[u][c] \in Int /\ due[u][c] \in Int
           /\ n[c] \in Nat /\ ZeroRow[c] = 0
BY MaxIntAssumption DEF TypeInv, TypeOK, Row, Amount, ZeroRow

(* Whoever does not owe anything leaves no user's ledger open. *)
LEMMA NothingOwed ==
    ASSUME MoneyInv, NEW s \in Slots, \A t \in Slots : t # s => ~ Running(t),
           Running(s) => ~ Owes(handlers[s]), NEW u \in Users
    PROVE  Ledger(u, rows[u], ZeroRow, due[u], overflowed)
BY DEF MoneyInv, Owing

(* More overflows, fewer claims. *)
LEMMA LedgerShrinks ==
    ASSUME NEW u, NEW row, NEW taken, NEW debt, NEW over, NEW more,
           over \subseteq more, Ledger(u, row, taken, debt, over)
    PROVE  Ledger(u, row, taken, debt, more)
BY DEF Ledger

(* A handler that owes nothing returns and leaves the tables alone. *)
LEMMA MoneyFinish ==
    ASSUME TypeInv, MoneyInv, faults' = faults,
           NEW s \in Slots, \A t \in Slots : t # s => ~ Running(t),
           Running(s), ~ Owes(handlers[s]), Finish(s),
           UNCHANGED <<rows, due, overflowed>>
    PROVE  MoneyInv'
<1>1. handlers[s].user \in Users
  BY HandlerType
<1>2. Ledger(handlers[s].user, rows[handlers[s].user], ZeroRow,
             due[handlers[s].user], overflowed)
  BY <1>1, NothingOwed
<1>3. handlers' = [handlers EXCEPT ![s] = None]
  BY DEF Finish
<1>4. QED
  BY <1>1, <1>2, <1>3, MoneyStep

(* A handler goes on with a struct that follows, owing nothing. *)
LEMMA MoneyGoesOn ==
    ASSUME TypeInv, MoneyInv, faults' = faults,
           NEW s \in Slots, \A t \in Slots : t # s => ~ Running(t),
           Running(s), ~ Owes(handlers[s]),
           NEW g, g # None, g.user = handlers[s].user, ~ Owes(g),
           handlers' = [handlers EXCEPT ![s] = g],
           StructFollows(g, rows[g.user], overflowed'),
           overflowed \subseteq overflowed', UNCHANGED <<rows, due>>
    PROVE  MoneyInv'
<1> DEFINE u == handlers[s].user
<1>1. u \in Users
  BY HandlerType
<1>2. Ledger(u, rows[u], ZeroRow, due[u], overflowed')
  BY <1>1, NothingOwed, LedgerShrinks
<1>3. QED
  BY <1>1, <1>2, MoneyStep

(* A handler's record after GotoWith. *)
LEMMA GoneWith ==
    ASSUME TypeInv, NEW s \in Slots, Running(s), NEW pc \in PC, NEW acc \in Row,
           GotoWith(s, pc, acc)
    PROVE  \E g : /\ g # None /\ handlers' = [handlers EXCEPT ![s] = g]
                  /\ g.pc = pc /\ g.acc = acc
                  /\ g.user = handlers[s].user /\ g.amount = handlers[s].amount
                  /\ g.op = handlers[s].op /\ g.today = handlers[s].today
                  /\ g.rec = handlers[s].rec
<1> DEFINE g == [handlers[s] EXCEPT !.pc = pc, !.acc = acc]
<1>1. /\ g \in Handler /\ g.pc = pc /\ g.acc = acc
      /\ g.user = handlers[s].user /\ g.amount = handlers[s].amount
      /\ g.op = handlers[s].op /\ g.today = handlers[s].today
      /\ g.rec = handlers[s].rec
  BY DEF TypeInv, TypeOK, Running, Handler
<1>2. handlers' = [handlers EXCEPT ![s] = g]
  BY DEF GotoWith
<1>3. g # None
  BY <1>1, NoneAssumption
<1> HIDE DEF g
<1>4. QED
  BY <1>1, <1>2, <1>3

(* What getAccount returns when it can read. *)
LEMMA Reads ==
    ASSUME Serial, NEW u \in Users, NEW acc \in GetAccount(u)
    PROVE  acc = rows[u]
BY DEF Serial, GetAccount

(* Without an overflow Go's sum is the sum. *)
LEMMA CreditExact ==
    ASSUME NEW acc \in Row, NEW n \in Amount, NEW u, NEW c \in Currency,
           <<u, c>> \notin Overflows(u, acc, n)
    PROVE  Credit(acc, n)[c] = acc[c] + n[c]
BY MaxIntAssumption DEF Overflows, Credit, Wrap, Row, Amount

(* Reading to withdraw, to buy, to take off: the struct follows the row. *)
LEMMA MoneyReads ==
    ASSUME TypeInv, MoneyInv, Serial, NEW s \in Slots,
           \A t \in Slots : t # s => ~ Running(t),
           WithdrawRead(s) \/ DeductRead(s) \/ BuyRead(s)
    PROVE  MoneyInv'
<1> DEFINE h == handlers[s]
<1>1. /\ Running(s) /\ ~ Owes(h) /\ faults' = faults
      /\ UNCHANGED <<rows, due, overflowed>>
  BY DEF WithdrawRead, DeductRead, BuyRead, At, Owes, OnlyHandlerMoves,
         tableVars, auxVars
<1>2. h.user \in Users /\ h.amount \in Amount
  BY <1>1, HandlerType
<1>3. CASE Finish(s)
  BY <1>1, <1>3, MoneyFinish
<1>4. CASE ~ Finish(s)
  <2>1. \/ GotoWith(s, "post", rows[h.user])
        \/ /\ h.op = "deduct" /\ Covers(rows[h.user], h.amount)
           /\ GotoWith(s, "save", Debit(rows[h.user], h.amount))
    BY <1>2, <1>4, Reads DEF WithdrawRead, DeductRead, BuyRead, At
  <2>2. rows[h.user] \in Row
    BY <1>2 DEF TypeInv, TypeOK
  <2>3. CASE GotoWith(s, "post", rows[h.user])
    <3>1. PICK g : /\ g # None /\ handlers' = [handlers EXCEPT ![s] = g]
                   /\ g.pc = "post" /\ g.acc = rows[h.user] /\ g.user = h.user
      BY <1>1, <2>2, <2>3, GoneWith DEF PC
    <3>2. StructFollows(g, rows[g.user], overflowed') /\ ~ Owes(g)
      BY <3>1 DEF StructFollows, Owes
    <3>3. QED
      BY <1>1, <3>1, <3>2, MoneyGoesOn
  <2>4. CASE /\ h.op = "deduct" /\ Covers(rows[h.user], h.amount)
             /\ GotoWith(s, "save", Debit(rows[h.user], h.amount))
    <3> DEFINE acc == Debit(rows[h.user], h.amount)
    <3>1. acc \in Row /\ \A c \in Currency : acc[c] = rows[h.user][c] - h.amount[c]
      BY <1>2, <2>2, <2>4, DebitType DEF Debit
    <3> HIDE DEF acc
    <3>2. PICK g : /\ g # None /\ handlers' = [handlers EXCEPT ![s] = g]
                   /\ g.pc = "save" /\ g.acc = acc /\ g.user = h.user
                   /\ g.amount = h.amount /\ g.op = h.op
      BY <1>1, <2>4, <3>1, GoneWith DEF PC, acc
    <3>3. StructFollows(g, rows[g.user], overflowed') /\ ~ Owes(g)
      BY <2>4, <3>1, <3>2 DEF StructFollows, Owes
    <3>4. QED
      BY <1>1, <3>2, <3>3, MoneyGoesOn
  <2>5. QED
    BY <2>1, <2>3, <2>4
<1>5. QED
  BY <1>3, <1>4

(* Reading to give or to reward: the same, but for overflows. *)
LEMMA MoneyCredits ==
    ASSUME TypeInv, MoneyInv, Serial, NEW s \in Slots,
           \A t \in Slots : t # s => ~ Running(t),
           GiveRead(s) \/ RewardRead(s)
    PROVE  MoneyInv'
<1> DEFINE h == handlers[s]
<1>1. /\ Running(s) /\ ~ Owes(h) /\ faults' = faults
      /\ UNCHANGED <<rows, due>> /\ h.op \in {"give", "checkin"}
  BY DEF GiveRead, RewardRead, At, Owes, tableVars
<1>2. h.user \in Users /\ h.amount \in Amount /\ rows[h.user] \in Row
  BY <1>1, HandlerType DEF TypeInv, TypeOK
<1> DEFINE acc == Credit(rows[h.user], h.amount)
<1>3. /\ GotoWith(s, "save", acc)
      /\ overflowed' = overflowed \cup Overflows(h.user, rows[h.user], h.amount)
  BY <1>2, Reads DEF GiveRead, RewardRead
<1>4. /\ acc \in Row
      /\ \A c \in Currency : <<h.user, c>> \notin overflowed' =>
            acc[c] = rows[h.user][c] + h.amount[c]
  BY <1>2, <1>3, CreditType, CreditExact
<1> HIDE DEF acc
<1>5. PICK g : /\ g # None /\ handlers' = [handlers EXCEPT ![s] = g]
               /\ g.pc = "save" /\ g.acc = acc /\ g.user = h.user
               /\ g.amount = h.amount /\ g.op = h.op
  BY <1>1, <1>3, <1>4, GoneWith DEF PC
<1>6. StructFollows(g, rows[g.user], overflowed') /\ ~ Owes(g)
  BY <1>1, <1>4, <1>5 DEF StructFollows, Owes
<1>7. QED
  BY <1>1, <1>3, <1>5, <1>6, MoneyGoesOn

(* The game is asked: what it hands out is owed, or not taken at all. *)
LEMMA MoneyPosts ==
    ASSUME TypeInv, MoneyInv, NEW s \in Slots,
           \A t \in Slots : t # s => ~ Running(t),
           WithdrawPost(s) \/ BuyPost(s)
    PROVE  MoneyInv'
<1> DEFINE h == handlers[s]
<1>1. /\ Running(s) /\ ~ Owes(h) /\ faults' = faults
      /\ UNCHANGED <<rows, overflowed>>
      /\ h.pc = "post" /\ h.op \in {"withdraw", "buy"}
  BY DEF WithdrawPost, BuyPost, At, Owes, tableVars
<1>2. /\ h.user \in Users /\ h.amount \in Amount /\ h.acc = rows[h.user]
      /\ rows[h.user] \in Row
  BY <1>1, HandlerType DEF MoneyInv, MoneyHeld, StructFollows, TypeInv, TypeOK
<1>3. Ledger(h.user, rows[h.user], ZeroRow, due[h.user], overflowed)
  BY <1>1, <1>2, NothingOwed
<1>4. CASE UNCHANGED due /\ Finish(s)
  BY <1>1, <1>4, MoneyFinish
<1>5. CASE Settle(h.user, h.amount)
  <2>1. /\ \A c \in Currency : due'[h.user][c] = due[h.user][c] - h.amount[c]
        /\ \A v \in Users : v # h.user => due'[v] = due[v]
    BY <1>2, <1>5 DEF Settle, Debit, TypeInv, TypeOK
  <2>2. CASE "lostReply" \in faults /\ Finish(s)
    <3>1. Ledger(h.user, rows[h.user], ZeroRow, due'[h.user], overflowed)
      <4> SUFFICES ASSUME NEW c \in Currency, <<h.user, c>> \notin overflowed
                   PROVE  rows[h.user][c] - ZeroRow[c] >= due'[h.user][c]
        BY <2>2 DEF Ledger
      <4>1. rows[h.user][c] - ZeroRow[c] >= due[h.user][c]
        BY <1>3 DEF Ledger
      <4>2. QED
        BY <1>2, <2>1, <4>1, Numbers
    <3>2. handlers' = [handlers EXCEPT ![s] = None]
      BY <2>2 DEF Finish
    <3>3. QED
      BY <1>1, <1>2, <2>1, <3>1, <3>2, MoneyStep
  <2>3. CASE GotoWith(s, "save", Debit(h.acc, h.amount))
    <3> DEFINE acc == Debit(h.acc, h.amount)
    <3>1. acc \in Row /\ \A c \in Currency : acc[c] = rows[h.user][c] - h.amount[c]
      <4>1. Covers(h.acc, h.amount)
        BY <1>1 DEF TypeInv, Covered
      <4>2. QED
        BY <1>2, <4>1, DebitType DEF Debit
    <3> HIDE DEF acc
    <3>2. PICK g : /\ g # None /\ handlers' = [handlers EXCEPT ![s] = g]
                   /\ g.pc = "save" /\ g.acc = acc /\ g.user = h.user
                   /\ g.amount = h.amount /\ g.op = h.op
      BY <1>1, <2>3, <3>1, GoneWith DEF PC, acc
    <3>3. StructFollows(g, rows[h.user], overflowed) /\ Owes(g)
      BY <1>1, <3>1, <3>2 DEF StructFollows, Owes
    <3>4. Ledger(h.user, rows[h.user], g.amount, due'[h.user], overflowed)
      <4> SUFFICES ASSUME NEW c \in Currency, <<h.user, c>> \notin overflowed
                   PROVE  /\ rows[h.user][c] - h.amount[c] >= due'[h.user][c]
                          /\ faults = {} => rows[h.user][c] - h.amount[c]
                                                = due'[h.user][c]
        BY <3>2 DEF Ledger
      <4>1. /\ rows[h.user][c] - ZeroRow[c] >= due[h.user][c]
            /\ faults = {} => rows[h.user][c] - ZeroRow[c] = due[h.user][c]
        BY <1>3 DEF Ledger
      <4>2. QED
        BY <1>2, <2>1, <4>1, Numbers
    <3>5. QED
      BY <1>1, <1>2, <2>1, <3>2, <3>3, <3>4, MoneyStep
  <2>4. QED
    BY <1>4, <1>5, <2>2, <2>3
       DEF WithdrawPost, WithdrawPostAnswered, WithdrawPostLost,
           WithdrawPostFails, BuyPost, BuyPostAnswered, BuyPostLost, BuyPostFails
<1>6. QED
  BY <1>4, <1>5
     DEF WithdrawPost, WithdrawPostAnswered, WithdrawPostLost, WithdrawPostFails,
         BuyPost, BuyPostAnswered, BuyPostLost, BuyPostFails, GameGrants, GameDelivers

(* The struct is stored, and what was given or taken off is accounted for;
   or the store fails, and the debt stays what it was. *)
LEMMA MoneySaves ==
    ASSUME TypeInv, MoneyInv, NEW s \in Slots,
           \A t \in Slots : t # s => ~ Running(t),
           WithdrawSave(s) \/ BuySave(s) \/ GiveSave(s) \/ DeductSave(s)
               \/ RewardSave(s)
    PROVE  MoneyInv'
<1> DEFINE h == handlers[s]
<1> DEFINE gives == h.op \in {"give", "checkin"}
<1>1. /\ Running(s) /\ h.pc = "save" /\ Finish(s)
      /\ faults' = faults /\ overflowed' = overflowed
  BY DEF WithdrawSave, BuySave, GiveSave, DeductSave, RewardSave, PayReward, At, auxVars
<1>2. /\ h.user \in Users /\ h.amount \in Amount /\ h.acc \in Row
      /\ rows \in [Users -> Row] /\ due \in [Users -> [Currency -> Int]]
      /\ h.op \in Op
  BY <1>1, HandlerType DEF TypeInv, TypeOK
<1>3. handlers' = [handlers EXCEPT ![s] = None]
  BY <1>1 DEF Finish
<1>4. /\ StructFollows(h, rows[h.user], overflowed)
      /\ Owes(h) => Ledger(h.user, rows[h.user], h.amount, due[h.user], overflowed)
      /\ ~ Owes(h) => Ledger(h.user, rows[h.user], ZeroRow, due[h.user], overflowed)
  BY <1>1, <1>2, NothingOwed DEF MoneyInv, MoneyHeld
<1>5. CASE /\ rows' = [rows EXCEPT ![h.user] = h.acc]
           /\ Owes(h) => due' = due
           /\ gives => Owe(h.user, h.amount)
           /\ h.op = "deduct" => Settle(h.user, h.amount)
  <2>1. rows'[h.user] = h.acc /\ \A v \in Users : v # h.user => rows'[v] = rows[v]
    BY <1>2, <1>5
  <2>2. /\ Owes(h) => due' = due
        /\ gives => \A c \in Currency : due'[h.user][c] = due[h.user][c] + h.amount[c]
        /\ h.op = "deduct" =>
              \A c \in Currency : due'[h.user][c] = due[h.user][c] - h.amount[c]
        /\ \A v \in Users : v # h.user => due'[v] = due[v]
        /\ Owes(h) \/ gives \/ h.op = "deduct"
    BY <1>1, <1>2, <1>5 DEF Owe, Settle, Debit, Owes, Op
  <2>3. ASSUME NEW c \in Currency, <<h.user, c>> \notin overflowed
        PROVE  /\ h.acc[c] - ZeroRow[c] >= due'[h.user][c]
               /\ faults = {} => h.acc[c] - ZeroRow[c] = due'[h.user][c]
    <3>1. /\ rows[h.user][c] \in Int /\ due[h.user][c] \in Int
          /\ h.amount[c] \in Nat /\ ZeroRow[c] = 0
      BY <1>2, Numbers
    <3>2. CASE Owes(h)
      <4>1. /\ h.acc[c] = rows[h.user][c] - h.amount[c]
            /\ due'[h.user][c] = due[h.user][c]
        BY <1>1, <1>4, <2>2, <3>2 DEF StructFollows, Owes
      <4>2. /\ rows[h.user][c] - h.amount[c] >= due[h.user][c]
            /\ faults = {} => rows[h.user][c] - h.amount[c] = due[h.user][c]
        BY <1>4, <2>3, <3>2 DEF Ledger
      <4>3. QED
        BY <3>1, <4>1, <4>2
    <3>3. CASE ~ Owes(h)
      <4>1. /\ rows[h.user][c] - ZeroRow[c] >= due[h.user][c]
            /\ faults = {} => rows[h.user][c] - ZeroRow[c] = due[h.user][c]
        BY <1>4, <2>3, <3>3 DEF Ledger
      <4>2. CASE gives
        <5>1. h.acc[c] = rows[h.user][c] + h.amount[c]
          BY <1>1, <1>4, <2>3, <4>2 DEF StructFollows
        <5>2. due'[h.user][c] = due[h.user][c] + h.amount[c]
          BY <2>2, <4>2
        <5>3. QED
          BY <3>1, <4>1, <5>1, <5>2
      <4>3. CASE h.op = "deduct"
        <5>1. h.acc[c] = rows[h.user][c] - h.amount[c]
          BY <1>1, <1>4, <4>3 DEF StructFollows
        <5>2. due'[h.user][c] = due[h.user][c] - h.amount[c]
          BY <2>2, <4>3
        <5>3. QED
          BY <3>1, <4>1, <5>1, <5>2
      <4>4. QED
        BY <2>2, <3>3, <4>2, <4>3
    <3>4. QED
      BY <3>2, <3>3
  <2>4. Ledger(h.user, rows'[h.user], ZeroRow, due'[h.user], overflowed')
    BY <1>1, <2>1, <2>3 DEF Ledger
  <2>5. QED
    BY <1>1, <1>2, <1>3, <2>1, <2>2, <2>4, MoneyStep
<1>6. CASE "saveError" \in faults /\ rows' = rows /\ due' = due
  <2>1. Ledger(h.user, rows[h.user], ZeroRow, due[h.user], overflowed)
    <3>1. CASE Owes(h)
      <4> SUFFICES ASSUME NEW c \in Currency, <<h.user, c>> \notin overflowed
                   PROVE  rows[h.user][c] - ZeroRow[c] >= due[h.user][c]
        BY <1>6 DEF Ledger
      <4>1. rows[h.user][c] - h.amount[c] >= due[h.user][c]
        BY <1>4, <3>1 DEF Ledger
      <4>2. QED
        BY <1>2, <4>1, Numbers
    <3>2. QED
      BY <1>4, <3>1
  <2>2. QED
    BY <1>1, <1>2, <1>3, <1>6, <2>1, MoneyStep
<1>7. QED
  <2>1. CASE WithdrawSave(s) \/ BuySave(s)
    BY <1>5, <1>6, <2>1
       DEF WithdrawSave, BuySave, SaveAccount, SaveAccountFails, Owes, At, auxVars
  <2>2. CASE GiveSave(s) \/ RewardSave(s)
    BY <1>5, <1>6, <2>2
       DEF GiveSave, RewardSave, PayReward, SaveAccount, SaveAccountFails, Owes, At
  <2>3. CASE DeductSave(s)
    BY <1>5, <1>6, <2>3 DEF DeductSave, SaveAccount, SaveAccountFails, Owes, At
  <2>4. QED
    BY <2>1, <2>2, <2>3

(* A check-in that has not got to its reward has nothing to do with money. *)
LEMMA MoneyRecords ==
    ASSUME TypeInv, MoneyInv, NEW s \in Slots,
           \A t \in Slots : t # s => ~ Running(t),
           CheckinRecord(s) \/ CheckinToday(s) \/ CheckinStreak(s)
               \/ CheckinSaveRecord(s)
    PROVE  MoneyInv'
<1> DEFINE h == handlers[s]
<1>1. /\ Running(s) /\ ~ Owes(h) /\ faults' = faults
      /\ UNCHANGED <<rows, due, overflowed>>
  BY DEF CheckinRecord, CheckinToday, CheckinStreak, CheckinSaveRecord, At, Owes,
         OnlyHandlerMoves, tableVars, auxVars
<1>2. h \in Handler
  BY <1>1 DEF TypeInv, TypeOK, Running
<1>3. CASE Finish(s)
  BY <1>1, <1>3, MoneyFinish
<1>4. CASE ~ Finish(s)
  <2> DEFINE Further(g) ==
        /\ handlers' = [handlers EXCEPT ![s] = g]
        /\ g # None /\ g.user = h.user
        /\ g.pc \notin {"post", "save"}
  <2>1. \E g : Further(g)
    <3>1. CASE CheckinRecord(s)
      <4>1. PICK rec \in GetRecord(h.user) :
                handlers' = [handlers EXCEPT ![s].pc = "today", ![s].rec = rec]
        BY <3>1 DEF CheckinRecord
      <4> DEFINE g == [h EXCEPT !.pc = "today", !.rec = rec]
      <4>2. rec \in Record
        BY <1>1, <4>1, HandlerType
           DEF GetRecord, TypeInv, TypeOK, NoRecord, NoDate, Record
      <4>3. g \in Handler /\ g.pc = "today" /\ g.user = h.user
        BY <1>2, <4>2 DEF Handler, PC
      <4>4. handlers' = [handlers EXCEPT ![s] = g]
        BY <4>1
      <4> HIDE DEF g
      <4>5. Further(g)
        BY <4>3, <4>4, NoneAssumption
      <4>6. QED
        BY <4>5
    <3>2. CASE CheckinToday(s)
      <4> DEFINE g == [h EXCEPT !.pc = "streak", !.today = day]
      <4>1. g \in Handler /\ g.pc = "streak" /\ g.user = h.user
        BY <1>2 DEF Handler, PC, TypeInv, TypeOK
      <4>2. handlers' = [handlers EXCEPT ![s] = g]
        BY <1>4, <3>2 DEF CheckinToday
      <4> HIDE DEF g
      <4>3. Further(g)
        BY <4>1, <4>2, NoneAssumption
      <4>4. QED
        BY <4>3
    <3>3. CASE CheckinStreak(s)
      <4> DEFINE next == NextRecord(h.rec, h.today, day - 1)
      <4> DEFINE g == [h EXCEPT !.pc = "saveRecord", !.rec = next]
      <4>1. next \in Record
        BY <1>2 DEF NextRecord, Record, Handler
      <4> HIDE DEF next
      <4>2. g \in Handler /\ g.pc = "saveRecord" /\ g.user = h.user
        BY <1>2, <4>1 DEF Handler, PC
      <4>3. handlers' = [handlers EXCEPT ![s] = g]
        BY <3>3 DEF CheckinStreak, next
      <4> HIDE DEF g
      <4>4. Further(g)
        BY <4>2, <4>3, NoneAssumption
      <4>5. QED
        BY <4>4
    <3>4. CASE CheckinSaveRecord(s)
      <4> DEFINE g == [h EXCEPT !.pc = "read"]
      <4>1. g \in Handler /\ g.pc = "read" /\ g.user = h.user
        BY <1>2 DEF Handler, PC
      <4>2. handlers' = [handlers EXCEPT ![s] = g]
        BY <3>4 DEF CheckinSaveRecord, Goto
      <4> HIDE DEF g
      <4>3. Further(g)
        BY <4>1, <4>2, NoneAssumption
      <4>4. QED
        BY <4>3
    <3>5. QED
      BY <3>1, <3>2, <3>3, <3>4
  <2>2. PICK g : Further(g)
    BY <2>1
  <2>3. StructFollows(g, rows[g.user], overflowed') /\ ~ Owes(g)
    BY <2>2 DEF StructFollows, Owes
  <2>4. QED
    BY <1>1, <2>2, <2>3, MoneyGoesOn
<1>5. QED
  BY <1>3, <1>4

(* All steps. *)
LEMMA MoneyKept ==
    ASSUME TypeInv, OneHandler, Serial, MoneyInv, [Next]_vars
    PROVE  MoneyInv'
<1>1. ASSUME NEW s \in Slots, Dispatch(s) PROVE MoneyInv'
  <2>1. PICK u \in Users : \E h \in Commands(u) : Take(s, h)
    BY <1>1 DEF Dispatch
  <2>2. PICK h \in Commands(u) : Take(s, h)
    BY <2>1
  <2>3. /\ handlers' = [handlers EXCEPT ![s] = h]
        /\ \A t \in Slots : ~ Running(t)
    BY <2>2, LoopAssumption DEF Take, OneHandler, Serial
  <2>4. h.pc \in {"read", "record"} /\ h.user = u
    BY CommandsType DEF Commands, NewHandler
  <2>5. Ledger(u, rows[u], ZeroRow, due[u], overflowed)
    BY <2>3, NothingOwed
  <2>6. /\ StructFollows(h, rows[u], overflowed) /\ ~ Owes(h)
        /\ UNCHANGED <<faults, rows, due, overflowed>>
    BY <1>1, <2>4 DEF StructFollows, Owes, Dispatch, tableVars, auxVars
  <2>7. QED
    BY <2>3, <2>4, <2>5, <2>6, MoneyStep
<1>2. ASSUME NEW s \in Slots, HandlerStep(s) PROVE MoneyInv'
  <2>1. \A t \in Slots : t # s => ~ Running(t)
    BY <1>2, HandlerMoves, Alone
  <2>2. CASE Refuse(s)
    BY <2>1, <2>2, MoneyFinish
       DEF Refuse, OnlyHandlerMoves, tableVars, auxVars, Owes
  <2>3. QED
    BY <1>2, <2>1, <2>2, MoneyReads, MoneyCredits, MoneyPosts, MoneySaves, MoneyRecords
       DEF HandlerStep, BankStep, BuyStep, CheckinStep
<1>3. CASE Crash
  <2>1. /\ \A s \in Slots : ~ Running(s)'
        /\ UNCHANGED <<faults, rows, due, overflowed>> /\ "crash" \in faults
    BY <1>3 DEF Crash, ProcessDies, Running, tableVars, auxVars
  <2>2. ASSUME NEW u \in Users PROVE Ledger(u, rows[u], ZeroRow, due[u], overflowed)
    <3>1. CASE ~ Owing(u)
      BY <3>1 DEF MoneyInv
    <3>2. CASE Owing(u)
      <4>1. PICK s \in Slots : Running(s) /\ handlers[s].user = u /\ Owes(handlers[s])
        BY <3>2 DEF Owing
      <4>2. /\ Ledger(u, rows[u], handlers[s].amount, due[u], overflowed)
            /\ handlers[s].amount \in Amount
        BY <4>1, HandlerType DEF MoneyInv, MoneyHeld
      <4> SUFFICES ASSUME NEW c \in Currency, <<u, c>> \notin overflowed
                   PROVE  rows[u][c] - ZeroRow[c] >= due[u][c]
        BY <2>1 DEF Ledger
      <4>3. rows[u][c] - handlers[s].amount[c] >= due[u][c]
        BY <4>2 DEF Ledger
      <4>4. QED
        BY <4>2, <4>3, Numbers
    <3>3. QED
      BY <3>1, <3>2
  <2>3. QED
    BY <2>1, <2>2 DEF MoneyInv, Ledger
<1>4. CASE Timeout \/ Midnight \/ Done \/ UNCHANGED vars
  BY <1>4 DEF Timeout, WaitEnds, Midnight, Done, vars, tableVars, auxVars,
              MoneyInv, MoneyHeld, Ledger, Owing, Running
<1>5. QED
  BY <1>1, <1>2, <1>3, <1>4 DEF Next

-----------------------------------------------------------------------------
(* Every step keeps the records exact, and what is paid apart. *)

(* A step of the only handler that leaves records and history alone. *)
LEMMA RecordStep ==
    ASSUME TypeInv, RecordInv, NEW s \in Slots, NEW g,
           \A t \in Slots : t # s => ~ Running(t),
           handlers' = [handlers EXCEPT ![s] = g],
           UNCHANGED <<records, history>>, straddled \subseteq straddled',
           g # None =>
             /\ g.pc \in {"today", "streak"} => g.rec = records[g.user]
             /\ g.pc = "saveRecord" =>
                  /\ records[g.user].last < g.today
                  /\ g.user \notin straddled' =>
                       g.rec.days >= 1 /\ g.rec.last - g.rec.days \notin history[g.user]
    PROVE  RecordInv'
<1>1. /\ handlers'[s] = g
      /\ \A t \in Slots : t # s => ~ Running(t)'
  BY DEF TypeInv, TypeOK, Running
<1>2. ASSUME NEW t \in Slots, Running(t)' PROVE RecordHeld(handlers[t])'
  <2>1. t = s /\ g # None
    BY <1>1, <1>2 DEF Running
  <2>2. QED
    BY <1>1, <2>1 DEF RecordHeld
<1>3. QED
  BY <1>2 DEF RecordInv

(* The same of what is paid. *)
LEMMA PaidStep ==
    ASSUME TypeInv, PaidInv, NEW s \in Slots, NEW g,
           \A t \in Slots : t # s => ~ Running(t),
           handlers' = [handlers EXCEPT ![s] = g],
           UNCHANGED <<records, paid>>,
           g # None /\ g.op = "checkin" /\ g.pc \in {"read", "save"} =>
                g.today = records[g.user].last /\ g.today \notin paid[g.user]
    PROVE  PaidInv'
<1>1. /\ handlers'[s] = g
      /\ \A t \in Slots : t # s => ~ Running(t)'
  BY DEF TypeInv, TypeOK, Running
<1>2. ASSUME NEW t \in Slots, Running(t)' PROVE PaidHeld(handlers[t])'
  <2>1. t = s /\ g # None
    BY <1>1, <1>2 DEF Running
  <2>2. QED
    BY <1>1, <2>1 DEF PaidHeld
<1>3. QED
  BY <1>2 DEF PaidInv

(* A handler that returns holds nothing. *)
LEMMA ReturnKeeps ==
    ASSUME TypeInv, NEW s \in Slots, \A t \in Slots : t # s => ~ Running(t),
           Finish(s), UNCHANGED <<records, history, straddled, paid>>
    PROVE  (RecordInv => RecordInv') /\ (PaidInv => PaidInv')
<1>1. handlers' = [handlers EXCEPT ![s] = None]
  BY DEF Finish
<1>2. QED
  BY <1>1, RecordStep, PaidStep

(* One that goes on with an account holds no record, and the same date. *)
LEMMA GoingOnKeeps ==
    ASSUME TypeInv, NEW s \in Slots, \A t \in Slots : t # s => ~ Running(t),
           Running(s), NEW pc \in {"post", "save"}, NEW acc \in Row,
           GotoWith(s, pc, acc), UNCHANGED <<records, history, straddled, paid>>,
           handlers[s].op = "checkin" => handlers[s].pc = "read"
    PROVE  (RecordInv => RecordInv') /\ (PaidInv => PaidInv')
<1>1. PICK g : /\ g # None /\ handlers' = [handlers EXCEPT ![s] = g]
               /\ g.pc = pc /\ g.user = handlers[s].user
               /\ g.op = handlers[s].op /\ g.today = handlers[s].today
  BY GoneWith DEF PC
<1>2. RecordInv => RecordInv'
  BY <1>1, RecordStep
<1>3. ASSUME PaidInv PROVE PaidInv'
  <2>1. g.op = "checkin" => /\ g.today = records[g.user].last
                            /\ g.today \notin paid[g.user]
    BY <1>1, <1>3 DEF PaidInv, PaidHeld
  <2>2. QED
    BY <1>1, <1>3, <2>1, PaidStep
<1>4. QED
  BY <1>2, <1>3

(* Bank and store have nothing to do with records. *)
LEMMA OthersKeep ==
    ASSUME TypeInv, NEW s \in Slots, \A t \in Slots : t # s => ~ Running(t),
           BankStep(s) \/ BuyStep(s) \/ Refuse(s)
    PROVE  (RecordInv => RecordInv') /\ (PaidInv => PaidInv')
<1> DEFINE h == handlers[s]
<1>1. Running(s) /\ UNCHANGED <<records, history, straddled, paid>>
  BY DEF BankStep, BuyStep, Refuse, WithdrawRead, WithdrawPost, WithdrawSave,
         GiveRead, GiveSave, DeductRead, DeductSave, BuyRead, BuyPost, BuySave,
         At, OnlyHandlerMoves, tableVars, auxVars
<1>2. h.user \in Users /\ h.amount \in Amount /\ h.acc \in Row
  BY <1>1, HandlerType
<1>3. CASE Finish(s)
  BY <1>1, <1>3, ReturnKeeps
<1>4. CASE ~ Finish(s)
  <2>1. /\ h.op # "checkin"
        /\ \E pc \in {"post", "save"} : \E acc \in Row : GotoWith(s, pc, acc)
    <3>1. CASE WithdrawRead(s) \/ DeductRead(s) \/ BuyRead(s)
      <4>1. PICK acc \in GetAccount(h.user) :
              /\ Covers(acc, h.amount)
              /\ \/ GotoWith(s, "post", acc)
                 \/ GotoWith(s, "save", Debit(acc, h.amount))
        BY <1>4, <3>1 DEF WithdrawRead, DeductRead, BuyRead
      <4>2. acc \in Row /\ Debit(acc, h.amount) \in Row
        BY <1>2, <4>1, GetAccountType, DebitType DEF TypeInv
      <4>3. QED
        BY <3>1, <4>1, <4>2 DEF WithdrawRead, DeductRead, BuyRead, At
    <3>2. CASE GiveRead(s)
      <4>1. PICK acc \in GetAccount(h.user) : GotoWith(s, "save", Credit(acc, h.amount))
        BY <3>2 DEF GiveRead
      <4>2. Credit(acc, h.amount) \in Row
        BY <1>2, GetAccountType, CreditType DEF TypeInv
      <4>3. QED
        BY <3>2, <4>1, <4>2 DEF GiveRead, At
    <3>3. CASE WithdrawPost(s) \/ BuyPost(s)
      <4>1. h.pc = "post" /\ h.op # "checkin"
        BY <3>3 DEF WithdrawPost, BuyPost, At
      <4>2. Debit(h.acc, h.amount) \in Row
        BY <1>1, <1>2, <4>1, DebitType DEF TypeInv, Covered
      <4>3. GotoWith(s, "save", Debit(h.acc, h.amount))
        BY <1>4, <3>3
           DEF WithdrawPost, WithdrawPostAnswered, WithdrawPostLost,
               WithdrawPostFails, BuyPost, BuyPostAnswered, BuyPostLost, BuyPostFails
      <4>4. QED
        BY <4>1, <4>2, <4>3
    <3>4. QED
      BY <1>4, <3>1, <3>2, <3>3
         DEF BankStep, BuyStep, Refuse, WithdrawSave, GiveSave, DeductSave, BuySave
  <2>2. QED
    BY <1>1, <2>1, GoingOnKeeps
<1>5. QED
  BY <1>3, <1>4

(***************************************************************************)
(* The new record: without a second date it either goes on from the record *)
(* of the day before, whose streak began where this one begins, or begins  *)
(* today, the last check-in being earlier than yesterday.                  *)
(***************************************************************************)
LEMMA NextRecordExact ==
    ASSUME NEW rec \in Record, NEW today \in Nat, today >= FirstDay,
           NEW dates \in SUBSET Nat, rec.last < today,
           \A d \in dates : d <= rec.last,
           rec.last # NoDate => rec.last - rec.days \notin dates
    PROVE  LET next == NextRecord(rec, today, today - 1)
           IN  next.days >= 1 /\ next.last - next.days \notin dates
<1> DEFINE next == NextRecord(rec, today, today - 1)
<1>1. rec.last \in Nat /\ rec.days \in Nat /\ next.last = today
  BY DEF Record, NextRecord
<1>2. CASE rec.last = today - 1
  <2>1. next.days = rec.days + 1
    BY <1>2 DEF NextRecord, Continues
  <2>2. rec.last # NoDate
    BY <1>1, <1>2 DEF NoDate, FirstDay
  <2>3. today - (rec.days + 1) = rec.last - rec.days
    BY <1>1, <1>2
  <2>4. QED
    BY <1>1, <2>1, <2>2, <2>3
<1>3. CASE rec.last # today - 1
  <2>1. next.days = 1
    BY <1>3 DEF NextRecord, Continues
  <2>2. rec.last < today - 1
    BY <1>1, <1>3
  <2>3. \A d \in dates : d < today - 1
    BY <1>1, <2>2
  <2>4. QED
    BY <1>1, <2>1, <2>3
<1>4. QED
  BY <1>2, <1>3

(* The steps of a check-in that do not store. *)
LEMMA CheckinKeeps ==
    ASSUME TypeInv, StreakInv, Serial, NEW s \in Slots,
           \A t \in Slots : t # s => ~ Running(t),
           CheckinRecord(s) \/ CheckinToday(s) \/ CheckinStreak(s)
               \/ RewardRead(s)
    PROVE  (RecordInv => RecordInv') /\ (PaidInv => PaidInv')
<1> DEFINE h == handlers[s]
<1>1. /\ Running(s) /\ UNCHANGED <<records, history, paid>>
      /\ straddled \subseteq straddled'
  BY DEF CheckinRecord, CheckinToday, CheckinStreak, RewardRead, At,
         OnlyHandlerMoves, tableVars, auxVars
<1>2. /\ h \in Handler /\ h.user \in Users /\ h.today \in Nat
      /\ h.rec \in Record /\ day \in Nat /\ day >= FirstDay
      /\ records[h.user] \in Record /\ history[h.user] \in SUBSET Nat
      /\ records[h.user].last <= day
  BY <1>1, HandlerType DEF TypeInv, TypeOK, Running, StreakInv
<1>3. CASE CheckinRecord(s)
  <2>1. handlers' = [handlers EXCEPT ![s].pc = "today", ![s].rec = records[h.user]]
    BY <1>3 DEF CheckinRecord, GetRecord, Serial
  <2> DEFINE g == [h EXCEPT !.pc = "today", !.rec = records[h.user]]
  <2>2. g.pc = "today" /\ g.rec = records[h.user] /\ g.user = h.user
    BY <1>2 DEF Handler
  <2>3. handlers' = [handlers EXCEPT ![s] = g]
    BY <2>1
  <2> HIDE DEF g
  <2>4. RecordInv => RecordInv'
    BY <1>1, <2>2, <2>3, RecordStep
  <2>5. PaidInv => PaidInv'
    BY <1>1, <2>2, <2>3, PaidStep
  <2>6. QED
    BY <2>4, <2>5
<1>4. CASE CheckinToday(s)
  <2>1. CASE Finish(s)
    <3>1. UNCHANGED straddled
      BY <1>4 DEF CheckinToday, OnlyHandlerMoves, auxVars
    <3>2. QED
      BY <1>1, <2>1, <3>1, ReturnKeeps
  <2>2. CASE ~ Finish(s)
    <3> DEFINE g == [h EXCEPT !.pc = "streak", !.today = day]
    <3>1. /\ g.pc = "streak" /\ g.rec = h.rec /\ g.user = h.user
      BY <1>2 DEF Handler
    <3>2. handlers' = [handlers EXCEPT ![s] = g] /\ h.pc = "today"
      BY <1>4, <2>2 DEF CheckinToday, At
    <3> HIDE DEF g
    <3>3. RecordInv => RecordInv'
      <4>1. RecordInv => g.rec = records[g.user]
        BY <1>1, <3>1, <3>2 DEF RecordInv, RecordHeld
      <4>2. QED
        BY <1>1, <3>1, <3>2, <4>1, RecordStep
    <3>4. PaidInv => PaidInv'
      BY <1>1, <3>1, <3>2, PaidStep
    <3>5. QED
      BY <3>3, <3>4
  <2>3. QED
    BY <2>1, <2>2
<1>5. CASE CheckinStreak(s)
  <2> DEFINE next == NextRecord(h.rec, h.today, day - 1)
  <2> DEFINE g == [h EXCEPT !.pc = "saveRecord", !.rec = next]
  <2>1. /\ g.pc = "saveRecord" /\ g.rec = next /\ g.user = h.user
        /\ g.today = h.today
    BY <1>2 DEF Handler
  <2>2. handlers' = [handlers EXCEPT ![s] = g] /\ h.pc = "streak"
    BY <1>5 DEF CheckinStreak, At
  <2>3. h.rec.last < h.today
    BY <1>1, <2>2 DEF StreakInv, CheckinBacked
  <2> HIDE DEF g
  <2>4. ASSUME RecordInv PROVE RecordInv'
    <3>1. h.rec = records[h.user]
      BY <1>1, <2>2, <2>4 DEF RecordInv, RecordHeld
    <3>2. ASSUME h.user \notin straddled'
          PROVE  next.days >= 1 /\ next.last - next.days \notin history[h.user]
      <4>1. h.today = day /\ h.user \notin straddled
        BY <1>5, <3>2 DEF CheckinStreak
      <4>2. /\ \A d \in history[h.user] : d <= h.rec.last
            /\ h.rec.last # NoDate =>
                  h.rec.last - h.rec.days \notin history[h.user]
        BY <1>2, <2>4, <3>1, <4>1 DEF RecordInv
      <4>3. QED
        BY <1>2, <2>3, <4>1, <4>2, NextRecordExact
    <3> HIDE DEF next
    <3>3. QED
      BY <1>1, <2>1, <2>2, <2>3, <2>4, <3>1, <3>2, RecordStep
  <2>5. PaidInv => PaidInv'
    BY <1>1, <2>1, <2>2, PaidStep
  <2>6. QED
    BY <2>4, <2>5
<1>6. CASE RewardRead(s)
  <2>1. PICK acc \in GetAccount(h.user) : GotoWith(s, "save", Credit(acc, h.amount))
    BY <1>6 DEF RewardRead
  <2>2. Credit(acc, h.amount) \in Row
    BY <1>1, <1>2, HandlerType, GetAccountType, CreditType DEF TypeInv
  <2>3. UNCHANGED straddled /\ h.pc = "read"
    BY <1>6 DEF RewardRead, At
  <2>4. QED
    BY <1>1, <2>1, <2>2, <2>3, GoingOnKeeps
<1>7. QED
  BY <1>3, <1>4, <1>5, <1>6

(* The record is stored with its date; or that fails. *)
LEMMA SaveRecordKeeps ==
    ASSUME TypeInv, StreakInv, RecordInv, NEW s \in Slots,
           \A t \in Slots : t # s => ~ Running(t),
           CheckinSaveRecord(s)
    PROVE  /\ RecordInv'
           /\ PaidInv /\ "saveError" \notin faults => PaidInv'
<1> DEFINE h == handlers[s]
<1> DEFINE u == h.user
<1> DEFINE g == [h EXCEPT !.pc = "read"]
<1>1. /\ Running(s) /\ h.pc = "saveRecord"
      /\ UNCHANGED <<paid, straddled>>
  BY DEF CheckinSaveRecord, At
<1>2. /\ h \in Handler /\ u \in Users /\ h.today \in Nat
      /\ h.rec \in Record /\ h.rec.last = h.today
      /\ records[u] \in Record /\ history[u] \in SUBSET Nat
      /\ records \in [Users -> Record] /\ history \in [Users -> SUBSET Nat]
  BY <1>1, HandlerType DEF TypeInv, TypeOK, Running, StreakInv, CheckinBacked
<1>3. /\ records[u].last < h.today
      /\ u \notin straddled =>
           h.rec.days >= 1 /\ h.rec.last - h.rec.days \notin history[u]
  BY <1>1 DEF RecordInv, RecordHeld
<1>4. /\ handlers' = [handlers EXCEPT ![s] = g]
      /\ g.pc = "read" /\ g.user = u /\ g.today = h.today
  BY <1>2 DEF CheckinSaveRecord, Goto, Handler
<1> HIDE DEF g
<1>5. /\ handlers'[s] = g
      /\ \A t \in Slots : t # s => ~ Running(t)'
  BY <1>4 DEF TypeInv, TypeOK, Running
<1>6. CASE "saveError" \in faults /\ UNCHANGED <<records, history>>
  BY <1>1, <1>4, <1>6, RecordStep
<1>7. CASE /\ records' = [records EXCEPT ![u] = h.rec]
           /\ history' = [history EXCEPT ![u] = @ \cup {h.today}]
  <2>1. /\ records'[u] = h.rec /\ history'[u] = history[u] \cup {h.today}
        /\ \A v \in Users : v # u =>
             records'[v] = records[v] /\ history'[v] = history[v]
    BY <1>2, <1>7
  <2>2. RecordInv'
    <3>1. \A t \in Slots : Running(t)' => RecordHeld(handlers[t])'
      BY <1>4, <1>5 DEF RecordHeld
    <3>2. \A d \in history'[u] : d <= records'[u].last
      <4>1. records[u].last \in Nat
        BY <1>2 DEF Record
      <4>2. \A d \in history[u] : d \in Nat /\ d <= records[u].last
        BY <1>2 DEF RecordInv
      <4>3. QED
        BY <1>2, <1>3, <2>1, <4>1, <4>2
    <3>3. u \notin straddled =>
             records'[u].last - records'[u].days \notin history'[u]
      <4>1. h.rec.days \in Nat
        BY <1>2 DEF Record
      <4>2. QED
        BY <1>2, <1>3, <2>1, <4>1
    <3>4. QED
      BY <1>1, <2>1, <3>1, <3>2, <3>3 DEF RecordInv
  <2>3. ASSUME PaidInv PROVE PaidInv'
    <3>1. records[u].last \in Nat /\ paid[u] \in SUBSET Nat
      BY <1>2 DEF Record, TypeInv, TypeOK
    <3>2. \A d \in paid[u] : d < h.today
      BY <1>2, <1>3, <2>3, <3>1 DEF PaidInv
    <3>3. \A d \in paid[u] : d <= records'[u].last
      BY <1>2, <2>1, <3>1, <3>2
    <3>4. h.today \notin paid[u]
      BY <1>2, <3>2
    <3>5. \A t \in Slots : Running(t)' => PaidHeld(handlers[t])'
      BY <1>1, <1>2, <1>4, <1>5, <2>1, <3>4 DEF PaidHeld
    <3>6. QED
      BY <1>1, <2>1, <2>3, <3>3, <3>5 DEF PaidInv
  <2>4. QED
    BY <2>2, <2>3
<1>8. QED
  BY <1>6, <1>7 DEF CheckinSaveRecord

(* The reward is stored: its date is paid; or that fails. *)
LEMMA RewardSaveKeeps ==
    ASSUME TypeInv, NEW s \in Slots,
           \A t \in Slots : t # s => ~ Running(t),
           RewardSave(s)
    PROVE  (RecordInv => RecordInv') /\ (PaidInv => PaidInv')
<1> DEFINE h == handlers[s]
<1>1. /\ Running(s) /\ h.pc = "save" /\ h.op = "checkin"
      /\ UNCHANGED <<records, history, straddled>>
      /\ handlers' = [handlers EXCEPT ![s] = None]
  BY DEF RewardSave, PayReward, At, Finish
<1>2. h.user \in Users /\ h.today \in Nat /\ records[h.user] \in Record
  BY <1>1, HandlerType DEF TypeInv, TypeOK
<1>3. RecordInv => RecordInv'
  BY <1>1, RecordStep
<1>4. ASSUME PaidInv PROVE PaidInv'
  <2>1. CASE paid' = paid
    BY <1>1, <1>4, <2>1, PaidStep
  <2>2. CASE paid' = [paid EXCEPT ![h.user] = @ \cup {h.today}]
    <3>1. h.today = records[h.user].last
      BY <1>1, <1>4 DEF PaidInv, PaidHeld
    <3>2. \A t \in Slots : ~ Running(t)'
      BY <1>1 DEF TypeInv, TypeOK, Running
    <3>3. ASSUME NEW v \in Users, NEW d \in paid'[v] PROVE d <= records[v].last
      <4>1. d \in paid[v] \/ (v = h.user /\ d = h.today)
        BY <1>2, <2>2, <3>3 DEF TypeInv, TypeOK
      <4>2. QED
        BY <1>2, <1>4, <3>1, <4>1 DEF PaidInv
    <3>4. QED
      BY <1>1, <3>2, <3>3 DEF PaidInv
  <2>3. QED
    BY <2>1, <2>2 DEF RewardSave, PayReward
<1>5. QED
  BY <1>3, <1>4

(* All steps. *)
LEMMA RecordsKept ==
    ASSUME TypeInv, StreakInv, OneHandler, Serial, RecordInv, [Next]_vars
    PROVE  /\ RecordInv'
           /\ PaidInv /\ "saveError" \notin faults => PaidInv'
<1>1. ASSUME NEW s \in Slots, Dispatch(s)
      PROVE  RecordInv' /\ (PaidInv => PaidInv')
  <2>1. PICK u \in Users : \E h \in Commands(u) : Take(s, h)
    BY <1>1 DEF Dispatch
  <2>2. PICK h \in Commands(u) : Take(s, h)
    BY <2>1
  <2>3. /\ handlers' = [handlers EXCEPT ![s] = h]
        /\ \A t \in Slots : ~ Running(t)
    BY <2>2, LoopAssumption DEF Take, OneHandler, Serial
  <2>4. h.pc \in {"read", "record"} /\ (h.op = "checkin" => h.pc = "record")
    BY CommandsType DEF Commands, NewHandler
  <2>5. UNCHANGED <<records, history, straddled, paid>>
    BY <1>1 DEF Dispatch, tableVars, auxVars
  <2>6. QED
    BY <2>3, <2>4, <2>5, RecordStep, PaidStep
<1>2. ASSUME NEW s \in Slots, HandlerStep(s)
      PROVE  /\ RecordInv'
             /\ PaidInv /\ "saveError" \notin faults => PaidInv'
  <2>1. \A t \in Slots : t # s => ~ Running(t)
    BY <1>2, HandlerMoves, Alone
  <2>2. QED
    BY <1>2, <2>1, OthersKeep, CheckinKeeps, SaveRecordKeeps, RewardSaveKeeps
       DEF HandlerStep, CheckinStep
<1>3. CASE Crash
  BY <1>3 DEF Crash, ProcessDies, tableVars, auxVars, RecordInv, PaidInv, Running
<1>4. CASE Timeout \/ Midnight \/ Done \/ UNCHANGED vars
  BY <1>4 DEF Timeout, WaitEnds, Midnight, Done, vars, tableVars, auxVars,
              RecordInv, RecordHeld, PaidInv, PaidHeld, Running
<1>5. QED
  BY <1>1, <1>2, <1>3, <1>4 DEF Next

-----------------------------------------------------------------------------
(* The theorems. *)

(* At the start nothing runs and the rows are what is due. *)
LEMMA SerialInit == Init => SerialInv
<1> SUFFICES ASSUME Init PROVE SerialInv
  OBVIOUS
<1>1. \A s \in Slots : ~ Running(s)
  BY DEF Init, Running
<1>2. MoneyInv
  <2>1. ASSUME NEW u \in Users, NEW c \in Currency
        PROVE  rows[u][c] - ZeroRow[c] = due[u][c] /\ due[u][c] \in Int
    <3>1. rows[u][c] \in Int /\ due[u][c] = rows[u][c]
      BY TypeInit, MaxIntAssumption DEF Init, TypeInv, TypeOK, Row
    <3>2. QED
      BY <3>1 DEF ZeroRow
  <2>2. QED
    BY <1>1, <2>1 DEF MoneyInv, Ledger
<1>3. RecordInv /\ PaidInv
  BY <1>1 DEF Init, RecordInv, PaidInv, NoRecord, NoDate
<1>4. QED
  BY <1>1, <1>2, <1>3 DEF SerialInv, OneHandler

(* A behaviour keeps its faults. *)
LEMMA FaultsStay == [Next]_vars => faults' = faults
<1>1. ASSUME NEW s \in Slots, HandlerStep(s) PROVE faults' = faults
  BY <1>1 DEF HandlerStep, Refuse, BankStep, BuyStep, CheckinStep, WithdrawRead,
         WithdrawPost, WithdrawSave, GiveRead, GiveSave, DeductRead, DeductSave,
         BuyRead, BuyPost, BuySave, CheckinRecord, CheckinToday, CheckinStreak,
         CheckinSaveRecord, RewardRead, RewardSave, OnlyHandlerMoves
<1>2. QED
  BY <1>1 DEF Next, Dispatch, Timeout, Crash, Midnight, Done, vars

(* The invariant is inductive, given the types and the streaks. *)
LEMMA SerialInvHolds == Spec => []SerialInv
<1>1. TypeInv /\ StreakInv /\ SerialInv /\ [Next]_vars => SerialInv'
  BY OneHandlerKept, MoneyKept, RecordsKept, FaultsStay DEF SerialInv, Serial
<1>2. QED
  BY <1>1, SerialInit, TypeCorrect, StreakInvHolds, PTL DEF Spec, TypeInv

(***************************************************************************)
(* While handlers do not overlap and reads work, a user never has less     *)
(* than what was credited, less what the game handed out and the owner     *)
(* took: lost answers, failed saves and crashes cost the user nothing.     *)
(***************************************************************************)
THEOREM NobodyIsOvercharged == Spec => []NeverOvercharged
<1>1. TypeInv /\ SerialInv => NeverOvercharged
  <2> SUFFICES ASSUME TypeInv, SerialInv, Serial,
                      NEW u \in Users, NEW c \in Currency,
                      <<u, c>> \notin overflowed
               PROVE  rows[u][c] >= due[u][c]
    BY DEF NeverOvercharged, Serial
  <2>1. PICK n \in Amount : rows[u][c] - n[c] >= due[u][c]
    <3>1. CASE Owing(u)
      <4>1. PICK s \in Slots : Running(s) /\ handlers[s].user = u /\ Owes(handlers[s])
        BY <3>1 DEF Owing
      <4>2. handlers[s].amount \in Amount
        BY <4>1, HandlerType
      <4>3. Ledger(u, rows[u], handlers[s].amount, due[u], overflowed)
        BY <4>1 DEF SerialInv, MoneyInv, MoneyHeld
      <4>4. QED
        BY <4>2, <4>3 DEF Ledger
    <3>2. CASE ~ Owing(u)
      <4>1. Ledger(u, rows[u], ZeroRow, due[u], overflowed)
        BY <3>2 DEF SerialInv, MoneyInv
      <4>2. ZeroRow \in Amount
        BY MaxIntAssumption DEF ZeroRow, Amount
      <4>3. QED
        BY <4>1, <4>2 DEF Ledger
    <3>3. QED
      BY <3>1, <3>2
  <2>2. QED
    BY <2>1, Numbers
<1>2. QED
  BY <1>1, SerialInvHolds, TypeCorrect, PTL DEF TypeInv

(***************************************************************************)
(* Without faults the books balance whenever no handler runs.              *)
(***************************************************************************)
THEOREM TheBooksBalance == Spec => []BooksBalance
<1>1. TypeInv /\ SerialInv => BooksBalance
  <2> SUFFICES ASSUME TypeInv, SerialInv, Idle, faults = {},
                      NEW u \in Users, NEW c \in Currency,
                      <<u, c>> \notin overflowed
               PROVE  rows[u][c] = due[u][c]
    BY DEF BooksBalance
  <2>1. Ledger(u, rows[u], ZeroRow, due[u], overflowed)
    BY DEF SerialInv, Serial, MoneyInv, Owing, Idle
  <2>2. rows[u][c] - ZeroRow[c] = due[u][c]
    BY <2>1 DEF Ledger
  <2>3. rows[u][c] \in Int /\ ZeroRow[c] = 0
    BY MaxIntAssumption DEF TypeInv, TypeOK, Row, ZeroRow
  <2>4. QED
    BY <2>2, <2>3
<1>2. QED
  BY <1>1, SerialInvHolds, TypeCorrect, PTL DEF TypeInv

(***************************************************************************)
(* The day before a streak began has no check-in, unless a check-in of the *)
(* user read two different dates.                                          *)
(***************************************************************************)
THEOREM StreaksAreExact == Spec => []StreakExact
<1>1. SerialInv => StreakExact
  BY DEF SerialInv, Serial, RecordInv, StreakExact
<1>2. QED
  BY <1>1, SerialInvHolds, PTL

(***************************************************************************)
(* A check-in of one date is paid once, also when the process dies between *)
(* the two stores.                                                         *)
(***************************************************************************)
THEOREM RewardsArePaidOnce == Spec => RewardOncePerDay
<1>1. SerialInv /\ [Next]_vars =>
        [faults \cap {"readError", "saveError", "timeout"} = {} =>
           \A s \in Slots :
             PayReward(s) => handlers[s].today \notin paid[handlers[s].user]]_vars
  <2> SUFFICES ASSUME SerialInv, faults \cap {"readError", "saveError", "timeout"} = {},
                      NEW s \in Slots, PayReward(s)
               PROVE  handlers[s].today \notin paid[handlers[s].user]
    OBVIOUS
  <2>1. PaidInv
    BY DEF SerialInv, Serial
  <2>2. QED
    BY <2>1 DEF PaidInv, PaidHeld, PayReward, At
<1>2. QED
  BY <1>1, SerialInvHolds, PTL DEF Spec, RewardOncePerDay

=============================================================================
