---------------------------- MODULE EconomyProofs ---------------------------
(***************************************************************************)
(* Proofs that Economy keeps its types, that no account gets into debt and *)
(* that every streak is backed by check-ins, for any set of users, any     *)
(* number of handlers at once, any amounts and every fault.                *)
(***************************************************************************)
EXTENDS Economy, TLAPS

(***************************************************************************)
(* A handler that is about to ask the game holds a struct that covers what *)
(* it asks for.  The types need it: a debit stays within Go's int only     *)
(* because it has been checked.                                            *)
(***************************************************************************)
Covered ==
    \A s \in Slots : Running(s) /\ handlers[s].pc = "post" =>
        Covers(handlers[s].acc, handlers[s].amount)

TypeInv == TypeOK /\ Covered

-----------------------------------------------------------------------------
(* Arithmetic on rows. *)

(* Adding with wrap-around (Go's +=) gives a row again. *)
LEMMA CreditType ==
    ASSUME NEW acc \in Row, NEW n \in Amount
    PROVE  Credit(acc, n) \in Row
BY MaxIntAssumption DEF Credit, Wrap, Row, Amount, Currency

(* Subtracting a covered amount gives a row again, ... *)
LEMMA DebitType ==
    ASSUME NEW acc \in Row, NEW n \in Amount, Covers(acc, n)
    PROVE  Debit(acc, n) \in Row
BY MaxIntAssumption DEF Debit, Covers, Row, Amount, Currency

(* ... and makes no number negative that was not. *)
LEMMA DebitNoDebt ==
    ASSUME NEW acc \in Row, NEW n \in Amount, Covers(acc, n),
           NEW c \in Currency, Debit(acc, n)[c] < 0
    PROVE  acc[c] < 0
BY MaxIntAssumption DEF Debit, Covers, Row, Amount

(* A credit that is negative has overflowed or was negative before. *)
LEMMA CreditNoDebt ==
    ASSUME NEW acc \in Row, NEW n \in Amount, NEW u,
           NEW c \in Currency, Credit(acc, n)[c] < 0
    PROVE  acc[c] < 0 \/ <<u, c>> \in Overflows(u, acc, n)
BY MaxIntAssumption DEF Credit, Wrap, Row, Amount, Overflows

LEMMA ZeroRowType == ZeroRow \in Row
BY MaxIntAssumption DEF ZeroRow, Row

(* getAccount gives a row, and one that is negative only if it is stored. *)
LEMMA GetAccountType ==
    ASSUME TypeOK, NEW u \in Users, NEW acc \in GetAccount(u)
    PROVE  /\ acc \in Row
           /\ \A c \in Currency : acc[c] < 0 => rows[u][c] < 0
<1>1. CASE acc = rows[u]
  BY <1>1 DEF TypeOK
<1>2. CASE acc = ZeroRow
  BY <1>2, ZeroRowType DEF ZeroRow
<1>3. QED
  BY <1>1, <1>2 DEF GetAccount

(* The handlers a command can start. *)
LEMMA CommandsType ==
    ASSUME NEW u \in Users, NEW h \in Commands(u)
    PROVE  /\ h \in Handler
           /\ h.pc \in {"read", "record"}
BY EconomyAssumption, ZeroRowType
   DEF Commands, NewHandler, Handler, PC, Op, Record, NoRecord, NoDate

-----------------------------------------------------------------------------

(* What Finish, Goto and GotoWith leave of the handlers and of the loop. *)
LEMMA FinishType ==
    ASSUME TypeInv, NEW s \in Slots, Finish(s)
    PROVE  /\ handlers' \in [Slots -> Handler \cup {None}]
           /\ loop' \in Slots \cup {None}
           /\ loop' # None => Running(loop)'
           /\ Covered'
BY DEF TypeInv, TypeOK, Covered, Finish, Running

LEMMA GotoType ==
    ASSUME TypeInv, NEW s \in Slots, Running(s), NEW pc \in PC \ {"post"},
           Goto(s, pc)
    PROVE  /\ handlers' \in [Slots -> Handler \cup {None}]
           /\ loop' \in Slots \cup {None}
           /\ loop' # None => Running(loop)'
           /\ Covered'
<1>1. [handlers[s] EXCEPT !.pc = pc] \in Handler
  BY DEF TypeInv, TypeOK, Running, Handler
<1>2. QED
  BY <1>1, NoneAssumption, LoopAssumption DEF TypeInv, TypeOK, Covered, Goto, Running

LEMMA GotoWithType ==
    ASSUME TypeInv, NEW s \in Slots, Running(s), NEW pc \in PC, NEW acc \in Row,
           pc = "post" => Covers(acc, handlers[s].amount),
           GotoWith(s, pc, acc)
    PROVE  /\ handlers' \in [Slots -> Handler \cup {None}]
           /\ loop' \in Slots \cup {None}
           /\ loop' # None => Running(loop)'
           /\ Covered'
<1> DEFINE h == [handlers[s] EXCEPT !.pc = pc, !.acc = acc]
<1>1. /\ h \in Handler
      /\ h.pc = pc /\ h.acc = acc /\ h.amount = handlers[s].amount
  BY DEF TypeInv, TypeOK, Running, Handler
<1>2. handlers' = [handlers EXCEPT ![s] = h] /\ loop' = loop
  BY DEF GotoWith
<1> HIDE DEF h
<1>3. QED
  BY <1>1, <1>2, NoneAssumption, LoopAssumption DEF TypeInv, TypeOK, Covered, Running

LEMMA UpdateType ==
    ASSUME TypeInv, NEW s \in Slots, Running(s),
           NEW h \in Handler, h.pc # "post",
           handlers' = [handlers EXCEPT ![s] = h], loop' = loop
    PROVE  /\ handlers' \in [Slots -> Handler \cup {None}]
           /\ loop' \in Slots \cup {None}
           /\ loop' # None => Running(loop)'
           /\ Covered'
BY NoneAssumption, LoopAssumption DEF TypeInv, TypeOK, Covered, Running

-----------------------------------------------------------------------------
(* Every action keeps the types. *)

LEMMA TypeInit == Init => TypeInv
<1> SUFFICES ASSUME Init PROVE TypeInv
  OBVIOUS
<1>1. InitialRows \subseteq Row /\ FaultRegimes \subseteq SUBSET Fault
  BY EconomyAssumption
<1>2. rows \in [Users -> Row] /\ due \in [Users -> [Currency -> Int]]
  BY <1>1, MaxIntAssumption DEF Init, Row
<1>3. records \in [Users -> Record]
  BY DEF Init, Record, NoRecord, NoDate
<1>4. Covered /\ handlers \in [Slots -> Handler \cup {None}]
  BY DEF Init, Covered, Running
<1>5. QED
  BY <1>1, <1>2, <1>3, <1>4 DEF Init, TypeInv, TypeOK, FirstDay

LEMMA TypeLoop == TypeInv /\ (Timeout \/ Crash \/ Midnight \/ Done) => TypeInv'
<1> SUFFICES ASSUME TypeInv PROVE Timeout \/ Crash \/ Midnight \/ Done => TypeInv'
  OBVIOUS
<1> USE DEF TypeInv, TypeOK, Covered, Running, tableVars, auxVars
<1>1. CASE Timeout
  BY <1>1 DEF Timeout, WaitEnds
<1>2. CASE Crash
  BY <1>2 DEF Crash, ProcessDies
<1>3. CASE Midnight
  BY <1>3 DEF Midnight, FirstDay
<1>4. CASE Done
  BY <1>4 DEF Done, vars
<1>5. QED
  BY <1>1, <1>2, <1>3, <1>4

LEMMA TypeDispatch ==
    ASSUME TypeInv, NEW s \in Slots, Dispatch(s)
    PROVE  TypeInv'
<1>1. PICK u \in Users : \E h \in Commands(u) :
           handlers' = [handlers EXCEPT ![s] = h]
  BY DEF Dispatch, Take
<1>2. PICK h \in Commands(u) : handlers' = [handlers EXCEPT ![s] = h]
  BY <1>1
<1>3. h \in Handler /\ h.pc \in {"read", "record"} /\ h # None
  BY CommandsType, NoneAssumption, LoopAssumption
<1>4. /\ handlers' \in [Slots -> Handler \cup {None}]
      /\ handlers'[s] = h
      /\ \A t \in Slots : t # s => handlers'[t] = handlers[t]
  BY <1>2, <1>3 DEF TypeInv, TypeOK
<1>5. Covered'
  BY <1>3, <1>4 DEF TypeInv, Covered, Running
<1>6. QED
  BY <1>3, <1>4, <1>5
     DEF TypeInv, TypeOK, Dispatch, Take, tableVars, auxVars, Running

LEMMA TypeRefuse ==
    ASSUME TypeInv, NEW s \in Slots, Refuse(s)
    PROVE  TypeInv'
BY FinishType DEF TypeInv, TypeOK, Refuse, OnlyHandlerMoves, tableVars, auxVars

\* What a running handler is made of.
LEMMA HandlerType ==
    ASSUME TypeInv, NEW s \in Slots, Running(s)
    PROVE  /\ handlers[s].pc \in PC
           /\ handlers[s].op \in Op
           /\ handlers[s].user \in Users
           /\ handlers[s].amount \in Amount
           /\ handlers[s].acc \in Row
           /\ handlers[s].rec \in Record
           /\ handlers[s].today \in Nat
BY DEF TypeInv, TypeOK, Running, Handler

\* Storing a struct, taking an amount from what is due, adding one to it.
LEMMA RowsType ==
    ASSUME TypeInv, NEW u \in Users, NEW acc \in Row, SaveAccount(u, acc)
    PROVE  rows' \in [Users -> Row]
BY DEF TypeInv, TypeOK, SaveAccount

LEMMA DueType ==
    ASSUME TypeInv, NEW u \in Users, NEW n \in Amount, Owe(u, n) \/ Settle(u, n)
    PROVE  due' \in [Users -> [Currency -> Int]]
BY MaxIntAssumption DEF TypeInv, TypeOK, Owe, Settle, Debit, Amount

LEMMA TypeBank ==
    ASSUME TypeInv, NEW s \in Slots, BankStep(s)
    PROVE  TypeInv'
<1> USE DEF PC, At
<1> DEFINE h == handlers[s]
<1>1. CASE WithdrawRead(s)
  <2>1. CASE Finish(s)
    BY <1>1, <2>1, FinishType
       DEF TypeInv, TypeOK, WithdrawRead, OnlyHandlerMoves, tableVars, auxVars
  <2>2. CASE ~ Finish(s)
    <3>1. PICK acc \in GetAccount(h.user) :
             Covers(acc, h.amount) /\ GotoWith(s, "post", acc)
      BY <1>1, <2>2 DEF WithdrawRead
    <3>2. acc \in Row
      BY <1>1, HandlerType, GetAccountType DEF WithdrawRead, TypeInv
    <3>3. QED
      BY <1>1, <3>1, <3>2, GotoWithType
         DEF TypeInv, TypeOK, WithdrawRead, OnlyHandlerMoves, tableVars, auxVars
  <2>3. QED
    BY <2>1, <2>2
<1>2. CASE WithdrawPost(s)
  <2>1. Running(s) /\ h.pc = "post"
    BY <1>2 DEF WithdrawPost
  <2>2. Debit(h.acc, h.amount) \in Row
    BY <2>1, HandlerType, DebitType DEF TypeInv, Covered
  <2>3. due' \in [Users -> [Currency -> Int]]
    BY <1>2, <2>1, HandlerType, DueType
       DEF WithdrawPost, WithdrawPostAnswered, WithdrawPostLost,
           WithdrawPostFails, GameGrants, TypeInv, TypeOK
  <2>4. /\ handlers' \in [Slots -> Handler \cup {None}]
        /\ loop' \in Slots \cup {None}
        /\ loop' # None => Running(loop)'
        /\ Covered'
    BY <1>2, <2>1, <2>2, FinishType, GotoWithType
       DEF WithdrawPost, WithdrawPostAnswered, WithdrawPostLost, WithdrawPostFails
  <2>5. QED
    BY <1>2, <2>3, <2>4 DEF WithdrawPost, TypeInv, TypeOK, tableVars
<1>3. CASE WithdrawSave(s)
  <2>1. rows' \in [Users -> Row]
    BY <1>3, HandlerType, RowsType
       DEF WithdrawSave, SaveAccountFails, TypeInv, TypeOK
  <2>2. QED
    BY <1>3, <2>1, FinishType DEF WithdrawSave, TypeInv, TypeOK, auxVars
<1>4. CASE GiveRead(s)
  <2>1. PICK acc \in GetAccount(h.user) :
           /\ GotoWith(s, "save", Credit(acc, h.amount))
           /\ overflowed' = overflowed \cup Overflows(h.user, acc, h.amount)
    BY <1>4 DEF GiveRead
  <2>2. acc \in Row /\ Running(s)
    BY <1>4, HandlerType, GetAccountType DEF GiveRead, TypeInv
  <2>3. Credit(acc, h.amount) \in Row
    BY <2>2, HandlerType, CreditType
  <2>4. overflowed' \subseteq Users \X Currency
    BY <2>1, <2>2, HandlerType DEF Overflows, TypeInv, TypeOK
  <2>5. QED
    BY <1>4, <2>1, <2>2, <2>3, <2>4, GotoWithType
       DEF GiveRead, TypeInv, TypeOK, tableVars
<1>5. CASE GiveSave(s)
  <2>1. rows' \in [Users -> Row] /\ due' \in [Users -> [Currency -> Int]]
    BY <1>5, HandlerType, RowsType, DueType
       DEF GiveSave, SaveAccountFails, TypeInv, TypeOK
  <2>2. QED
    BY <1>5, <2>1, FinishType DEF GiveSave, TypeInv, TypeOK
<1>6. CASE DeductRead(s)
  <2>1. CASE Finish(s)
    BY <1>6, <2>1, FinishType
       DEF TypeInv, TypeOK, DeductRead, OnlyHandlerMoves, tableVars, auxVars
  <2>2. CASE ~ Finish(s)
    <3>1. PICK acc \in GetAccount(h.user) :
             /\ Covers(acc, h.amount)
             /\ GotoWith(s, "save", Debit(acc, h.amount))
      BY <1>6, <2>2 DEF DeductRead
    <3>2. acc \in Row /\ Running(s)
      BY <1>6, HandlerType, GetAccountType DEF DeductRead, TypeInv
    <3>3. Debit(acc, h.amount) \in Row
      BY <3>1, <3>2, HandlerType, DebitType
    <3>4. QED
      BY <1>6, <3>1, <3>2, <3>3, GotoWithType
         DEF TypeInv, TypeOK, DeductRead, OnlyHandlerMoves, tableVars, auxVars
  <2>3. QED
    BY <2>1, <2>2
<1>7. CASE DeductSave(s)
  <2>1. rows' \in [Users -> Row] /\ due' \in [Users -> [Currency -> Int]]
    BY <1>7, HandlerType, RowsType, DueType
       DEF DeductSave, SaveAccountFails, TypeInv, TypeOK
  <2>2. QED
    BY <1>7, <2>1, FinishType DEF DeductSave, TypeInv, TypeOK
<1>8. QED
  BY <1>1, <1>2, <1>3, <1>4, <1>5, <1>6, <1>7 DEF BankStep

LEMMA TypeStore ==
    ASSUME TypeInv, NEW s \in Slots, BuyStep(s)
    PROVE  TypeInv'
<1> USE DEF PC, At
<1> DEFINE h == handlers[s]
<1>1. CASE BuyRead(s)
  <2>1. CASE Finish(s)
    BY <1>1, <2>1, FinishType
       DEF TypeInv, TypeOK, BuyRead, OnlyHandlerMoves, tableVars, auxVars
  <2>2. CASE ~ Finish(s)
    <3>1. PICK acc \in GetAccount(h.user) :
             Covers(acc, h.amount) /\ GotoWith(s, "post", acc)
      BY <1>1, <2>2 DEF BuyRead
    <3>2. acc \in Row
      BY <1>1, HandlerType, GetAccountType DEF BuyRead, TypeInv
    <3>3. QED
      BY <1>1, <3>1, <3>2, GotoWithType
         DEF TypeInv, TypeOK, BuyRead, OnlyHandlerMoves, tableVars, auxVars
  <2>3. QED
    BY <2>1, <2>2
<1>2. CASE BuyPost(s)
  <2>1. Running(s) /\ h.pc = "post"
    BY <1>2 DEF BuyPost
  <2>2. Debit(h.acc, h.amount) \in Row
    BY <2>1, HandlerType, DebitType DEF TypeInv, Covered
  <2>3. due' \in [Users -> [Currency -> Int]]
    BY <1>2, <2>1, HandlerType, DueType
       DEF BuyPost, BuyPostAnswered, BuyPostLost, BuyPostFails, GameDelivers,
           TypeInv, TypeOK
  <2>4. /\ handlers' \in [Slots -> Handler \cup {None}]
        /\ loop' \in Slots \cup {None}
        /\ loop' # None => Running(loop)'
        /\ Covered'
    BY <1>2, <2>1, <2>2, FinishType, GotoWithType
       DEF BuyPost, BuyPostAnswered, BuyPostLost, BuyPostFails
  <2>5. QED
    BY <1>2, <2>3, <2>4 DEF BuyPost, TypeInv, TypeOK, tableVars
<1>3. CASE BuySave(s)
  <2>1. rows' \in [Users -> Row]
    BY <1>3, HandlerType, RowsType DEF BuySave, SaveAccountFails, TypeInv, TypeOK
  <2>2. QED
    BY <1>3, <2>1, FinishType DEF BuySave, TypeInv, TypeOK, auxVars
<1>4. QED
  BY <1>1, <1>2, <1>3 DEF BuyStep

LEMMA AddDate ==
    ASSUME NEW f \in [Users -> SUBSET Nat], NEW u \in Users, NEW d \in Nat
    PROVE  [f EXCEPT ![u] = @ \cup {d}] \in [Users -> SUBSET Nat]
<1>1. f[u] \cup {d} \in SUBSET Nat
  OBVIOUS
<1>2. QED
  BY <1>1

LEMMA TypeCheckin ==
    ASSUME TypeInv, NEW s \in Slots, CheckinStep(s)
    PROVE  TypeInv'
<1> USE DEF PC, At
<1> DEFINE h == handlers[s]
<1>0. Running(s) /\ h.user \in Users
  BY HandlerType
     DEF CheckinStep, CheckinRecord, CheckinToday, CheckinStreak,
         CheckinSaveRecord, RewardRead, RewardSave, PayReward
<1>1. CASE CheckinRecord(s)
  <2>1. PICK rec \in GetRecord(h.user) :
           handlers' = [handlers EXCEPT ![s].pc = "today", ![s].rec = rec]
    BY <1>1 DEF CheckinRecord
  <2>2. rec \in Record
    BY <1>0 DEF GetRecord, Record, NoRecord, NoDate, TypeInv, TypeOK
  <2> DEFINE g == [h EXCEPT !.pc = "today", !.rec = rec]
  <2>3. g \in Handler /\ g.pc # "post"
    BY <1>0, <2>2 DEF TypeInv, TypeOK, Running, Handler
  <2>4. handlers' = [handlers EXCEPT ![s] = g]
    BY <2>1
  <2> HIDE DEF g
  <2>5. QED
    BY <1>0, <1>1, <2>3, <2>4, UpdateType
       DEF TypeInv, TypeOK, CheckinRecord, OnlyHandlerMoves, tableVars, auxVars
<1>2. CASE CheckinToday(s)
  <2>1. CASE Finish(s)
    BY <1>2, <2>1, FinishType
       DEF TypeInv, TypeOK, CheckinToday, OnlyHandlerMoves, tableVars, auxVars
  <2>2. CASE ~ Finish(s)
    <3> DEFINE g == [h EXCEPT !.pc = "streak", !.today = day]
    <3>1. g \in Handler /\ g.pc # "post"
      BY <1>0 DEF TypeInv, TypeOK, Running, Handler
    <3>2. handlers' = [handlers EXCEPT ![s] = g] /\ loop' = loop
      BY <1>2, <2>2 DEF CheckinToday
    <3> HIDE DEF g
    <3>3. QED
      BY <1>0, <1>2, <3>1, <3>2, UpdateType
         DEF TypeInv, TypeOK, CheckinToday, OnlyHandlerMoves, tableVars, auxVars
  <2>3. QED
    BY <2>1, <2>2
<1>3. CASE CheckinStreak(s)
  <2>1. NextRecord(h.rec, h.today, day - 1) \in Record
    BY <1>0, HandlerType DEF NextRecord, Record
  <2> DEFINE g == [h EXCEPT !.pc = "saveRecord",
                            !.rec = NextRecord(h.rec, h.today, day - 1)]
  <2>2. g \in Handler /\ g.pc # "post"
    BY <1>0, <2>1 DEF TypeInv, TypeOK, Running, Handler
  <2>3. handlers' = [handlers EXCEPT ![s] = g]
    BY <1>3 DEF CheckinStreak
  <2>4. straddled' \subseteq Users
    BY <1>0, <1>3 DEF CheckinStreak, TypeInv, TypeOK
  <2> HIDE DEF g
  <2>5. QED
    BY <1>0, <1>3, <2>2, <2>3, <2>4, UpdateType
       DEF TypeInv, TypeOK, CheckinStreak, tableVars
<1>4. CASE CheckinSaveRecord(s)
  <2>1. h.rec \in Record /\ h.today \in Nat
    BY <1>0, HandlerType
  <2>2. CASE /\ records' = [records EXCEPT ![h.user] = h.rec]
             /\ history' = [history EXCEPT ![h.user] = @ \cup {h.today}]
    <3>1. records' \in [Users -> Record]
      BY <1>0, <2>1, <2>2 DEF TypeInv, TypeOK
    <3>2. history' \in [Users -> SUBSET Nat]
      <4>1. history \in [Users -> SUBSET Nat]
        BY DEF TypeInv, TypeOK
      <4>2. QED
        BY <1>0, <2>1, <2>2, <4>1, AddDate
    <3>3. QED
      BY <1>0, <1>4, <3>1, <3>2, GotoType DEF CheckinSaveRecord, TypeInv, TypeOK
  <2>3. CASE UNCHANGED <<records, history>>
    BY <1>0, <1>4, <2>3, GotoType DEF CheckinSaveRecord, TypeInv, TypeOK
  <2>4. QED
    BY <1>4, <2>2, <2>3 DEF CheckinSaveRecord
<1>5. CASE RewardRead(s)
  <2>1. PICK acc \in GetAccount(h.user) :
           /\ GotoWith(s, "save", Credit(acc, h.amount))
           /\ overflowed' = overflowed \cup Overflows(h.user, acc, h.amount)
    BY <1>5 DEF RewardRead
  <2>2. acc \in Row
    BY <1>0, GetAccountType DEF TypeInv
  <2>3. Credit(acc, h.amount) \in Row
    BY <1>0, <2>2, HandlerType, CreditType
  <2>4. overflowed' \subseteq Users \X Currency
    BY <1>0, <2>1 DEF Overflows, TypeInv, TypeOK
  <2>5. QED
    BY <1>0, <1>5, <2>1, <2>3, <2>4, GotoWithType
       DEF RewardRead, TypeInv, TypeOK, tableVars
<1>6. CASE RewardSave(s)
  <2>1. h.acc \in Row /\ h.amount \in Amount /\ h.today \in Nat
    BY <1>0, HandlerType
  <2>2. CASE PayReward(s)
    <3>1. rows' \in [Users -> Row] /\ due' \in [Users -> [Currency -> Int]]
      BY <1>0, <2>1, <2>2, RowsType, DueType DEF PayReward
    <3>2. paid' \in [Users -> SUBSET Nat]
      <4>1. paid \in [Users -> SUBSET Nat]
        BY DEF TypeInv, TypeOK
      <4>2. QED
        BY <1>0, <2>1, <2>2, <4>1, AddDate DEF PayReward
    <3>3. QED
      BY <1>6, <3>1, <3>2, FinishType DEF RewardSave, TypeInv, TypeOK
  <2>3. CASE SaveAccountFails /\ UNCHANGED <<due, paid>>
    BY <1>6, <2>3, FinishType DEF RewardSave, SaveAccountFails, TypeInv, TypeOK
  <2>4. QED
    BY <1>6, <2>2, <2>3 DEF RewardSave
<1>7. QED
  BY <1>1, <1>2, <1>3, <1>4, <1>5, <1>6 DEF CheckinStep

(***************************************************************************)
(* Every variable keeps its type: rows stay within Go's int, the loop only *)
(* ever waits for a handler that runs.                                     *)
(***************************************************************************)
THEOREM TypeCorrect == Spec => [](TypeOK /\ Covered)
<1>1. Init => TypeInv
  BY TypeInit
<1>2. TypeInv /\ [Next]_vars => TypeInv'
  <2> SUFFICES ASSUME TypeInv, [Next]_vars PROVE TypeInv'
    OBVIOUS
  <2>1. ASSUME NEW s \in Slots, Dispatch(s) PROVE TypeInv'
    BY <2>1, TypeDispatch
  <2>2. ASSUME NEW s \in Slots, HandlerStep(s) PROVE TypeInv'
    BY <2>2, TypeRefuse, TypeBank, TypeStore, TypeCheckin DEF HandlerStep
  <2>3. CASE Timeout \/ Crash \/ Midnight \/ Done
    BY <2>3, TypeLoop
  <2>4. CASE UNCHANGED vars
    BY <2>4 DEF vars, auxVars, TypeInv, TypeOK, Covered, Running
  <2>5. QED
    BY <2>1, <2>2, <2>3, <2>4 DEF Next
<1>3. QED
  BY <1>1, <1>2, PTL DEF Spec, TypeInv

-----------------------------------------------------------------------------
(* No debt. *)

\* NoDebt for the structs that will be stored, as well as for the rows.
StructsNoDebt ==
    \A s \in Slots : Running(s) /\ handlers[s].pc \in {"post", "save"} =>
        \A c \in Currency :
            handlers[s].acc[c] < 0 => <<handlers[s].user, c>> \in overflowed

DebtInv == NoDebt /\ StructsNoDebt

(* A handler that returns, having stored its struct or not. *)
LEMMA DebtFinish ==
    ASSUME TypeInv, DebtInv, NEW s \in Slots, Running(s), Finish(s),
           overflowed' = overflowed,
           \/ rows' = rows
           \/ /\ handlers[s].pc = "save"
              /\ SaveAccount(handlers[s].user, handlers[s].acc)
    PROVE  DebtInv'
<1>1. NoDebt'
  BY HandlerType
     DEF TypeInv, TypeOK, DebtInv, NoDebt, StructsNoDebt, SaveAccount
<1>2. StructsNoDebt'
  BY DEF TypeInv, TypeOK, DebtInv, StructsNoDebt, Finish, Running
<1>3. QED
  BY <1>1, <1>2 DEF DebtInv

(* A handler that goes on with a struct that is no deeper in debt. *)
LEMMA DebtGotoWith ==
    ASSUME TypeInv, DebtInv, NEW s \in Slots, Running(s),
           NEW pc, NEW acc \in Row, GotoWith(s, pc, acc),
           rows' = rows, overflowed \subseteq overflowed',
           \A c \in Currency : acc[c] < 0 =>
               <<handlers[s].user, c>> \in overflowed'
    PROVE  DebtInv'
<1>1. NoDebt'
  BY DEF DebtInv, NoDebt
<1>2. ASSUME NEW t \in Slots, Running(t)', handlers'[t].pc \in {"post", "save"},
             NEW c \in Currency, handlers'[t].acc[c] < 0
      PROVE  <<handlers'[t].user, c>> \in overflowed'
  <2>1. CASE t = s
    BY <1>2, <2>1 DEF TypeInv, TypeOK, GotoWith, Running, Handler
  <2>2. CASE t # s
    BY <1>2, <2>2
       DEF TypeInv, TypeOK, GotoWith, Running, DebtInv, StructsNoDebt
  <2>3. QED
    BY <2>1, <2>2
<1>3. QED
  BY <1>1, <1>2 DEF DebtInv, StructsNoDebt

(* Reading an account and adding to it: what is negative has overflowed. *)
LEMMA DebtCredit ==
    ASSUME TypeInv, DebtInv, NEW u \in Users, NEW acc \in GetAccount(u),
           NEW n \in Amount, NEW c \in Currency, Credit(acc, n)[c] < 0
    PROVE  <<u, c>> \in overflowed \cup Overflows(u, acc, n)
<1>1. acc \in Row /\ (acc[c] < 0 => rows[u][c] < 0)
  BY GetAccountType DEF TypeInv
<1>2. acc[c] < 0 \/ <<u, c>> \in Overflows(u, acc, n)
  BY <1>1, CreditNoDebt
<1>3. QED
  BY <1>1, <1>2 DEF DebtInv, NoDebt

(* The request succeeded: the price comes off a struct that covers it. *)
LEMMA DebtPaid ==
    ASSUME TypeInv, DebtInv, NEW s \in Slots, Running(s),
           handlers[s].pc = "post",
           GotoWith(s, "save", Debit(handlers[s].acc, handlers[s].amount)),
           rows' = rows, overflowed' = overflowed
    PROVE  DebtInv'
<1> DEFINE h == handlers[s]
<1>1. h.acc \in Row /\ h.amount \in Amount /\ Covers(h.acc, h.amount)
  BY HandlerType DEF TypeInv, Covered
<1>2. /\ Debit(h.acc, h.amount) \in Row
      /\ \A c \in Currency : Debit(h.acc, h.amount)[c] < 0 => h.acc[c] < 0
  BY <1>1, DebitType, DebitNoDebt
<1>3. \A c \in Currency :
         Debit(h.acc, h.amount)[c] < 0 => <<h.user, c>> \in overflowed'
  BY <1>2 DEF DebtInv, StructsNoDebt
<1>4. QED
  BY <1>2, <1>3, DebtGotoWith

(* An amount is added to the row a handler has read. *)
LEMMA DebtCredited ==
    ASSUME TypeInv, DebtInv, NEW s \in Slots, Running(s), rows' = rows,
           \E acc \in GetAccount(handlers[s].user) :
               /\ GotoWith(s, "save", Credit(acc, handlers[s].amount))
               /\ overflowed' = overflowed \cup
                    Overflows(handlers[s].user, acc, handlers[s].amount)
    PROVE  DebtInv'
<1> DEFINE h == handlers[s]
<1>1. PICK acc \in GetAccount(h.user) :
         /\ GotoWith(s, "save", Credit(acc, h.amount))
         /\ overflowed' = overflowed \cup Overflows(h.user, acc, h.amount)
  OBVIOUS
<1>2. h.user \in Users /\ h.amount \in Amount
  BY HandlerType
<1>3. Credit(acc, h.amount) \in Row
  BY <1>2, GetAccountType, CreditType DEF TypeInv
<1>4. \A c \in Currency :
         Credit(acc, h.amount)[c] < 0 => <<h.user, c>> \in overflowed'
  BY <1>1, <1>2, DebtCredit
<1>5. QED
  BY <1>1, <1>3, <1>4, DebtGotoWith

LEMMA DebtBank ==
    ASSUME TypeInv, DebtInv, NEW s \in Slots, BankStep(s)
    PROVE  DebtInv'
<1> USE DEF At
<1> DEFINE h == handlers[s]
<1>0. /\ Running(s)
      /\ h.user \in Users /\ h.amount \in Amount /\ h.acc \in Row
  BY HandlerType
     DEF BankStep, WithdrawRead, WithdrawPost, WithdrawSave, GiveRead, GiveSave,
         DeductRead, DeductSave
<1>1. CASE WithdrawRead(s)
  <2>1. rows' = rows /\ overflowed' = overflowed
    BY <1>1 DEF WithdrawRead, OnlyHandlerMoves, tableVars, auxVars
  <2>2. CASE Finish(s)
    BY <1>0, <2>1, <2>2, DebtFinish
  <2>3. CASE ~ Finish(s)
    <3>1. PICK acc \in GetAccount(h.user) : GotoWith(s, "post", acc)
      BY <1>1, <2>3 DEF WithdrawRead
    <3>2. acc \in Row /\ \A c \in Currency : acc[c] < 0 => rows[h.user][c] < 0
      BY <1>0, GetAccountType DEF TypeInv
    <3>3. \A c \in Currency : acc[c] < 0 => <<h.user, c>> \in overflowed'
      BY <1>0, <2>1, <3>2 DEF DebtInv, NoDebt
    <3>4. QED
      BY <1>0, <2>1, <3>1, <3>2, <3>3, DebtGotoWith
  <2>4. QED
    BY <2>2, <2>3
<1>2. CASE WithdrawPost(s)
  <2>1. rows' = rows /\ overflowed' = overflowed /\ h.pc = "post"
    BY <1>2 DEF WithdrawPost, tableVars
  <2>2. CASE Finish(s)
    BY <1>0, <2>1, <2>2, DebtFinish
  <2>3. CASE WithdrawPostAnswered(s)
    BY <1>0, <2>1, <2>3, DebtPaid DEF WithdrawPostAnswered
  <2>4. QED
    BY <1>2, <2>2, <2>3 DEF WithdrawPost, WithdrawPostLost, WithdrawPostFails
<1>3. CASE WithdrawSave(s)
  BY <1>0, <1>3, DebtFinish DEF WithdrawSave, SaveAccountFails, auxVars
<1>4. CASE GiveRead(s)
  BY <1>0, <1>4, DebtCredited DEF GiveRead, tableVars
<1>5. CASE GiveSave(s)
  BY <1>0, <1>5, DebtFinish DEF GiveSave, SaveAccountFails
<1>6. CASE DeductRead(s)
  <2>1. rows' = rows /\ overflowed' = overflowed
    BY <1>6 DEF DeductRead, OnlyHandlerMoves, tableVars, auxVars
  <2>2. CASE Finish(s)
    BY <1>0, <2>1, <2>2, DebtFinish
  <2>3. CASE ~ Finish(s)
    <3>1. PICK acc \in GetAccount(h.user) :
             /\ Covers(acc, h.amount)
             /\ GotoWith(s, "save", Debit(acc, h.amount))
      BY <1>6, <2>3 DEF DeductRead
    <3>2. acc \in Row /\ \A c \in Currency : acc[c] < 0 => rows[h.user][c] < 0
      BY <1>0, GetAccountType DEF TypeInv
    <3>3. /\ Debit(acc, h.amount) \in Row
          /\ \A c \in Currency : Debit(acc, h.amount)[c] < 0 => acc[c] < 0
      BY <1>0, <3>1, <3>2, DebitType, DebitNoDebt
    <3>4. \A c \in Currency :
             Debit(acc, h.amount)[c] < 0 => <<h.user, c>> \in overflowed'
      BY <1>0, <2>1, <3>2, <3>3 DEF DebtInv, NoDebt
    <3>5. QED
      BY <1>0, <2>1, <3>1, <3>3, <3>4, DebtGotoWith
  <2>4. QED
    BY <2>2, <2>3
<1>7. CASE DeductSave(s)
  BY <1>0, <1>7, DebtFinish DEF DeductSave, SaveAccountFails
<1>8. QED
  BY <1>1, <1>2, <1>3, <1>4, <1>5, <1>6, <1>7 DEF BankStep

LEMMA DebtStore ==
    ASSUME TypeInv, DebtInv, NEW s \in Slots, BuyStep(s)
    PROVE  DebtInv'
<1> USE DEF At
<1> DEFINE h == handlers[s]
<1>0. /\ Running(s)
      /\ h.user \in Users /\ h.amount \in Amount /\ h.acc \in Row
  BY HandlerType DEF BuyStep, BuyRead, BuyPost, BuySave
<1>1. CASE BuyRead(s)
  <2>1. rows' = rows /\ overflowed' = overflowed
    BY <1>1 DEF BuyRead, OnlyHandlerMoves, tableVars, auxVars
  <2>2. CASE Finish(s)
    BY <1>0, <2>1, <2>2, DebtFinish
  <2>3. CASE ~ Finish(s)
    <3>1. PICK acc \in GetAccount(h.user) : GotoWith(s, "post", acc)
      BY <1>1, <2>3 DEF BuyRead
    <3>2. acc \in Row /\ \A c \in Currency : acc[c] < 0 => rows[h.user][c] < 0
      BY <1>0, GetAccountType DEF TypeInv
    <3>3. \A c \in Currency : acc[c] < 0 => <<h.user, c>> \in overflowed'
      BY <1>0, <2>1, <3>2 DEF DebtInv, NoDebt
    <3>4. QED
      BY <1>0, <2>1, <3>1, <3>2, <3>3, DebtGotoWith
  <2>4. QED
    BY <2>2, <2>3
<1>2. CASE BuyPost(s)
  <2>1. rows' = rows /\ overflowed' = overflowed /\ h.pc = "post"
    BY <1>2 DEF BuyPost, tableVars
  <2>2. CASE Finish(s)
    BY <1>0, <2>1, <2>2, DebtFinish
  <2>3. CASE BuyPostAnswered(s)
    BY <1>0, <2>1, <2>3, DebtPaid DEF BuyPostAnswered
  <2>4. QED
    BY <1>2, <2>2, <2>3 DEF BuyPost, BuyPostLost, BuyPostFails
<1>3. CASE BuySave(s)
  BY <1>0, <1>3, DebtFinish DEF BuySave, SaveAccountFails, auxVars
<1>4. QED
  BY <1>1, <1>2, <1>3 DEF BuyStep

(* A step of a handler that only touches its record and its place. *)
LEMMA DebtUpdate ==
    ASSUME TypeInv, DebtInv, NEW s \in Slots, Running(s),
           NEW g \in Handler, g.pc \notin {"post", "save"},
           handlers' = [handlers EXCEPT ![s] = g],
           rows' = rows, overflowed' = overflowed
    PROVE  DebtInv'
<1>1. NoDebt'
  BY DEF DebtInv, NoDebt
<1>2. StructsNoDebt'
  BY DEF TypeInv, TypeOK, DebtInv, StructsNoDebt, Running
<1>3. QED
  BY <1>1, <1>2 DEF DebtInv

LEMMA DebtCheckin ==
    ASSUME TypeInv, DebtInv, NEW s \in Slots, CheckinStep(s)
    PROVE  DebtInv'
<1> USE DEF At
<1> DEFINE h == handlers[s]
<1>0. Running(s) /\ h.user \in Users /\ h.amount \in Amount /\ h \in Handler
  <2>1. Running(s)
    BY DEF CheckinStep, CheckinRecord, CheckinToday, CheckinStreak,
           CheckinSaveRecord, RewardRead, RewardSave, PayReward
  <2>2. QED
    BY <2>1, HandlerType DEF TypeInv, TypeOK, Running
<1>1. CASE CheckinToday(s) /\ Finish(s)
  BY <1>0, <1>1, DebtFinish
     DEF CheckinToday, OnlyHandlerMoves, tableVars, auxVars
<1>2. CASE CheckinRecord(s)
  <2>1. PICK rec \in GetRecord(h.user) :
           handlers' = [handlers EXCEPT ![s].pc = "today", ![s].rec = rec]
    BY <1>2 DEF CheckinRecord
  <2> DEFINE g == [h EXCEPT !.pc = "today", !.rec = rec]
  <2>2. rec \in Record
    BY <1>0 DEF GetRecord, Record, NoRecord, NoDate, TypeInv, TypeOK
  <2>3. g \in Handler /\ g.pc = "today"
    BY <1>0, <2>2 DEF Handler, PC
  <2>4. handlers' = [handlers EXCEPT ![s] = g]
    BY <2>1
  <2> HIDE DEF g
  <2>5. QED
    BY <1>0, <1>2, <2>3, <2>4, DebtUpdate
       DEF CheckinRecord, OnlyHandlerMoves, tableVars, auxVars
<1>3. CASE CheckinToday(s) /\ ~ Finish(s)
  <2> DEFINE g == [h EXCEPT !.pc = "streak", !.today = day]
  <2>1. g \in Handler /\ g.pc = "streak"
    BY <1>0 DEF Handler, PC, TypeInv, TypeOK
  <2>2. handlers' = [handlers EXCEPT ![s] = g]
    BY <1>3 DEF CheckinToday
  <2> HIDE DEF g
  <2>3. QED
    BY <1>0, <1>3, <2>1, <2>2, DebtUpdate
       DEF CheckinToday, OnlyHandlerMoves, tableVars, auxVars
<1>4. CASE CheckinStreak(s)
  <2> DEFINE g == [h EXCEPT !.pc = "saveRecord",
                            !.rec = NextRecord(h.rec, h.today, day - 1)]
  <2>1. NextRecord(h.rec, h.today, day - 1) \in Record
    BY <1>0, HandlerType DEF NextRecord, Record
  <2>2. g \in Handler /\ g.pc = "saveRecord"
    BY <1>0, <2>1 DEF Handler, PC
  <2>3. handlers' = [handlers EXCEPT ![s] = g]
    BY <1>4 DEF CheckinStreak
  <2> HIDE DEF g
  <2>4. QED
    BY <1>0, <1>4, <2>2, <2>3, DebtUpdate DEF CheckinStreak, tableVars
<1>5. CASE CheckinSaveRecord(s)
  <2> DEFINE g == [h EXCEPT !.pc = "read"]
  <2>1. g \in Handler /\ g.pc = "read"
    BY <1>0 DEF Handler, PC
  <2>2. handlers' = [handlers EXCEPT ![s] = g]
    BY <1>5 DEF CheckinSaveRecord, Goto
  <2> HIDE DEF g
  <2>3. QED
    BY <1>0, <1>5, <2>1, <2>2, DebtUpdate DEF CheckinSaveRecord
<1>6. CASE RewardRead(s)
  BY <1>0, <1>6, DebtCredited DEF RewardRead, tableVars
<1>7. CASE RewardSave(s)
  BY <1>0, <1>7, DebtFinish DEF RewardSave, PayReward, SaveAccountFails
<1>8. QED
  BY <1>1, <1>2, <1>3, <1>4, <1>5, <1>6, <1>7 DEF CheckinStep

(***************************************************************************)
(* No stored balance is negative unless a sum has overflowed, whatever     *)
(* fails and however handlers overlap.                                     *)
(***************************************************************************)
THEOREM NoDebtHolds == Spec => []NoDebt
<1>1. Init => DebtInv
  <2> SUFFICES ASSUME Init PROVE DebtInv
    OBVIOUS
  <2>1. \A u \in Users : rows[u] \in InitialRows
    BY DEF Init
  <2>2. NoDebt
    BY <2>1, EconomyAssumption, MaxIntAssumption DEF NoDebt, Row
  <2>3. QED
    BY <2>2 DEF Init, DebtInv, StructsNoDebt, Running
<1>2. TypeInv /\ DebtInv /\ [Next]_vars => DebtInv'
  <2> SUFFICES ASSUME TypeInv, DebtInv, [Next]_vars PROVE DebtInv'
    OBVIOUS
  <2>1. ASSUME NEW s \in Slots, Dispatch(s) PROVE DebtInv'
    <3>1. PICK u \in Users : \E h \in Commands(u) :
             handlers' = [handlers EXCEPT ![s] = h]
      BY <2>1 DEF Dispatch, Take
    <3>2. PICK h \in Commands(u) : handlers' = [handlers EXCEPT ![s] = h]
      BY <3>1
    <3>3. h \in Handler /\ h.pc \in {"read", "record"}
      BY CommandsType
    <3>4. StructsNoDebt'
      BY <2>1, <3>2, <3>3
         DEF Dispatch, Take, auxVars, TypeInv, TypeOK, DebtInv, StructsNoDebt, Running
    <3>5. QED
      BY <2>1, <3>4 DEF Dispatch, Take, tableVars, auxVars, DebtInv, NoDebt
  <2>2. ASSUME NEW s \in Slots, Refuse(s) PROVE DebtInv'
    BY <2>2, DebtFinish DEF Refuse, OnlyHandlerMoves, tableVars, auxVars
  <2>3. ASSUME NEW s \in Slots, HandlerStep(s) PROVE DebtInv'
    BY <2>2, <2>3, DebtBank, DebtStore, DebtCheckin DEF HandlerStep
  <2>4. CASE Timeout \/ Midnight \/ Done \/ UNCHANGED vars
    BY <2>4 DEF Timeout, WaitEnds, Midnight, Done, vars, tableVars, auxVars,
                DebtInv, NoDebt, StructsNoDebt, Running
  <2>5. CASE Crash
    BY <2>5 DEF Crash, ProcessDies, tableVars, auxVars, DebtInv, NoDebt, StructsNoDebt, Running
  <2>6. QED
    BY <2>1, <2>3, <2>4, <2>5 DEF Next
<1>3. QED
  BY <1>1, <1>2, TypeCorrect, PTL DEF Spec, DebtInv, TypeInv

-----------------------------------------------------------------------------
(* Streaks. *)

\* The dates of a record's streak are among the given ones.
Backed(rec, dates) == \A k \in 0 .. rec.days - 1 : rec.last - k \in dates

(***************************************************************************)
(* What a check-in on its way holds, with the dates of its user and the    *)
(* clock's day.  A handler past the comparison with today's date holds a   *)
(* record of an earlier date, so the second reading of the clock finds the *)
(* day before in it only if it is the day before the first reading.        *)
(***************************************************************************)
CheckinBacked(h, dates, d) ==
    /\ h.pc = "today" => h.rec.last <= d /\ Backed(h.rec, dates)
    /\ h.pc = "streak" =>
         h.rec.last < h.today /\ h.today <= d /\ Backed(h.rec, dates)
    /\ h.pc = "saveRecord" =>
         /\ h.rec.last = h.today /\ h.today <= d
         /\ \A k \in 1 .. h.rec.days - 1 : h.rec.last - k \in dates

StreakInv ==
    /\ \A u \in Users : records[u].last <= day /\ Backed(records[u], history[u])
    /\ \A s \in Slots : Running(s) =>
         CheckinBacked(handlers[s], history[handlers[s].user], day)

(* A step of one handler that leaves the records and the clock alone. *)
LEMMA StreakHandler ==
    ASSUME TypeInv, StreakInv, NEW s \in Slots, NEW g,
           handlers' = [handlers EXCEPT ![s] = g],
           g # None => CheckinBacked(g, history[g.user], day),
           UNCHANGED <<records, history, day>>
    PROVE  StreakInv'
BY DEF StreakInv, TypeInv, TypeOK, Running

LEMMA StreakFinish ==
    ASSUME TypeInv, StreakInv, NEW s \in Slots, Finish(s),
           UNCHANGED <<records, history, day>>
    PROVE  StreakInv'
BY StreakHandler DEF Finish

(* A handler outside the three places of CheckinBacked goes on outside. *)
LEMMA StreakGotoWith ==
    ASSUME TypeInv, StreakInv, NEW s \in Slots, NEW pc \in {"post", "save"},
           NEW acc, GotoWith(s, pc, acc), Running(s),
           UNCHANGED <<records, history, day>>
    PROVE  StreakInv'
<1> DEFINE g == [handlers[s] EXCEPT !.pc = pc, !.acc = acc]
<1>1. handlers' = [handlers EXCEPT ![s] = g]
  BY DEF GotoWith
<1>2. g.pc = pc
  BY DEF TypeInv, TypeOK, Running, Handler
<1> HIDE DEF g
<1>3. CheckinBacked(g, history[g.user], day)
  BY <1>2 DEF CheckinBacked
<1>4. QED
  BY <1>1, <1>3, StreakHandler

LEMMA StreakBank ==
    ASSUME TypeInv, StreakInv, NEW s \in Slots, BankStep(s) \/ BuyStep(s)
    PROVE  StreakInv'
<1>1. UNCHANGED <<records, history, day>>
  BY DEF BankStep, BuyStep, WithdrawRead, WithdrawPost, WithdrawSave, GiveRead,
         GiveSave, DeductRead, DeductSave, BuyRead, BuyPost, BuySave,
         OnlyHandlerMoves, tableVars, auxVars
<1>2. Running(s)
  BY DEF BankStep, BuyStep, WithdrawRead, WithdrawPost, WithdrawSave, GiveRead,
         GiveSave, DeductRead, DeductSave, BuyRead, BuyPost, BuySave, At
<1>3. \/ Finish(s)
      \/ \E pc \in {"post", "save"} : \E acc : GotoWith(s, pc, acc)
  <2>1. CASE WithdrawRead(s) \/ DeductRead(s) \/ BuyRead(s) \/ GiveRead(s)
    BY <2>1, Zenon DEF WithdrawRead, DeductRead, BuyRead, GiveRead
  <2>2. CASE WithdrawPost(s) \/ BuyPost(s)
    BY <2>2, Zenon
       DEF WithdrawPost, WithdrawPostAnswered, WithdrawPostLost,
           WithdrawPostFails, BuyPost, BuyPostAnswered, BuyPostLost, BuyPostFails
  <2>3. CASE WithdrawSave(s) \/ GiveSave(s) \/ DeductSave(s) \/ BuySave(s)
    BY <2>3, Zenon DEF WithdrawSave, GiveSave, DeductSave, BuySave
  <2>4. QED
    BY <2>1, <2>2, <2>3, Zenon DEF BankStep, BuyStep
<1>4. QED
  BY <1>1, <1>2, <1>3, StreakFinish, StreakGotoWith

(* The new record of a check-in is backed up to the date it adds. *)
LEMMA NextRecordBacked ==
    ASSUME NEW rec \in Record, NEW today \in Nat, NEW d \in Nat,
           NEW dates \in SUBSET Nat,
           rec.last < today, today <= d, Backed(rec, dates),
           NEW k \in 1 .. NextRecord(rec, today, d - 1).days - 1
    PROVE  today - k \in dates
<1>1. NextRecord(rec, today, d - 1).days # 1
  BY DEF NextRecord, Record
<1>2. rec.last = d - 1
  BY <1>1 DEF NextRecord, Continues
<1>3. rec.last = today - 1 /\ k - 1 \in 0 .. rec.days - 1
  BY <1>2 DEF NextRecord, Continues, Record
<1>4. today - k = rec.last - (k - 1)
  BY <1>3 DEF Record
<1>5. QED
  BY <1>3, <1>4 DEF Backed

LEMMA StreakCheckin ==
    ASSUME TypeInv, StreakInv, NEW s \in Slots, CheckinStep(s)
    PROVE  StreakInv'
<1> USE DEF At
<1> DEFINE h == handlers[s]
<1> DEFINE dates == history[h.user]
<1>0. Running(s) /\ h.user \in Users /\ h \in Handler
  <2>1. Running(s)
    BY DEF CheckinStep, CheckinRecord, CheckinToday, CheckinStreak,
           CheckinSaveRecord, RewardRead, RewardSave, PayReward
  <2>2. QED
    BY <2>1, HandlerType DEF TypeInv, TypeOK, Running
<1>a. h.rec \in Record /\ h.today \in Nat /\ day \in Nat /\ dates \in SUBSET Nat
  BY <1>0, HandlerType DEF TypeInv, TypeOK
<1>b. CheckinBacked(h, dates, day)
  BY <1>0 DEF StreakInv
<1>1. CASE CheckinRecord(s)
  <2>1. PICK rec \in GetRecord(h.user) :
           handlers' = [handlers EXCEPT ![s].pc = "today", ![s].rec = rec]
    BY <1>1 DEF CheckinRecord
  <2>2. rec.last <= day /\ Backed(rec, dates)
    <3>1. CASE rec = records[h.user]
      BY <1>0, <3>1 DEF StreakInv
    <3>2. CASE rec = NoRecord
      BY <1>a, <3>2 DEF NoRecord, NoDate, Backed
    <3>3. QED
      BY <2>1, <3>1, <3>2 DEF GetRecord
  <2> DEFINE g == [h EXCEPT !.pc = "today", !.rec = rec]
  <2>3. g.pc = "today" /\ g.rec = rec /\ g.user = h.user
    BY <1>0 DEF Handler
  <2>4. handlers' = [handlers EXCEPT ![s] = g]
    BY <2>1
  <2> HIDE DEF g
  <2>5. CheckinBacked(g, history[g.user], day)
    BY <2>2, <2>3 DEF CheckinBacked
  <2>6. QED
    BY <1>1, <2>4, <2>5, StreakHandler
       DEF CheckinRecord, OnlyHandlerMoves, tableVars, auxVars
<1>2. CASE CheckinToday(s)
  <2>1. UNCHANGED <<records, history, day>>
    BY <1>2 DEF CheckinToday, OnlyHandlerMoves, tableVars, auxVars
  <2>2. CASE Finish(s)
    BY <2>1, <2>2, StreakFinish
  <2>3. CASE ~ Finish(s)
    <3> DEFINE g == [h EXCEPT !.pc = "streak", !.today = day]
    <3>1. /\ g.pc = "streak" /\ g.rec = h.rec /\ g.user = h.user
          /\ g.today = day
      BY <1>0 DEF Handler
    <3>2. /\ handlers' = [handlers EXCEPT ![s] = g]
          /\ h.rec.last # day /\ h.pc = "today"
      BY <1>2, <2>3 DEF CheckinToday
    <3> HIDE DEF g
    <3>3. h.rec.last < day /\ Backed(h.rec, dates)
      BY <1>a, <1>b, <3>2 DEF CheckinBacked, Record
    <3>4. CheckinBacked(g, history[g.user], day)
      BY <1>a, <3>1, <3>3 DEF CheckinBacked
    <3>5. QED
      BY <2>1, <3>2, <3>4, StreakHandler
  <2>4. QED
    BY <2>2, <2>3
<1>3. CASE CheckinStreak(s)
  <2> DEFINE next == NextRecord(h.rec, h.today, day - 1)
  <2> DEFINE g == [h EXCEPT !.pc = "saveRecord", !.rec = next]
  <2>1. /\ g.pc = "saveRecord" /\ g.rec = next /\ g.user = h.user
        /\ g.today = h.today
    BY <1>0 DEF Handler
  <2>2. handlers' = [handlers EXCEPT ![s] = g]
    BY <1>3 DEF CheckinStreak
  <2>3. h.rec.last < h.today /\ h.today <= day /\ Backed(h.rec, dates)
    BY <1>3, <1>b DEF CheckinStreak, CheckinBacked
  <2>4. next.last = h.today
    BY DEF NextRecord
  <2>5. \A k \in 1 .. next.days - 1 : h.today - k \in dates
    BY <1>a, <2>3, NextRecordBacked
  <2> HIDE DEF g, next
  <2>6. CheckinBacked(g, history[g.user], day)
    BY <2>1, <2>3, <2>4, <2>5 DEF CheckinBacked
  <2>7. QED
    BY <1>3, <2>2, <2>6, StreakHandler DEF CheckinStreak, tableVars
<1>4. CASE CheckinSaveRecord(s)
  <2>1. h.pc = "saveRecord" /\ day' = day
    BY <1>4 DEF CheckinSaveRecord
  <2> DEFINE g == [h EXCEPT !.pc = "read"]
  <2>2. g.pc = "read"
    BY <1>0 DEF Handler
  <2>3. handlers' = [handlers EXCEPT ![s] = g]
    BY <1>4 DEF CheckinSaveRecord, Goto
  <2> HIDE DEF g
  <2>4. CheckinBacked(g, history[g.user], day)
    BY <2>2 DEF CheckinBacked
  <2>5. CASE UNCHANGED <<records, history>>
    BY <2>1, <2>3, <2>4, <2>5, StreakHandler
  <2>6. CASE /\ records' = [records EXCEPT ![h.user] = h.rec]
             /\ history' = [history EXCEPT ![h.user] = @ \cup {h.today}]
    <3>1. /\ h.rec.last = h.today /\ h.today <= day
          /\ \A k \in 1 .. h.rec.days - 1 : h.rec.last - k \in dates
      BY <1>b, <2>1 DEF CheckinBacked
    <3>2. history'[h.user] = dates \cup {h.today} /\ records'[h.user] = h.rec
      BY <1>0, <2>6 DEF TypeInv, TypeOK
    <3>3. \A u \in Users : u # h.user =>
             records'[u] = records[u] /\ history'[u] = history[u]
      BY <2>6 DEF TypeInv, TypeOK
    <3>4. Backed(h.rec, dates \cup {h.today})
      <4> SUFFICES ASSUME NEW k \in 0 .. h.rec.days - 1
                   PROVE  h.rec.last - k \in dates \cup {h.today}
        BY DEF Backed
      <4>1. CASE k = 0
        BY <1>a, <3>1, <4>1 DEF Record
      <4>2. CASE k # 0
        BY <1>a, <3>1, <4>2 DEF Record
      <4>3. QED
        BY <4>1, <4>2
    <3>5. \A u \in Users : records'[u].last <= day' /\ Backed(records'[u], history'[u])
      BY <2>1, <3>1, <3>2, <3>3, <3>4 DEF StreakInv
    <3>6. \A u \in Users : history[u] \subseteq history'[u]
      BY <3>2, <3>3
    <3>7. ASSUME NEW t \in Slots, Running(t)'
          PROVE  CheckinBacked(handlers[t], history[handlers[t].user], day)'
      <4>1. CASE t = s
        BY <2>2, <2>3, <4>1 DEF CheckinBacked, TypeInv, TypeOK
      <4>2. CASE t # s
        <5>1. handlers'[t] = handlers[t] /\ Running(t)
          BY <2>3, <3>7, <4>2 DEF Running, TypeInv, TypeOK
        <5>2. handlers[t].user \in Users
          BY <5>1, HandlerType
        <5>3. CheckinBacked(handlers[t], history[handlers[t].user], day)
          BY <5>1 DEF StreakInv
        <5>4. QED
          BY <2>1, <3>6, <5>1, <5>2, <5>3 DEF CheckinBacked, Backed
      <4>3. QED
        BY <4>1, <4>2
    <3>8. QED
      BY <3>5, <3>7 DEF StreakInv
  <2>7. QED
    BY <1>4, <2>5, <2>6 DEF CheckinSaveRecord
<1>5. CASE RewardRead(s)
  BY <1>0, <1>5, StreakGotoWith DEF RewardRead, tableVars
<1>6. CASE RewardSave(s)
  BY <1>6, StreakFinish DEF RewardSave
<1>7. QED
  BY <1>1, <1>2, <1>3, <1>4, <1>5, <1>6 DEF CheckinStep

(* Records and handlers alike are backed at all times. *)
LEMMA StreakInvHolds == Spec => []StreakInv
<1>1. Init => StreakInv
  BY DEF Init, StreakInv, NoRecord, NoDate, FirstDay, Backed, Running
<1>2. TypeInv /\ StreakInv /\ [Next]_vars => StreakInv'
  <2> SUFFICES ASSUME TypeInv, StreakInv, [Next]_vars PROVE StreakInv'
    OBVIOUS
  <2>1. ASSUME NEW s \in Slots, Dispatch(s) PROVE StreakInv'
    <3>1. PICK u \in Users : \E h \in Commands(u) :
             handlers' = [handlers EXCEPT ![s] = h]
      BY <2>1 DEF Dispatch, Take
    <3>2. PICK h \in Commands(u) : handlers' = [handlers EXCEPT ![s] = h]
      BY <3>1
    <3>3. CheckinBacked(h, history[h.user], day)
      BY CommandsType DEF CheckinBacked
    <3>4. QED
      BY <2>1, <3>2, <3>3, StreakHandler DEF Dispatch, Take, tableVars, auxVars
  <2>2. ASSUME NEW s \in Slots, Refuse(s) PROVE StreakInv'
    BY <2>2, StreakFinish DEF Refuse, OnlyHandlerMoves, tableVars, auxVars
  <2>3. ASSUME NEW s \in Slots, HandlerStep(s) PROVE StreakInv'
    BY <2>2, <2>3, StreakBank, StreakCheckin DEF HandlerStep
  <2>4. CASE Timeout \/ Done \/ UNCHANGED vars
    BY <2>4 DEF Timeout, WaitEnds, Done, vars, tableVars, auxVars, StreakInv, Running
  <2>5. CASE Crash
    BY <2>5 DEF Crash, ProcessDies, tableVars, auxVars, StreakInv, Running
  <2>6. CASE Midnight
    <3>1. \A u \in Users : records[u].last \in Nat
      BY DEF TypeInv, TypeOK, Record
    <3>2. \A s \in Slots : Running(s) =>
             handlers[s].rec.last \in Nat /\ handlers[s].today \in Nat
      BY HandlerType DEF Record
    <3>3. /\ day \in Nat /\ day' = day + 1
          /\ UNCHANGED <<records, history, handlers>>
      BY <2>6 DEF Midnight, tableVars, auxVars, TypeInv, TypeOK
    <3>4. QED
      BY <3>1, <3>2, <3>3 DEF StreakInv, CheckinBacked, Running
  <2>7. QED
    BY <2>1, <2>3, <2>4, <2>5, <2>6 DEF Next
<1>3. QED
  BY <1>1, <1>2, TypeCorrect, PTL DEF Spec, TypeInv

(***************************************************************************)
(* Every stored streak is backed by a check-in on each of its dates,       *)
(* whatever fails, however handlers overlap and wherever midnight falls.   *)
(***************************************************************************)
THEOREM StreakBackedHolds == Spec => []StreakBacked
<1>1. StreakInv => StreakBacked
  BY DEF StreakInv, StreakBacked, Backed
<1>2. QED
  BY <1>1, StreakInvHolds, PTL

=============================================================================
