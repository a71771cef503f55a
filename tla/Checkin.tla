------------------------------ MODULE Checkin -------------------------------
(***************************************************************************)
(* The handler of plugins/checkin.  It reads the user's record, reads the  *)
(* clock (todayDate), reads the clock again (yesterdayDate) to see whether *)
(* the streak goes on, stores the record, and only then reads the account, *)
(* adds the reward and stores the row.  The two stores are not one         *)
(* transaction, and the two dates are not one reading of the clock.        *)
(***************************************************************************)
EXTENDS AccountTable

\* getRecord: the stored record, or the zero record if the query failed.
GetRecord(u) ==
    {records[u]} \cup (IF "readError" \in faults THEN {NoRecord} ELSE {})

CheckinRecord(s) ==
    /\ At(s, "checkin", "record")
    /\ \E rec \in GetRecord(handlers[s].user) :
         handlers' = [handlers EXCEPT ![s].pc = "today", ![s].rec = rec]
    /\ UNCHANGED loop
    /\ OnlyHandlerMoves

\* Mutant: the record is not compared with today's date.
CheckinTodayUnchecked(s) ==
    /\ At(s, "checkin", "today")
    /\ handlers' = [handlers EXCEPT ![s].pc = "streak", ![s].today = day]
    /\ UNCHANGED loop
    /\ OnlyHandlerMoves

\* today := todayDate(), and the answer to a second check-in of the day.
CheckinToday(s) ==
    /\ At(s, "checkin", "today")
    /\ \/ /\ handlers[s].rec.last = day
          /\ Finish(s)
       \/ /\ handlers[s].rec.last # day
          /\ handlers' = [handlers EXCEPT ![s].pc = "streak",
                                          ![s].today = day]
          /\ UNCHANGED loop
    /\ OnlyHandlerMoves

\* Mutant: the streak never breaks.
ContinuesAlways(rec, yesterday) == rec.last # NoDate

\* Mutant: the date is compared with that of two days ago.
ContinuesOffByOne(rec, yesterday) == rec.last = yesterday - 1

\* rec.LastCheckinDate == yesterdayDate()
Continues(rec, yesterday) == rec.last = yesterday

NextRecord(rec, today, yesterday) ==
    [last |-> today,
     days |-> IF Continues(rec, yesterday) THEN rec.days + 1 ELSE 1]

\* The second reading of the clock may give a later day than the first.
CheckinStreak(s) ==
    /\ At(s, "checkin", "streak")
    /\ handlers' = [handlers EXCEPT
                      ![s].pc = "saveRecord",
                      ![s].rec = NextRecord(@, handlers[s].today, day - 1)]
    /\ straddled' = IF day # handlers[s].today
                    THEN straddled \cup {handlers[s].user} ELSE straddled
    /\ UNCHANGED <<loop, tableVars, day, ops, faults,
                   due, history, paid, overflowed>>

\* saveRecord: its error is ignored, the reward follows either way.
CheckinSaveRecord(s) ==
    /\ At(s, "checkin", "saveRecord")
    /\ LET u == handlers[s].user IN
       \/ /\ records' = [records EXCEPT ![u] = handlers[s].rec]
          /\ history' = [history EXCEPT ![u] = @ \cup {handlers[s].today}]
       \/ "saveError" \in faults /\ UNCHANGED <<records, history>>
    /\ Goto(s, "read")
    /\ UNCHANGED <<rows, day, ops, faults, due, paid, overflowed, straddled>>

(***************************************************************************)
(* Read the account and add the reward: randRange draws it, here it is the *)
(* amount the handler's record was given when the command arrived.         *)
(***************************************************************************)
RewardRead(s) ==
    /\ At(s, "checkin", "read")
    /\ \E acc \in GetAccount(handlers[s].user) :
         /\ GotoWith(s, "save", Credit(acc, handlers[s].amount))
         /\ overflowed' = overflowed \cup
              Overflows(handlers[s].user, acc, handlers[s].amount)
    /\ UNCHANGED <<tableVars, day, ops, faults, due, history, paid, straddled>>

\* The reward reaches the table.
PayReward(s) ==
    /\ At(s, "checkin", "save")
    /\ SaveAccount(handlers[s].user, handlers[s].acc)
    /\ Owe(handlers[s].user, handlers[s].amount)
    /\ paid' = [paid EXCEPT ![handlers[s].user] = @ \cup {handlers[s].today}]

RewardSave(s) ==
    /\ At(s, "checkin", "save")
    /\ \/ PayReward(s)
       \/ SaveAccountFails /\ UNCHANGED <<due, paid>>
    /\ Finish(s)
    /\ UNCHANGED <<records, day, ops, faults, history, overflowed, straddled>>

CheckinStep(s) ==
    \/ CheckinRecord(s) \/ CheckinToday(s) \/ CheckinStreak(s)
    \/ CheckinSaveRecord(s) \/ RewardRead(s) \/ RewardSave(s)

=============================================================================
