-------------------------------- MODULE Bank --------------------------------
(***************************************************************************)
(* The handlers of plugins/bank that change an account: withdraw (three    *)
(* functions, one per currency, with the same control flow), give (to self *)
(* or to a mentioned user) and deduct (from self or from a mentioned user).*)
(*                                                                         *)
(* Each takes its account's row, decides on it and writes it back.  A      *)
(* withdrawal asks the game server to hand out the amount in between.      *)
(* Refusals that touch no state (wrong scene, bad arguments, no database,  *)
(* no bound player) are the action Refuse of AccountTable.                 *)
(***************************************************************************)
EXTENDS AccountTable

(***************************************************************************)
(* withdraw*ToGame: read the account and refuse if it does not cover.      *)
(***************************************************************************)
WithdrawRead(s) ==
    /\ At(s, "withdraw", "read")
    /\ \/ \E acc \in GetAccount(handlers[s].user) :
            /\ Covers(acc, handlers[s].amount)
            /\ GotoWith(s, "post", acc)
       \/ \E acc \in GetAccount(handlers[s].user) :
            /\ ~ Covers(acc, handlers[s].amount)
            /\ Finish(s)
    /\ OnlyHandlerMoves

(***************************************************************************)
(* The POST to the game.  The game hands out the amount and the handler    *)
(* reads a true status; or it hands it out and the answer is lost, late or *)
(* unreadable, which the handler takes for a failure; or nothing happens.  *)
(***************************************************************************)
GameGrants(s) == Settle(handlers[s].user, handlers[s].amount)

WithdrawPostAnswered(s) ==
    /\ GameGrants(s)
    /\ GotoWith(s, "save", Debit(handlers[s].acc, handlers[s].amount))

WithdrawPostLost(s) ==
    /\ "lostReply" \in faults
    /\ GameGrants(s)
    /\ Finish(s)

\* Mutant: a failed request is charged as well.
WithdrawPostFailsCharged(s) ==
    /\ UNCHANGED due
    /\ GotoWith(s, "save", Debit(handlers[s].acc, handlers[s].amount))

WithdrawPostFails(s) == UNCHANGED due /\ Finish(s)

WithdrawPost(s) ==
    /\ At(s, "withdraw", "post")
    /\ \/ WithdrawPostAnswered(s)
       \/ WithdrawPostLost(s)
       \/ WithdrawPostFails(s)
    /\ UNCHANGED <<tableVars, day, ops, faults,
                   history, paid, overflowed, straddled>>

(***************************************************************************)
(* acc.Gold -= amount has been done on the struct; now it is stored.       *)
(***************************************************************************)
WithdrawSave(s) ==
    /\ At(s, "withdraw", "save")
    /\ \/ SaveAccount(handlers[s].user, handlers[s].acc)
       \/ SaveAccountFails
    /\ Finish(s)
    /\ UNCHANGED <<records, day, ops, faults, auxVars>>

(***************************************************************************)
(* handleGiveAmount, handleGiveToUser: read the account, add, store it.    *)
(***************************************************************************)
GiveRead(s) ==
    /\ At(s, "give", "read")
    /\ \E acc \in GetAccount(handlers[s].user) :
         /\ GotoWith(s, "save", Credit(acc, handlers[s].amount))
         /\ overflowed' = overflowed \cup
              Overflows(handlers[s].user, acc, handlers[s].amount)
    /\ UNCHANGED <<tableVars, day, ops, faults, due, history, paid, straddled>>

GiveSave(s) ==
    /\ At(s, "give", "save")
    /\ \/ /\ SaveAccount(handlers[s].user, handlers[s].acc)
          /\ Owe(handlers[s].user, handlers[s].amount)
       \/ SaveAccountFails /\ UNCHANGED due
    /\ Finish(s)
    /\ UNCHANGED <<records, day, ops, faults,
                   history, paid, overflowed, straddled>>

(***************************************************************************)
(* handleDeductFromSelf, handleDeductFromUser: refuse if the account does  *)
(* not cover the amount, otherwise subtract and store.                     *)
(***************************************************************************)
DeductRead(s) ==
    /\ At(s, "deduct", "read")
    /\ \/ \E acc \in GetAccount(handlers[s].user) :
            /\ Covers(acc, handlers[s].amount)
            /\ GotoWith(s, "save", Debit(acc, handlers[s].amount))
       \/ \E acc \in GetAccount(handlers[s].user) :
            /\ ~ Covers(acc, handlers[s].amount)
            /\ Finish(s)
    /\ OnlyHandlerMoves

DeductSave(s) ==
    /\ At(s, "deduct", "save")
    /\ \/ /\ SaveAccount(handlers[s].user, handlers[s].acc)
          /\ Settle(handlers[s].user, handlers[s].amount)
       \/ SaveAccountFails /\ UNCHANGED due
    /\ Finish(s)
    /\ UNCHANGED <<records, day, ops, faults,
                   history, paid, overflowed, straddled>>

BankStep(s) ==
    \/ WithdrawRead(s) \/ WithdrawPost(s) \/ WithdrawSave(s)
    \/ GiveRead(s) \/ GiveSave(s)
    \/ DeductRead(s) \/ DeductSave(s)

=============================================================================
