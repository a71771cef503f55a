------------------------------- MODULE Store --------------------------------
(***************************************************************************)
(* The handler of plugins/store that changes an account: confirming a      *)
(* purchase.  It asks the game to do what was bought and then takes the    *)
(* price, in every currency at once, from the struct it read before.  The  *)
(* price is the amount of the handler's record.                            *)
(***************************************************************************)
EXTENDS AccountTable

\* handleConfirmBuy up to the request: list what the account is short of.
BuyRead(s) ==
    /\ At(s, "buy", "read")
    /\ \/ \E acc \in GetAccount(handlers[s].user) :
            /\ Covers(acc, handlers[s].amount)
            /\ GotoWith(s, "post", acc)
       \/ \E acc \in GetAccount(handlers[s].user) :
            /\ ~ Covers(acc, handlers[s].amount)
            /\ Finish(s)
    /\ OnlyHandlerMoves

(***************************************************************************)
(* The request that switches flying on: done and answered; done but the    *)
(* answer lost or unreadable; or not done (refused, or player offline).    *)
(***************************************************************************)
GameDelivers(s) == Settle(handlers[s].user, handlers[s].amount)

\* Mutant: of a price in several currencies only the gold is taken.
BuyPostAnsweredGoldOnly(s) ==
    /\ GameDelivers(s)
    /\ GotoWith(s, "save",
         [handlers[s].acc EXCEPT !["Gold"] = @ - handlers[s].amount["Gold"]])

BuyPostAnswered(s) ==
    /\ GameDelivers(s)
    /\ GotoWith(s, "save", Debit(handlers[s].acc, handlers[s].amount))

BuyPostLost(s) ==
    /\ "lostReply" \in faults
    /\ GameDelivers(s)
    /\ Finish(s)

BuyPostFails(s) == UNCHANGED due /\ Finish(s)

BuyPost(s) ==
    /\ At(s, "buy", "post")
    /\ \/ BuyPostAnswered(s)
       \/ BuyPostLost(s)
       \/ BuyPostFails(s)
    /\ UNCHANGED <<tableVars, day, ops, faults,
                   history, paid, overflowed, straddled>>

\* The price is off the struct; the whole row is stored.
BuySave(s) ==
    /\ At(s, "buy", "save")
    /\ \/ SaveAccount(handlers[s].user, handlers[s].acc)
       \/ SaveAccountFails
    /\ Finish(s)
    /\ UNCHANGED <<records, day, ops, faults, auxVars>>

BuyStep(s) == BuyRead(s) \/ BuyPost(s) \/ BuySave(s)

=============================================================================
