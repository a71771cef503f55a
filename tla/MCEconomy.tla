------------------------------ MODULE MCEconomy -----------------------------
(* Small instances of Economy for TLC. *)
EXTENDS Economy, TLC

Amt(g, e, l) == [c \in Currency |->
    CASE c = "Gold" -> g [] c = "Exp" -> e [] c = "ExpLevel" -> l]

\* One withdrawal or purchase is covered, two are not; with MaxInt = 4 a gift
\* of two, or two check-ins, leave the range of the integers.
MCInitialRows == {Amt(3, 1, 1)}
MCWithdrawals == {Only("Gold", 2)}
MCRewards == {Amt(1, 1, 1)}
MCPrice == Amt(2, 1, 1)

\* Serial and reliable; serial with failures; everything at once.
MCFaultRegimes == {
    {},
    {"lostReply", "crash"},
    {"lostReply", "crash", "saveError"},
    Fault}
MCLostReply == {{"lostReply"}}
MCReadError == {{"readError"}}
MCReliable == {{}}

MCSymmetry == Permutations(Users) \cup Permutations(Slots)
=============================================================================
