----------------------------- MODULE MCWhitelist ----------------------------
(* Small instances of Whitelist for TLC. *)
EXTENDS Whitelist, TLC

\* No faults; two mixtures a single handler can meet; everything.
MCFaultRegimes == {
    {},
    {"lostReply", "saveError", "crash", "readError"},
    {"lostReply", "saveError", "crash", "late"},
    Fault}
MCReadError == {{"readError"}}

MCSymmetry ==
    Permutations(Users) \cup Permutations(Names) \cup Permutations(Slots)
=============================================================================
