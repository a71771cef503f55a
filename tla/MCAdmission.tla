----------------------------- MODULE MCAdmission ----------------------------
(* A small instance of Admission for TLC. *)
EXTENDS Admission

CONSTANTS u, g

\* A user writes to the bot and in a group.
MCMessages == {
    [scene |-> "c2c", author |-> u, place |-> None],
    [scene |-> "group", author |-> u, place |-> g]}
MCKeys == {KeyOf(m) : m \in MCMessages}
MCFaultRegimes == {{"crash"}, {"timeout", "readError"}, {"readError", "writeError"}}
MCSymmetry == Permutations(Slots) \cup Permutations(Editors)

\* Bound: time passes, or the blacklist is edited.
MCConstraint == now = 0 \/ edited = 0
=============================================================================
