----------------------------- MODULE MCLifecycle ----------------------------
(* Small instances of Lifecycle for TLC. *)
EXTENDS Lifecycle

MCTwoCallers == {"signal", "restart"}
MCSignal == {"signal"}
=============================================================================
