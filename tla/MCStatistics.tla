---------------------------- MODULE MCStatistics ----------------------------
(* Small instances of Statistics for TLC. *)
EXTENDS Statistics

MCFaultRegimes == {{}, {"timeout"}, Fault}
MCReliable == {{}}

\* Failing writes make the most states: behaviours with them end a unit earlier.
MCTime == "saveError" \in faults => clock < MaxTime
=============================================================================
