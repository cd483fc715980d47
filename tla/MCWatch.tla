------------------------------ MODULE MCWatch ------------------------------
(* Small instances of Watch for TLC. *)
EXTENDS Watch

Any(days) == [values |-> days, restricted |-> FALSE]
Only(days) == [values |-> days, restricted |-> TRUE]
MCSchedules ==
  {[minute |-> {1}, dom |-> Any(1 .. 3), dow |-> Any(0 .. 1)],
   [minute |-> {0, 2}, dom |-> Only({2}), dow |-> Only({1})],
   [minute |-> {1}, dom |-> Any(1 .. 3), dow |-> Only({1})]}
MCIntervals == {1, 6}
=============================================================================
