---------------------------- MODULE MCWriteSafety ----------------------------
(* Instances of WriteSafety for TLC.                                       *)
EXTENDS WriteSafety, TLC

CONSTANTS t1, t2, system_mode, glt_demand

TwoTasks == {t1, t2}
TaskSymmetry == Permutations(TwoTasks)
Throttled == {system_mode}
Refreshed == {glt_demand}
Nothing == {}
=============================================================================
