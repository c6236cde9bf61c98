----------------------------- MODULE MCTempSensor -----------------------------
(***************************************************************************)
(* Instance of TempSensor for TLC: three operations, so that two ticks may *)
(* overlap; arbitrary user code has two of them.                           *)
(***************************************************************************)
EXTENDS TempSensor

CONSTANTS o1, o2, o3, b1, b2, t1, s1

MCOps == {o1, o2, o3}
=============================================================================
