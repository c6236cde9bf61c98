-------------------------------- MODULE MCUdp --------------------------------
(***************************************************************************)
(* Instances of StormUdp for TLC: two sockets that compete for a short     *)
(* kernel table, and one function for the task queue.                      *)
(***************************************************************************)
EXTENDS StormUdp

CONSTANTS k1, k2, u1

MCSocks == {k1, k2}
MCOneSock == {k1}
=============================================================================
