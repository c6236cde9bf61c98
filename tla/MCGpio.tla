------------------------------- MODULE MCGpio -------------------------------
(***************************************************************************)
(* Instances of StormGpio for TLC: a short array and two pins.             *)
(***************************************************************************)
EXTENDS StormGpio

CONSTANTS f1, f2, u1

MCFns == {f1, f2, u1}
MCIrqFns == {f1, f2}
=============================================================================
