-------------------------------- MODULE MCRing --------------------------------
(***************************************************************************)
(* Instances of RttRing for TLC: rings of three bytes, so that calls of up *)
(* to four bytes do not fit even into an empty one.                        *)
(***************************************************************************)
EXTENDS RttRing
=============================================================================
