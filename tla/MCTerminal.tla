------------------------------ MODULE MCTerminal ------------------------------
(***************************************************************************)
(* Instance of RttTerminal for TLC: one terminal named by a digit, one by  *)
(* a letter and an id that is out of range, and texts of up to two bytes,  *)
(* one of which is a digit.                                                *)
(***************************************************************************)
EXTENDS RttTerminal

MCTexts == {<<>>, <<49>>, <<120, 49>>}
=============================================================================
