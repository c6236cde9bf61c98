------------------------------- MODULE MCOutput -------------------------------
(***************************************************************************)
(* Instance of RttOutput for TLC.  Formats: every set of the flags -, 0    *)
(* and +, and the flag # alone (it is parsed and has no effect), with a    *)
(* few widths and precisions for each conversion, between two literal      *)
(* characters, and 16-bit numbers around the places where a digit or the   *)
(* sign is added.  Terminals: ids on both sides of the limits 10 and 16,   *)
(* and texts of which one begins with a digit.                             *)
(***************************************************************************)
EXTENDS RttOutput

FlagSeqs == {<<>>, <<"-">>, <<"0">>, <<"+">>, <<"-", "0">>, <<"0", "+">>,
             <<"+", "-">>, <<"-", "0", "+">>, <<"#">>}
Widths == {<<>>, <<"2">>, <<"4">>}
Precisions == {<<>>, <<".", "3">>}

NumberFormats ==
  {<<"a", "%">> \o f \o w \o p \o <<c, "b", "NUL">> :
     f \in FlagSeqs, w \in Widths, p \in Precisions, c \in {"d", "u", "x"}}

MCLater == {<<"%", "s", "%", "p", "NUL">>, <<"%", "c", "NUL">>}

MCFormats ==
  NumberFormats \cup MCLater
    \cup {<<"%", "%", "%", "p", "NUL">>, <<"%", "q", "c", "NUL">>}

MCInts == {-32768, -100, -7, 0, 9, 10, 16, 999}
MCStrings == {<<>>, <<"x", "y">>}
MCTexts == {<<>>, <<49>>, <<120, 49>>}
=============================================================================
