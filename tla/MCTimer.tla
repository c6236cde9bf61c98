------------------------------- MODULE MCTimer -------------------------------
(***************************************************************************)
(* Instances of StormTimer for TLC.  Two Timers compete for one or two     *)
(* table entries; u1 is a function that user code posts itself.            *)
(***************************************************************************)
EXTENDS StormTimer

CONSTANTS t1, t2, u1, s1, s2

MCTimers == {t1, t2}
MCFns == {t1, t2, u1}
MCTimersOnly == {t1}
MCOneTimerFns == {t1, u1}
MCNoUserFns == {t1}
=============================================================================
