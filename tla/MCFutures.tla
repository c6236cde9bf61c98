------------------------------ MODULE MCFutures ------------------------------
(***************************************************************************)
(* Instance of Futures for TLC: chains of up to three futures.             *)
(***************************************************************************)
EXTENDS Futures
=============================================================================
