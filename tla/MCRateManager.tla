---------------------------- MODULE MCRateManager ----------------------------
(***************************************************************************)
(* A high priority request against a normal one that refreshes,            *)
(* with limits of one and of two requests per second; MCRatePrecedence.cfg *)
(* has the same two at one, MCRateFraction.cfg the first alone at a half.  *)
(***************************************************************************)
EXTENDS RateManager
=============================================================================
