----------------------------- MODULE MCRetryLoop ----------------------------
(***************************************************************************)
(* RetryLoop over the values of MCReactLoop.                               *)
(***************************************************************************)
EXTENDS RetryLoop, MCReactLoop
=============================================================================
