--------------------------- MODULE MCCommandLocks ---------------------------
(***************************************************************************)
(* Three callers, two runs and as many entries as there are callers.       *)
(***************************************************************************)
EXTENDS CommandLocks

CONSTANTS a, b, c, r1, r2, e1, e2, e3
=============================================================================
