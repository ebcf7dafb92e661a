--------------------------- MODULE MCEventReaders ---------------------------
(***************************************************************************)
(* Values for EventReaders: two commands on one run and a third on it or   *)
(* on another, a short history, and two readers.                           *)
(***************************************************************************)
EXTENDS EventReaders, TLC

CONSTANTS r1, r2, p1, p2, p3, w1, w2

TwoOrThreeOnOne == (p1 :> {r1}) @@ (p2 :> {r1}) @@ (p3 :> {r1, r2})

OneEach == [p \in {p1, p2, p3} |-> 1]
=============================================================================
