-------------------------- MODULE MCTranquilizers --------------------------
(* An operation with two tasks whose updates go past the end it announced,   *)
(* and one in the main thread.                                               *)
EXTENDS Tranquilizers, TLC
CONSTANTS a, mt, a1, a2, w1
MCTrqOf   == (a1 :> a) @@ (a2 :> a) @@ (w1 :> mt)
MCUpdates == (a1 :> 2) @@ (a2 :> 2) @@ (w1 :> 1)
MCEnd     == (a :> 3) @@ (mt :> 1)
=============================================================================
