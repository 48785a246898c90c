------------------------------ MODULE BoxWalk ------------------------------
(***************************************************************************)
(* What an iterator over a box promises: the pixels of the box are visited *)
(* in the order of the flow, n further with every step, until none is left. *)
(***************************************************************************)
EXTENDS Integers

VARIABLES size,   \* the number of pixels in the box, 0 before the iterator is made
          n,      \* how many pixels a step goes on
          left    \* how many pixels are left, the one at the iterator included

vars == <<size, n, left>>

Init == size = 0 /\ n \in Nat /\ left = 0

Begin == size = 0 /\ size' > 0 /\ left' = size' /\ UNCHANGED n

Step ==
  /\ left > 0
  /\ left' = IF left > n THEN left - n ELSE 0
  /\ UNCHANGED <<size, n>>

Next == Begin \/ Step

Spec == Init /\ [][Next]_vars
=============================================================================
