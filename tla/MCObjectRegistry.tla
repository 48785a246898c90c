-------------------------- MODULE MCObjectRegistry --------------------------
(* Small instances of ObjectRegistry for TLC: one thread with three        *)
(* handles, or two threads with two handles and one.                       *)
EXTENDS ObjectRegistry, TLC

CONSTANTS t1, t2, h1, h2, h3, i1, i2, n1

OneThread == t1 :> {h1, h2, h3}
TwoThreads == t1 :> {h1, h3} @@ t2 :> {h2}

(* The two handles of the first thread are alike.                          *)
SameHandles == Permutations({h1, h3})
==============================================================================
