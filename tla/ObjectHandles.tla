---------------------------- MODULE ObjectHandles ----------------------------
(***************************************************************************)
(* What IlwisData (core/ilwisobjects/ilwisdata.h) promises: "every         *)
(* IlwisObject is a singleton in the system".  A handle is empty or refers *)
(* to an instance of the object with some id; all handles to an id refer   *)
(* to the same instance, so that an instance can only be replaced by       *)
(* another one when nobody refers to it any more.                          *)
(***************************************************************************)
CONSTANTS Handles, Ids, Objects,
          Nothing      \* what an empty handle refers to: no pair of these

VARIABLE refers        \* refers[h]: Nothing, or the id and the instance

Init == refers = [h \in Handles |-> Nothing]

Release(h) == refers' = [refers EXCEPT ![h] = Nothing]

Refer(h, id, o) ==
    /\ \A g \in Handles \ {h} :
           refers[g] # Nothing /\ refers[g][1] = id => refers[g][2] = o
    /\ refers' = [refers EXCEPT ![h] = <<id, o>>]

Next == \E h \in Handles :
            \/ Release(h)
            \/ \E id \in Ids, o \in Objects : Refer(h, id, o)

Spec == Init /\ [][Next]_refers
==============================================================================
