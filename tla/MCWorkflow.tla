----------------------------- MODULE MCWorkflow ------------------------------
EXTENDS WorkflowRun
CONSTANTS opSplit, opStep, opJoin
MCInputs == (opSplit :> 0) @@ (opStep :> 1) @@ (opJoin :> 3)
MCOutputs == (opSplit :> 2) @@ (opStep :> 1) @@ (opJoin :> 1)
MCMost == (opSplit :> 1) @@ (opStep :> 2) @@ (opJoin :> 1)

(* The loop of removeAllInputAssignments(), key by key in ascending order. *)
OneByOne(as, v) ==
    FoldLeft(LAMBDA b, a : IF a[1] = v THEN remove(b, {a})
                           ELSE IF a[1] > v
                           THEN insert(remove(b, {a}), {<<a[1] - 1, a[2]>>}, b[a])
                           ELSE b,
             as, keys(as))
SomeInputs == (1 .. MaxIds) \X (1 .. 2)
ASSUME RenumberingLoop ==
    \A S \in SUBSET SomeInputs : \A as \in [S -> Values \cup {Open}], v \in 1 .. MaxIds :
        OneByOne(as, v) = removeAllInputAssignments(as, v)
=============================================================================
