------------------------------ MODULE Workflows ------------------------------
(***************************************************************************)
(* What the editor of workflows promises: operations that keep their       *)
(* identity, links between their parameters, and values of the inputs that *)
(* are not linked.  WorkflowGraph implements it with vertices that are     *)
(* numbers and change when an operation is deleted.                        *)
(***************************************************************************)
EXTENDS Naturals

CONSTANTS Ids, Operations, Inputs, Outputs, Values, Open

VARIABLES op,     \* the operation of each instance
          links,  \* from an output of one instance to an input of another
          value   \* of each input without a link

vars == <<op, links, value>>

InputsOf(o, id) == {<<id, p>> : p \in 1 .. Inputs[o]}

Init == op = [id \in {} |-> 0] /\ links = {} /\ value = [i \in {} |-> 0]

Without(f, S) == [x \in DOMAIN f \ S |-> f[x]]
With(f, S, v) == [x \in DOMAIN f \cup S |-> IF x \in S THEN v ELSE f[x]]

(* An operation comes with all inputs open.                                *)
Add(id, o) == /\ id \notin DOMAIN op
              /\ op' = With(op, {id}, o)
              /\ value' = With(value, InputsOf(o, id), Open)
              /\ UNCHANGED links

Assign(input, v) == /\ input \in DOMAIN value
                    /\ value' = [value EXCEPT ![input] = v]
                    /\ UNCHANGED <<op, links>>

(* A link takes the place of the value of an open input.                   *)
Connect(link) == /\ {link.from, link.to} \subseteq DOMAIN op /\ link.from # link.to
                 /\ <<link.to, link.in>> \in DOMAIN value
                 /\ value[<<link.to, link.in>>] = Open
                 /\ links' = links \cup {link}
                 /\ value' = Without(value, {<<link.to, link.in>>})
                 /\ UNCHANGED op

Targets(ls) == {<<link.to, link.in>> : link \in ls}

(* Where a link goes, its input is open again.  The links that go from one *)
(* output to the same input of instances of one operation are told apart   *)
(* by nothing but their target, which deleteFlow() does not look at.       *)
Alike(link) == {l \in links : /\ [l EXCEPT !.to = link.to] = link
                              /\ op[l.to] = op[link.to]}

Disconnect(link) == /\ link \in links
                    /\ \E ls \in SUBSET Alike(link) :
                         /\ ls # {}
                         /\ links' = links \ ls
                         /\ value' = With(value, Targets(ls), Open)
                    /\ UNCHANGED op

(* With an operation its links go; nothing happens to the others.          *)
Delete(id) ==
    /\ id \in DOMAIN op
    /\ op' = Without(op, {id})
    /\ links' = {l \in links : id \notin {l.from, l.to}}
    /\ value' = LET freed == {l \in links : l.from = id}
                IN  Without(With(value, Targets(freed), Open), InputsOf(op[id], id))

Next == \/ \E id \in Ids, o \in Operations : Add(id, o)
        \/ \E i \in DOMAIN value, v \in Values \cup {Open} : Assign(i, v)
        \/ \E i \in DOMAIN value, id \in DOMAIN op : \E out \in 1 .. Outputs[op[id]] :
              Connect([from |-> id, out |-> out, to |-> i[1], in |-> i[2]])
        \/ \E link \in links : Disconnect(link)
        \/ \E id \in DOMAIN op : Delete(id)

Spec == Init /\ [][Next]_vars
=============================================================================
