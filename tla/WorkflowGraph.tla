---------------------------- MODULE WorkflowGraph ----------------------------
(***************************************************************************)
(* The graph of a workflow while it is edited: Workflow of                 *)
(* core/ilwisobjects/workflow/workflow.cpp with WorkflowModel of           *)
(* ilwiscoreui/models/workflow, which the canvas calls.                    *)
(*                                                                         *)
(* The graph is a boost adjacency_list of vectors: a vertex is a position, *)
(* and the removal of one renumbers those behind it.  The inputs of a      *)
(* vertex that no flow leads to have an entry in a map with (vertex,       *)
(* parameter) as its key, which removeAllInputAssignments() renumbers.     *)
(* Vertices and parameters are counted from 1 here.                        *)
(*                                                                         *)
(* The edges of a vertex are kept in a vector as well, from which they are *)
(* removed while it is iterated over, up to the end that it had: one that  *)
(* moved into the place of a removed one is passed over, and is met again  *)
(* behind the new end, where it still is.  That works for two edges; with  *)
(* three the loop comes to an edge that it has removed, and is undefined.  *)
(* Conditions are left out; all parameters are required.                   *)
(***************************************************************************)
EXTENDS Integers, FiniteSets, FiniteSetsExt, Sequences, SequencesExt, TLC

CONSTANTS Operations, \* operations of the catalog
          Inputs,     \* number of inputs of each
          Outputs,    \* number of outputs of each
          Values,     \* constants that inputs can be given
          Open,       \* an empty value
          Most,       \* bound: instances of each operation in the workflow
          MaxFlows,   \* bound: flows
          MaxIds      \* bound: operations ever added

ASSUME OpenAssumption == Open \notin Values
ASSUME SizesAssumption == /\ Inputs \in [Operations -> Nat] /\ Outputs \in [Operations -> Nat]
                          /\ Most \in [Operations -> Nat]
                          /\ MaxFlows \in Nat /\ MaxIds \in Nat
                          /\ IsFiniteSet(Operations)

VARIABLES nodes,    \* vertices of _wfGraph; id tells the instances apart and
                    \* is not in the program
          flows,    \* edges of _wfGraph, in the order they were drawn in
          assigned, \* _inputAssignments
          form,     \* the fields of the form of open inputs, which follows
                    \* the lists of changes that WorkflowModel returns
          nextId    \* of the next instance

gvars == <<nodes, flows, assigned, form, nextId>>

Vertices == DOMAIN nodes
Flow == [from : Nat, out : Nat, to : Nat, in : Nat]

GInit == /\ nodes = <<>> /\ flows = <<>> /\ form = <<>>
         /\ assigned = [a \in {} |-> Open]
         /\ nextId = 1

-----------------------------------------------------------------------------
(* Those of the flows fs that are in es, in their order.                   *)
Among(fs, es) ==
    LET upTo[i \in 0 .. Len(fs)] ==
          IF i = 0 THEN <<>>
          ELSE IF fs[i] \in es THEN Append(upTo[i - 1], fs[i])
          ELSE upTo[i - 1]
    IN  upTo[Len(fs)]

OutEdges(fs, v) == Among(fs, {e \in ToSet(fs) : e.from = v})
InEdges(fs, v) == Among(fs, {e \in ToSet(fs) : e.to = v})

(* Keys of the map come in ascending order.                                *)
Width == Max({0} \cup {Inputs[o] : o \in Operations})
Pins == [i \in 1 .. MaxIds * Width |-> <<((i - 1) \div Width) + 1, ((i - 1) % Width) + 1>>]
keys(as) == Among(Pins, DOMAIN as)

insert(as, ins, v) == [a \in DOMAIN as \cup ins |-> IF a \in ins THEN v ELSE as[a]]
remove(as, ins) == [a \in DOMAIN as \ ins |-> as[a]]

(* getWorkflowParameterIndex(): the position among all empty inputs; 0 when *)
(* it is not there.                                                         *)
openInputs(as) == Among(Pins, {a \in DOMAIN as : as[a] = Open})
PositionIn(s, e) == IF e \in ToSet(s) THEN CHOOSE i \in DOMAIN s : s[i] = e ELSE 0
getWorkflowParameterIndex(as, a) == PositionIn(openInputs(as), a)

(* Changes of the form: "index|insert" and "index|remove".                 *)
insertField(f, i, field) == IF i = 0 \/ i > Len(f) + 1 THEN f ELSE InsertAt(f, i, field)
removeField(f, i) == IF i \in DOMAIN f THEN RemoveAt(f, i) ELSE f

insertion(i, field) == [action |-> "insert", at |-> i, field |-> field]
removal(i) == [action |-> "remove", at |-> i]
changed(f, c) == IF c.action = "insert" THEN insertField(f, c.at, c.field) ELSE removeField(f, c.at)

(* The changes of a list, one after the other.                             *)
applied(f, changes) ==
    LET upTo[i \in 0 .. Len(changes)] == IF i = 0 THEN f ELSE changed(upTo[i - 1], changes[i])
    IN  upTo[Len(changes)]

hasValueDefined(v, p) == \/ \E i \in DOMAIN flows : flows[i].to = v /\ flows[i].in = p
                         \/ <<v, p>> \in DOMAIN assigned /\ assigned[<<v, p>>] # Open

Targets(es) == {<<e.to, e.in>> : e \in es}

(* Mutant of removeOperationFlow: the inputs are left without an entry.    *)
removeEdgeOnly(as, es) == as

(* removeOperationFlow() of each: what they led to gets an empty value.    *)
removeOperationFlow(as, es) == insert(as, Targets(es), Open)

(* removeAllInputAssignments(): the keys of the vertex go, those behind it *)
(* come one lower.  The loop moves them in ascending order, so that each   *)
(* finds its new place left by the one before it (RenumberingLoop).        *)
removeAllInputAssignments(as, v) ==
    LET down(a) == IF a[1] > v THEN <<a[1] - 1, a[2]>> ELSE a
        up(a) == IF a[1] >= v THEN <<a[1] + 1, a[2]>> ELSE a
    IN  [a \in {down(b) : b \in {c \in DOMAIN as : c[1] # v}} |-> as[up(a)]]

-----------------------------------------------------------------------------
(* Mutant of withOpen: the inputs go to the vertex that is the last one.   *)
withOpenTooEarly(n) == insert(assigned, {<<Len(nodes), p>> : p \in 1 .. n}, Open)

(* The assignments with n inputs of the vertex that comes next.            *)
withOpen(n) == insert(assigned, {<<Len(nodes) + 1, p>> : p \in 1 .. n}, Open)

(* The form with the changes that are returned: with the inputs of an      *)
(* operation that is added, with what the flows es led to, and without the *)
(* open inputs of a vertex that goes, the last one first.                  *)
withInputsOf(o) ==
    LET field(p) == insertion(getWorkflowParameterIndex(withOpen(p), <<Len(nodes) + 1, p>>), <<nextId, p>>)
    IN  applied(form, [p \in 1 .. Inputs[o] |-> field(p)])

withTargetsOf(es) ==
    LET left(i) == removeOperationFlow(assigned, {es[j] : j \in 1 .. i})
        field(i) == insertion(getWorkflowParameterIndex(left(i), <<es[i].to, es[i].in>>),
                              <<nodes[es[i].to].id, es[i].in>>)
    IN  applied(form, [i \in 1 .. Len(es) |-> field(i)])

withoutInputsOf(v, as) ==
    LET own == Among(openInputs(as), {a \in DOMAIN as : a[1] = v})
        field(a) == removal(getWorkflowParameterIndex(as, a))
    IN  applied(form, [i \in 1 .. Len(own) |-> field(own[Len(own) - i + 1])])

addOperation(o) ==
    /\ Cardinality({v \in Vertices : nodes[v].op = o}) < Most[o] /\ nextId <= MaxIds
    /\ nodes' = Append(nodes, [op |-> o, id |-> nextId])
    /\ nextId' = nextId + 1
    /\ assigned' = withOpen(Inputs[o])
    /\ form' = withInputsOf(o)
    /\ UNCHANGED flows

(* assignConstantInputData() for one of its values.                        *)
assignConstantInputData(v, p, value) ==
    /\ <<v, p>> \in DOMAIN assigned /\ assigned[<<v, p>>] # value
    /\ assigned' = [assigned EXCEPT ![<<v, p>>] = value]
    /\ form' = IF assigned[<<v, p>>] = Open
               THEN removeField(form, getWorkflowParameterIndex(assigned, <<v, p>>))
               ELSE IF value = Open
               THEN insertField(form, getWorkflowParameterIndex(assigned', <<v, p>>),
                                <<nodes[v].id, p>>)
               ELSE form
    /\ UNCHANGED <<nodes, flows, nextId>>

(* Mutant of addFlow: the index is taken when the input has gone.          *)
addFlowLate(e) ==
    /\ e.from # e.to /\ ~hasValueDefined(e.to, e.in)
    /\ Len(flows) < MaxFlows
    /\ assigned' = remove(assigned, {<<e.to, e.in>>})
    /\ form' = removeField(form, getWorkflowParameterIndex(assigned', <<e.to, e.in>>))
    /\ flows' = Append(flows, e)
    /\ UNCHANGED <<nodes, nextId>>

(* The canvas offers inputs without a value of another operation.          *)
addFlow(e) ==
    /\ e.from # e.to /\ ~hasValueDefined(e.to, e.in)
    /\ Len(flows) < MaxFlows
    /\ form' = removeField(form, getWorkflowParameterIndex(assigned, <<e.to, e.in>>))
    /\ assigned' = remove(assigned, {<<e.to, e.in>>})
    /\ flows' = Append(flows, e)
    /\ UNCHANGED <<nodes, nextId>>

(* deleteFlow() compares the operations of the vertices, not the vertices. *)
deleteFlow(from, to, out, in) ==
    LET gone == {e \in ToSet(flows) : /\ e.from = from /\ nodes[e.to].op = nodes[to].op
                                      /\ e.out = out /\ e.in = in}
    IN  /\ Len(OutEdges(flows, from)) <= 2
        /\ flows' = Among(flows, ToSet(flows) \ gone)
        /\ assigned' = removeOperationFlow(assigned, gone)
        /\ form' = withTargetsOf(Among(flows, gone))
        /\ UNCHANGED <<nodes, nextId>>

(* deleteOperation(); getOperationCount() counts from a number that is not  *)
(* initialized, so that it may as well find no such operation and do        *)
(* nothing.                                                                 *)
deleteOperation(v) ==
    LET gone == {e \in ToSet(flows) : v \in {e.from, e.to}}
        left == Among(flows, ToSet(flows) \ gone)
        as == removeOperationFlow(assigned, gone)
        down(w) == IF w > v THEN w - 1 ELSE w
    IN  /\ Len(InEdges(flows, v)) <= 2 /\ Len(OutEdges(flows, v)) <= 2
        /\ form' = withoutInputsOf(v, as)
        /\ nodes' = RemoveAt(nodes, v)
        /\ flows' = [i \in DOMAIN left |-> [left[i] EXCEPT !.from = down(@), !.to = down(@)]]
        /\ assigned' = removeAllInputAssignments(as, v)
        /\ UNCHANGED nextId

Edit == \/ \E o \in Operations : addOperation(o)
        \/ \E a \in DOMAIN assigned, value \in Values \cup {Open} :
              assignConstantInputData(a[1], a[2], value)
        \/ \E v, w \in Vertices : \E out \in 1 .. Outputs[nodes[v].op], in \in 1 .. Inputs[nodes[w].op] :
              addFlow([from |-> v, out |-> out, to |-> w, in |-> in])
        \/ \E i \in DOMAIN flows : LET e == flows[i] IN deleteFlow(e.from, e.to, e.out, e.in)
        \/ \E v \in Vertices : deleteOperation(v)

GSpec == GInit /\ [][Edit]_gvars

-----------------------------------------------------------------------------
(* The types; no assignment is kept for a vertex that is not there.       *)
TypeOK ==
    /\ nodes \in Seq([op : Operations, id : 1 .. MaxIds])
    /\ \A i \in DOMAIN flows : flows[i] \in Flow
    /\ DOMAIN assigned \subseteq Vertices \X (1 .. Width)
    /\ \A a \in DOMAIN assigned : assigned[a] \in Values \cup {Open}
    /\ \A i \in DOMAIN form : form[i] \in (1 .. MaxIds) \X (1 .. Width)
    /\ nextId \in 1 .. MaxIds + 1

InputPins == UNION {{<<v, p>> : p \in 1 .. Inputs[nodes[v].op]} : v \in Vertices}

(* Every input of every operation has exactly one source: one flow and no  *)
(* entry among the assignments, or an entry and no flow; no entry and no   *)
(* flow belongs to anything else.  The two are kept apart, by different    *)
(* methods, and renumbered by different code.                              *)
EveryInputOnce ==
    LET drawn(a) == {i \in DOMAIN flows : <<flows[i].to, flows[i].in>> = a}
    IN  /\ DOMAIN assigned \subseteq InputPins
        /\ \A i \in DOMAIN flows : /\ <<flows[i].to, flows[i].in>> \in InputPins
                                   /\ flows[i].from \in Vertices
                                   /\ flows[i].out \in 1 .. Outputs[nodes[flows[i].from].op]
        /\ \A a \in InputPins : Cardinality(drawn(a)) = IF a \in DOMAIN assigned THEN 0 ELSE 1

(* The fields of the run form when it is in step with the workflow.        *)
OpenFields(ns, as) == [i \in DOMAIN openInputs(as) |->
                          <<ns[openInputs(as)[i][1]].id, openInputs(as)[i][2]>>]

(* "A list of changes" (workflowmodel.h): the form to which the changes    *)
(* are applied has a field for each open input, in the order of            *)
(* getWorkflowParameterIndex(), when it had them before and no operation   *)
(* with flows was deleted: deleteOperation() reports neither the inputs    *)
(* that its flows leave open, nor the right fields.                        *)
ChangesAreExact ==
    [][ (/\ form = OpenFields(nodes, assigned)
         /\ Len(nodes') < Len(nodes) => Len(flows') = Len(flows))
        => form' = OpenFields(nodes', assigned') ]_gvars

(* Operations by instance, links and values by what they belong to: the    *)
(* editor keeps to Workflows, although the numbers of vertices change.     *)
Named(e) == [e EXCEPT !.from = nodes[@].id, !.to = nodes[@].id]
W == INSTANCE Workflows WITH
         Ids <- 1 .. MaxIds,
         op <- [id \in {nodes[v].id : v \in Vertices} |->
                    nodes[CHOOSE v \in Vertices : nodes[v].id = id].op],
         links <- {Named(flows[i]) : i \in DOMAIN flows},
         value <- [i \in {<<nodes[a[1]].id, a[2]>> : a \in DOMAIN assigned} |->
                    assigned[CHOOSE a \in DOMAIN assigned : <<nodes[a[1]].id, a[2]>> = i]]
IsWorkflow == W!Spec
=============================================================================
