----------------------------- MODULE WorkflowRun -----------------------------
(***************************************************************************)
(* A run of the workflow that was edited, as                               *)
(* WorkflowOperationImplementation does it after createMetadata(): the     *)
(* arguments of the nodes with open inputs are taken from the expression,  *)
(* and from each node whose results leave the workflow its flows are       *)
(* followed back to the nodes that must be executed first.  Here the run   *)
(* is a function of the graph: nothing is changed in it.                   *)
(*                                                                         *)
(* The commands of a run are its nodes in the order they are executed in,  *)
(* each with what its flows found; the list of arguments follows from that *)
(* and is looked at afterwards.  A node stands for its results in the      *)
(* context of a command, 0 for none.  An argument is a constant, a result  *)
(* or a parameter of the expression: <<"value", x>>, <<"result", node,     *)
(* output>> or <<"parm", index>>.  Commands succeed; there are no          *)
(* conditions.                                                             *)
(***************************************************************************)
EXTENDS WorkflowGraph

Empty == <<"empty">>         \* the empty string
Undefined == <<"undefined">> \* what lies beyond the end of a list of results

Ascending(S) == Among([i \in 1 .. Len(nodes) + Width |-> i], S)

InputsOf(v) == 1 .. Inputs[nodes[v].op]
OpenOf(v) == {a \in DOMAIN assigned : a[1] = v /\ assigned[a] = Open}
ConstantsOf(v) == {a \in DOMAIN assigned : a[1] = v /\ assigned[a] # Open}

(* Mutant of getNodesWithExternalInput: only nodes without flows.          *)
getNodesWithoutFlows == Ascending({v \in Vertices : InEdges(flows, v) = <<>>})

getNodesWithExternalInput ==
    Ascending({v \in Vertices :
                  \/ InEdges(flows, v) = <<>>
                  \/ Len(InEdges(flows, v)) + Cardinality(ConstantsOf(v)) < Inputs[nodes[v].op]})

(* Flows are counted, not the outputs they leave from.                     *)
getNodesWithExternalOutputs ==
    Ascending({v \in Vertices : Len(OutEdges(flows, v)) < Outputs[nodes[v].op]
                                \/ OutEdges(flows, v) = <<>>})

(* QStringList::insert(): beyond the end is at the end.                    *)
insertArgument(args, i, x) == IF i > Len(args) THEN Append(args, x) ELSE InsertAt(args, i, x)

(* The arguments that are put into a list, one after the other.            *)
put(i, x) == [at |-> i, arg |-> x]
inserted(args, puts) ==
    LET upTo[k \in 0 .. Len(puts)] ==
          IF k = 0 THEN args ELSE insertArgument(upTo[k - 1], puts[k].at, puts[k].arg)
    IN  upTo[Len(puts)]

(* The list of arguments becomes text from which trailing commas go.       *)
Trimmed(args) ==
    LET filled == {i \in DOMAIN args : args[i] # Empty}
    IN  IF filled = {} THEN <<>>
        ELSE SubSeq(args, 1, CHOOSE i \in filled : \A j \in filled : j <= i)

(* The parameters of the expression go to the open inputs of these nodes,  *)
(* node by node.                                                           *)
parameterOf(a) ==
    PositionIn(Among(openInputs(assigned), (ToSet(getNodesWithExternalInput) \X (1 .. Width))), a)

(* parseInputNodeArguments(): the arguments of a node go in front of as    *)
(* many empty ones as there are inputs.                                    *)
parseInputNodeArguments(v) ==
    LET own == Among(Pins, OpenOf(v) \cup ConstantsOf(v))
        argument(a) == IF assigned[a] # Open THEN <<"value", assigned[a]>> ELSE <<"parm", parameterOf(a)>>
    IN  IF v \in ToSet(getNodesWithExternalInput)
        THEN inserted([p \in InputsOf(v) |-> Empty],
                      [i \in 1 .. Len(own) |-> put(own[i][2], argument(own[i]))])
        ELSE <<>>

(* The runs so far: the commands, and the node whose results the context   *)
(* of the caller has.                                                      *)
Results == Vertices \cup {0}
Runs == [calls : Seq([node : Vertices, found : Seq(Results)]), ctx : Results]

(* Mutant of Called: nothing is remembered.                                *)
NeverCalled(r, v) == FALSE

Called(r, v) == \E i \in DOMAIN r.calls : r.calls[i].node = v

(* The flows to a node are followed back one after the other, in a context *)
(* of their own.                                                           *)
followFlows(follow, r, v) ==
    LET ins == InEdges(flows, v)
        upTo[k \in 0 .. Len(ins)] ==
          IF k = 0 THEN [run |-> [calls |-> r.calls, ctx |-> 0], found |-> <<>>]
          ELSE LET run == follow[upTo[k - 1].run][ins[k].from]
               IN  [run |-> run, found |-> Append(upTo[k - 1].found, run.ctx)]
    IN  upTo[Len(ins)]

(* A node that was executed before is not executed again, and adds no      *)
(* results to the context; those of the context are replaced by those of   *)
(* a command.                                                              *)
executeNode(follow, r, v) ==
    LET before == followFlows(follow, r, v)
    IN  IF Called(r, v) THEN r
        ELSE [calls |-> Append(before.run.calls, [node |-> v, found |-> before.found]), ctx |-> v]

(* reverseFollowExecutionPath(), n calls deep.  Without a cycle no more    *)
(* calls than nodes are nested; in a cycle the program does not return.    *)
reverseFollowExecutionPath[n \in 0 .. Len(nodes)] ==
    [r \in Runs |-> [v \in Vertices |->
        IF n = 0 THEN r ELSE executeNode(reverseFollowExecutionPath[n - 1], r, v)]]

(* execute(): of a node whose results leave the workflow the first is      *)
(* given to the caller.                                                    *)
execute ==
    LET ends == getNodesWithExternalOutputs
        upTo[k \in 0 .. Len(ends)] ==
          IF k = 0 THEN [calls |-> <<>>, results |-> <<>>]
          ELSE LET run == reverseFollowExecutionPath[Len(nodes)]
                              [[calls |-> upTo[k - 1].calls, ctx |-> 0]][ends[k]]
               IN  [calls |-> run.calls, results |-> Append(upTo[k - 1].results, run.ctx)]
    IN  upTo[Len(ends)]

resultOf(w, out) == IF w # 0 /\ out \in 1 .. Outputs[nodes[w].op] THEN <<"result", w, out>> ELSE Undefined

(* The list of arguments of a command: constants, then what the flows      *)
(* found, then what the node was given by parseInputNodeArguments().       *)
argumentsOf(c) ==
    LET v == c.node
        ins == InEdges(flows, v)
        given == parseInputNodeArguments(v)
        constants == Among(Pins, ConstantsOf(v))
        filled == Among([i \in DOMAIN given |-> i], {i \in DOMAIN given : given[i] # Empty})
        puts == [i \in 1 .. Len(constants) |-> put(constants[i][2], <<"value", assigned[constants[i]]>>)]
                \o [k \in 1 .. Len(ins) |-> put(ins[k].in, resultOf(c.found[k], ins[k].out))]
                \o [i \in 1 .. Len(filled) |-> put(filled[i], given[filled[i]])]
    IN  Trimmed(IF ins = <<>> THEN given ELSE inserted(<<>>, puts))

-----------------------------------------------------------------------------
Sources(v) == {flows[i].from : i \in {j \in DOMAIN flows : flows[j].to = v}}
Acyclic == \A S \in (SUBSET Vertices) \ {{}} : \E v \in S : Sources(v) \cap S = {}

(* A workflow without a cycle calls each of its operations once, and after *)
(* those whose results it uses.  The flows are followed from the ends, and *)
(* a memory of what was executed keeps shared parts from running twice.    *)
CallsInOrder ==
    Acyclic =>
        LET calls == execute.calls
            place(v) == {i \in DOMAIN calls : calls[i].node = v}
        IN  \A v \in Vertices :
              /\ Cardinality(place(v)) = 1
              /\ \A w \in Sources(v) : \A i \in place(v), j \in place(w) : j < i

(* What an input should be given.                                          *)
Argument(v, p) ==
    IF <<v, p>> \notin DOMAIN assigned
    THEN LET i == CHOOSE j \in DOMAIN flows : flows[j].to = v /\ flows[j].in = p
         IN  <<"result", flows[i].from, flows[i].out>>
    ELSE IF assigned[<<v, p>>] # Open THEN <<"value", assigned[<<v, p>>]>>
    ELSE <<"parm", getWorkflowParameterIndex(assigned, <<v, p>>)>>

(* The workflows that the program runs as drawn: a node whose results are  *)
(* used has no others, and they go to one node next to each other; the     *)
(* flows to a node were drawn in the order of its inputs; and no node has  *)
(* flows, constants and open inputs together.                              *)
Plain ==
    /\ Acyclic
    /\ \A v \in Vertices :
          LET ins == InEdges(flows, v)
          IN  /\ \A i \in DOMAIN OutEdges(flows, v), j \in DOMAIN OutEdges(flows, v) :
                    OutEdges(flows, v)[i].to = OutEdges(flows, v)[j].to
              /\ OutEdges(flows, v) # <<>> => v \notin ToSet(getNodesWithExternalOutputs)
              /\ \A i, j \in DOMAIN ins : i < j => ins[i].in < ins[j].in
              /\ \A i, j, k \in DOMAIN ins : i < j /\ j < k /\ ins[i].from = ins[k].from
                                                => ins[j].from = ins[i].from
              /\ ins = <<>> \/ OpenOf(v) = {} \/ ConstantsOf(v) = {}

(* Then every operation is called with what was drawn, set or filled in    *)
(* for each of its inputs, in their places: the parameters of the          *)
(* expression are taken in the order in which the form shows them, and the *)
(* insertions into the list of arguments end in the right order.  The      *)
(* caller is given the results of the ends.                                *)
ArgumentsInPlace ==
    Plain => LET done == execute
                 ends == getNodesWithExternalOutputs
             IN  /\ \A i \in DOMAIN done.calls :
                       LET v == done.calls[i].node
                       IN  argumentsOf(done.calls[i]) = [p \in InputsOf(v) |-> Argument(v, p)]
                 /\ \A k \in DOMAIN ends : resultOf(done.results[k], 1) = resultOf(ends[k], 1)
=============================================================================
