--------------------------- MODULE WorkflowProofs ---------------------------
(***************************************************************************)
(* Proofs about WorkflowGraph and WorkflowRun, for every set of operations *)
(* with any number of inputs and outputs, and any number of edits.         *)
(*                                                                         *)
(* The invariant is Sound: the flows fit the vertices, no two lead to the  *)
(* same input, and an input has an entry among the assignments exactly     *)
(* when no flow leads to it.  It is kept by each part of an edit: an       *)
(* operation that comes, a flow that comes, flows that go, a vertex that   *)
(* goes and the renumbering of those behind it.  The same parts are then   *)
(* followed through OpBar, LinksBar and ValueBar, which name operations by *)
(* instance and not by position, to show that an edit does nothing else.   *)
(*                                                                         *)
(* The form (FormFollows) is followed as the ordered enumeration of the    *)
(* set of open inputs, Ordered.  A set has one such enumeration            *)
(* (SortedOnce), so that a field that is removed or inserted at the place  *)
(* of its input gives that of the smaller or larger set (TakeField,        *)
(* PutField), and a list of changes is followed set by set.                *)
(*                                                                         *)
(* The order of a run (OperationsRunInOrder) is shown by the levels of a   *)
(* graph without a cycle: what is called while the flows of a node are     *)
(* followed lies in every set that is closed under sources and has those   *)
(* of the node, and one such set has not the node itself (SourcesApart).   *)
(*                                                                         *)
(* The arguments of a command (ArgumentsAreInPlace): in a workflow that    *)
(* runs as drawn the results of a node are in the context when the flow to *)
(* its only user is followed (Finds), and insertions into a list leave the *)
(* arguments in order when each comes behind those that are there, or      *)
(* finds all those before it (Placed, PutsInPlace).                        *)
(***************************************************************************)
EXTENDS WorkflowRun, FiniteSetTheorems, SequenceTheorems, WellFoundedInduction, TLAPS

Below == {p \in Nat \X Nat : p[1] < p[2]}

LEMMA LeastNumber ==
  ASSUME NEW T \in SUBSET Nat, T # {}
  PROVE  \E x \in T : \A y \in T : x <= y
<1>1. IsWellFoundedOn(Below, Nat)
  BY NatLessThanWellFounded DEF OpToRel, Below
<1>2. PICK x \in T : \A y \in T : ~ (<<y, x>> \in Below)
  BY <1>1, WFMin
<1>3. \A y \in T : x \in Nat /\ y \in Nat /\ ~ (y < x)
  BY <1>2, Zenon DEF Below
<1>4. \A y \in T : x <= y
  BY <1>3
<1> QED BY <1>4

-----------------------------------------------------------------------------
(* A function that is defined by recursion over the numbers up to N: step  *)
(* i takes the value before it to the next.                                *)
Recursive(f, N, base, step) ==
    f[0] = base /\ \A i \in 1 .. N : f[i] = step[i][f[i - 1]]

LEMMA Recursion ==
  ASSUME NEW N \in Nat, NEW T, NEW base \in T, NEW step \in [1 .. N -> [T -> T]]
  PROVE  \E f \in [0 .. N -> T] : Recursive(f, N, base, step)
<1> DEFINE Without == {n \in 0 .. N : ~ \E f \in [0 .. n -> T] : Recursive(f, n, base, step)}
<1>1. SUFFICES ASSUME Without # {} PROVE FALSE
  BY Without = {} \/ Without # {}
<1>2. Without \in SUBSET Nat
  OBVIOUS
<1>3. PICK n \in Without : \A m \in Without : n <= m
  BY <1>1, <1>2, LeastNumber
<1>4. n \in 0 .. N /\ ~ \E f \in [0 .. n -> T] : Recursive(f, n, base, step)
  OBVIOUS
<1>5. CASE n = 0
  <2> DEFINE f == [i \in 0 .. 0 |-> base]
  <2>1. f \in [0 .. n -> T] /\ Recursive(f, n, base, step)
    BY <1>5 DEF Recursive
  <2> QED BY <2>1, <1>4
<1>6. CASE n # 0
  <2>1. n - 1 \in 0 .. N /\ n \in 1 .. N /\ ~(n <= n - 1)
    BY <1>4, <1>6
  <2>2. n - 1 \notin Without
    BY <2>1, <1>3
  <2>3. PICK g \in [0 .. n - 1 -> T] : Recursive(g, n - 1, base, step)
    BY <2>1, <2>2
  <2> DEFINE f == [i \in 0 .. n |-> IF i = n THEN step[n][g[n - 1]] ELSE g[i]]
  <2>4. step[n][g[n - 1]] \in T
    BY <2>1
  <2>5. f \in [0 .. n -> T]
    BY <2>1, <2>4
  <2>6. f[0] = base
    BY <2>1, <2>3, <1>6 DEF Recursive
  <2>7. ASSUME NEW i \in 1 .. n PROVE f[i] = step[i][f[i - 1]]
    <3>1. CASE i = n
      BY <3>1, <2>1
    <3>2. CASE i # n
      <4>1. i \in 1 .. n - 1 /\ i - 1 \in 0 .. n - 1 /\ i - 1 # n /\ i \in 0 .. n - 1
        BY <3>2, <2>1
      <4>2. f[i] = g[i] /\ f[i - 1] = g[i - 1]
        BY <4>1, <3>2, <2>1
      <4> QED BY <4>1, <4>2, <2>3 DEF Recursive
    <3> QED BY <3>1, <3>2
  <2>8. Recursive(f, n, base, step)
    BY <2>6, <2>7 DEF Recursive
  <2> QED BY <2>5, <2>8, <1>4
<1> QED BY <1>5, <1>6

(* What is kept by every step holds at the end.                            *)
LEMMA RecursionKeeps ==
  ASSUME NEW N \in Nat, NEW Kept \in SUBSET (0 .. N), 0 \in Kept,
         \A i \in 1 .. N : i - 1 \in Kept => i \in Kept
  PROVE  Kept = 0 .. N
<1> DEFINE Out == (0 .. N) \ Kept
<1>1. SUFFICES ASSUME Out # {} PROVE FALSE
  OBVIOUS
<1>2. Out \in SUBSET Nat
  OBVIOUS
<1>3. PICK n \in Out : \A m \in Out : n <= m
  BY <1>1, <1>2, LeastNumber
<1>4. n \in 1 .. N /\ n - 1 \in 0 .. N /\ ~(n <= n - 1)
  BY <1>3
<1>5. n - 1 \in Kept
  BY <1>3, <1>4
<1> QED BY <1>3, <1>4, <1>5

-----------------------------------------------------------------------------
(* Among.                                                                  *)

(* r is made of the elements 1 .. n of fs that are in es; h tells where    *)
(* each of them stood.                                                     *)
Picked(r, h, fs, es, n) ==
    /\ h \in [1 .. Len(r) -> 1 .. n]
    /\ \A k \in 1 .. Len(r) : r[k] = fs[h[k]] /\ fs[h[k]] \in es
    /\ \A k, l \in 1 .. Len(r) : k < l => h[k] < h[l]
    /\ \A i \in 1 .. n : fs[i] \in es => \E k \in 1 .. Len(r) : h[k] = i

LEMMA AmongIs ==
  ASSUME NEW E, NEW fs \in Seq(E), NEW es
  PROVE  /\ Among(fs, es) \in Seq(E)
         /\ \E h : Picked(Among(fs, es), h, fs, es, Len(fs))
<1> DEFINE N == Len(fs)
           T == Seq(E)
           step == [i \in 1 .. N |-> [t \in T |-> IF fs[i] \in es THEN Append(t, fs[i]) ELSE t]]
           Eq(F) == F = [i \in 0 .. N |->
                           IF i = 0 THEN <<>>
                           ELSE IF fs[i] \in es THEN Append(F[i - 1], fs[i])
                           ELSE F[i - 1]]
           upTo == CHOOSE F : Eq(F)
<1>1. Among(fs, es) = upTo[N]
  BY DEF Among
<1>2. N \in Nat /\ <<>> \in T /\ \A i \in 1 .. N : fs[i] \in E
  OBVIOUS
<1>3. step \in [1 .. N -> [T -> T]]
  <2>1. ASSUME NEW i \in 1 .. N, NEW t \in T
        PROVE  (IF fs[i] \in es THEN Append(t, fs[i]) ELSE t) \in T
    BY <1>2
  <2> QED BY <2>1
<1>4. PICK f \in [0 .. N -> T] : Recursive(f, N, <<>>, step)
  <2> HIDE DEF N, T, step
  <2> QED BY <1>2, <1>3, Recursion
<1>5. Eq(f)
  <2>1. ASSUME NEW i \in 0 .. N
        PROVE  f[i] = IF i = 0 THEN <<>>
                      ELSE IF fs[i] \in es THEN Append(f[i - 1], fs[i])
                      ELSE f[i - 1]
    <3>1. CASE i = 0
      BY <1>4, <3>1 DEF Recursive
    <3>2. CASE i # 0
      <4>1. i \in 1 .. N /\ i - 1 \in 0 .. N
        BY <3>2
      <4>2. f[i] = step[i][f[i - 1]] /\ f[i - 1] \in T
        BY <4>1, <1>4 DEF Recursive
      <4> QED BY <3>2, <4>1, <4>2
    <3> QED BY <3>1, <3>2
  <2>2. f = [i \in 0 .. N |-> f[i]]
    BY <1>4
  <2> HIDE DEF N
  <2> QED BY <2>1, <2>2
<1>6. Eq(upTo)
  <2> HIDE DEF Eq
  <2> QED BY <1>5
<1>7. /\ upTo[0] = <<>>
      /\ \A i \in 1 .. N : upTo[i] = IF fs[i] \in es THEN Append(upTo[i - 1], fs[i])
                                     ELSE upTo[i - 1]
  <2>1. upTo = [i \in 0 .. N |->
                   IF i = 0 THEN <<>>
                   ELSE IF fs[i] \in es THEN Append(upTo[i - 1], fs[i])
                   ELSE upTo[i - 1]]
    BY <1>6
  <2> HIDE DEF upTo
  <2>2. \A i \in 0 .. N : upTo[i] = IF i = 0 THEN <<>>
                                   ELSE IF fs[i] \in es THEN Append(upTo[i - 1], fs[i])
                                   ELSE upTo[i - 1]
    BY <2>1
  <2>3. 0 \in 0 .. N /\ \A i \in 1 .. N : i \in 0 .. N /\ i # 0
    BY <1>2
  <2> QED BY <2>2, <2>3
<1> HIDE DEF upTo
<1> DEFINE Good(i) == upTo[i] \in T /\ \E h : Picked(upTo[i], h, fs, es, i)
           Kept == {i \in 0 .. N : Good(i)}
<1>8. Good(0)
  <2>1. Picked(upTo[0], [k \in {} |-> 0], fs, es, 0)
    BY <1>7 DEF Picked
  <2> QED BY <1>2, <1>7, <2>1
<1>9. ASSUME NEW i \in 1 .. N, Good(i - 1)
      PROVE  Good(i)
  <2> DEFINE r == upTo[i - 1]
  <2>1. r \in T /\ i - 1 \in Nat /\ i \in Nat
    BY <1>9
  <2>2. PICK h : Picked(r, h, fs, es, i - 1)
    BY <1>9
  <2>3. CASE fs[i] \notin es
    <3>1. upTo[i] = r
      BY <1>7, <2>3
    <3>2. Picked(r, h, fs, es, i)
      <4>1. h \in [1 .. Len(r) -> 1 .. i]
        BY <2>1, <2>2 DEF Picked
      <4>2. ASSUME NEW j \in 1 .. i, fs[j] \in es
            PROVE  \E k \in 1 .. Len(r) : h[k] = j
        <5>1. j \in 1 .. i - 1
          BY <4>2, <2>3
        <5> QED BY <5>1, <4>2, <2>2 DEF Picked
      <4> QED BY <4>1, <4>2, <2>2 DEF Picked
    <3> QED BY <3>1, <3>2, <2>1
  <2>4. CASE fs[i] \in es
    <3> DEFINE q == Append(r, fs[i])
               g == [k \in 1 .. Len(r) + 1 |-> IF k = Len(r) + 1 THEN i ELSE h[k]]
    <3>1. upTo[i] = q
      BY <1>7, <2>4
    <3>2. /\ q \in T /\ Len(q) = Len(r) + 1 /\ q[Len(r) + 1] = fs[i] /\ Len(r) \in Nat
          /\ \A k \in 1 .. Len(r) : q[k] = r[k]
      BY <2>1, <1>2
    <3>3. \A k \in 1 .. Len(r) : g[k] = h[k] /\ h[k] \in 1 .. i - 1
      <4>1. \A k \in 1 .. Len(r) : h[k] \in 1 .. i - 1
        BY <2>2 DEF Picked
      <4>2. \A k \in 1 .. Len(r) : k \in 1 .. Len(r) + 1 /\ k # Len(r) + 1
        BY <3>2
      <4>3. \A k \in 1 .. Len(r) : g[k] = h[k]
        BY <4>2
      <4> QED BY <4>1, <4>3
    <3>4. Len(r) + 1 \in 1 .. Len(r) + 1 /\ g[Len(r) + 1] = i
      BY <3>2
    <3>5. g \in [1 .. Len(q) -> 1 .. i]
      <4>1. \A k \in 1 .. Len(r) + 1 : k = Len(r) + 1 \/ k \in 1 .. Len(r)
        BY <3>2
      <4>2. ASSUME NEW k \in 1 .. Len(r) + 1 PROVE g[k] \in 1 .. i
        <5>1. CASE k = Len(r) + 1
          BY <5>1, <3>4
        <5>2. CASE k \in 1 .. Len(r)
          <6>1. g[k] \in 1 .. i - 1
            BY <5>2, <3>3
          <6> HIDE DEF g
          <6> QED BY <6>1
        <5> QED BY <5>1, <5>2, <4>1
      <4>3. g \in [1 .. Len(r) + 1 -> 1 .. i]
        BY <4>2
      <4> QED BY <4>3, <3>2
    <3> HIDE DEF q, g
    <3>6. ASSUME NEW k \in 1 .. Len(q)
          PROVE  q[k] = fs[g[k]] /\ fs[g[k]] \in es
      <4>1. CASE k = Len(r) + 1
        BY <4>1, <3>2, <3>4, <2>4
      <4>2. CASE k # Len(r) + 1
        <5>1. k \in 1 .. Len(r)
          BY <4>2, <3>2
        <5> QED BY <5>1, <3>2, <3>3, <2>2 DEF Picked
      <4> QED BY <4>1, <4>2
    <3>7. ASSUME NEW k \in 1 .. Len(q), NEW l \in 1 .. Len(q), k < l
          PROVE  g[k] < g[l]
      <4>1. k \in 1 .. Len(r) /\ (l \in 1 .. Len(r) \/ l = Len(r) + 1)
        BY <3>2, <3>7
      <4>2. \A m \in 1 .. i - 1 : m < i
        BY <2>1
      <4>3. CASE l \in 1 .. Len(r)
        BY <4>1, <4>3, <3>3, <3>7, <2>2 DEF Picked
      <4>4. CASE l = Len(r) + 1
        BY <4>1, <4>2, <4>4, <3>3, <3>4
      <4> QED BY <4>1, <4>3, <4>4
    <3>8. ASSUME NEW j \in 1 .. i, fs[j] \in es
          PROVE  \E k \in 1 .. Len(q) : g[k] = j
      <4>1. CASE j = i
        BY <4>1, <3>2, <3>4
      <4>2. CASE j # i
        <5>1. j \in 1 .. i - 1
          BY <4>2
        <5>2. PICK k \in 1 .. Len(r) : h[k] = j
          BY <5>1, <3>8, <2>2 DEF Picked
        <5>3. k \in 1 .. Len(q)
          BY <3>2
        <5> QED BY <5>2, <5>3, <3>3
      <4> QED BY <4>1, <4>2
    <3>9. Picked(q, g, fs, es, i)
      BY <3>5, <3>6, <3>7, <3>8 DEF Picked
    <3> QED BY <3>1, <3>2, <3>9
  <2> QED BY <2>3, <2>4
<1>10. Kept = 0 .. N
  <2>1. 0 \in Kept
    BY <1>2, <1>8
  <2>2. \A i \in 1 .. N : i - 1 \in Kept => i \in Kept
    <3>1. \A i \in 1 .. N : i - 1 \in Kept => Good(i - 1) /\ i \in 0 .. N
      BY <1>2
    <3> HIDE DEF Good, N
    <3> QED BY <3>1, <1>9
  <2>3. Kept \in SUBSET (0 .. N)
    OBVIOUS
  <2> HIDE DEF Kept, N
  <2> QED BY <1>2, <2>1, <2>2, <2>3, RecursionKeeps
<1>11. Good(N)
  <2>1. N \in Kept
    BY <1>2, <1>10
  <2> HIDE DEF Good
  <2> QED BY <2>1
<1> QED BY <1>1, <1>11

LEMMA PickedOnce ==
  ASSUME NEW E, NEW r \in Seq(E), NEW h, NEW fs, NEW es, NEW n \in Nat, Picked(r, h, fs, es, n)
  PROVE  \A k, l \in 1 .. Len(r) : h[k] = h[l] => k = l
<1> SUFFICES ASSUME NEW k \in 1 .. Len(r), NEW l \in 1 .. Len(r), h[k] = h[l], k # l
             PROVE  FALSE
  OBVIOUS
<1>1. h[k] \in 1 .. n /\ h[l] \in 1 .. n
  BY DEF Picked
<1>2. k < l \/ l < k
  OBVIOUS
<1>3. h[k] < h[l] \/ h[l] < h[k]
  BY <1>2 DEF Picked
<1> QED BY <1>1, <1>3

LEMMA AmongElements ==
  ASSUME NEW E, NEW fs \in Seq(E), NEW es
  PROVE  /\ Among(fs, es) \in Seq(E)
         /\ ToSet(Among(fs, es)) = ToSet(fs) \cap es
<1> DEFINE r == Among(fs, es)
<1>1. PICK h : Picked(r, h, fs, es, Len(fs))
  BY AmongIs
<1>2. r \in Seq(E)
  BY AmongIs
<1> HIDE DEF r
<1>3. ASSUME NEW e \in ToSet(r) PROVE e \in ToSet(fs) \cap es
  <2>1. PICK k \in 1 .. Len(r) : e = r[k]
    BY <1>2 DEF ToSet
  <2>2. h[k] \in 1 .. Len(fs) /\ e = fs[h[k]] /\ e \in es
    BY <2>1, <1>1 DEF Picked
  <2> QED BY <2>2 DEF ToSet
<1>4. ASSUME NEW e \in ToSet(fs), e \in es PROVE e \in ToSet(r)
  <2>1. PICK i \in 1 .. Len(fs) : e = fs[i]
    BY DEF ToSet
  <2>2. PICK k \in 1 .. Len(r) : h[k] = i
    BY <2>1, <1>1, <1>4 DEF Picked
  <2>3. r[k] = e
    BY <2>1, <2>2, <1>1 DEF Picked
  <2> QED BY <2>3, <1>2 DEF ToSet
<1> QED BY <1>2, <1>3, <1>4 DEF r

-----------------------------------------------------------------------------
(* The graph: the vertices ns, the flows fs and the inputs with an entry   *)
(* among the assignments.                                                  *)

Node == [op : Operations, id : 1 .. MaxIds]
Target(e) == <<e.to, e.in>>
PinsOf(ns) == {a \in Nat \X Nat : a[1] \in 1 .. Len(ns) /\ a[2] \in 1 .. Inputs[ns[a[1]].op]}

Fits(ns, e) == /\ e.from \in 1 .. Len(ns) /\ e.to \in 1 .. Len(ns)
               /\ e.in \in 1 .. Inputs[ns[e.to].op]
               /\ e.out \in 1 .. Outputs[ns[e.from].op]

Sound(ns, fs, entries) ==
    /\ ns \in Seq(Node)
    /\ fs \in Seq(Flow)
    /\ entries \subseteq PinsOf(ns)
    /\ \A i \in 1 .. Len(fs) : Fits(ns, fs[i])
    /\ \A i, j \in 1 .. Len(fs) : Target(fs[i]) = Target(fs[j]) => i = j
    /\ \A i \in 1 .. Len(fs) : Target(fs[i]) \notin entries
    /\ \A a \in PinsOf(ns) : a \notin entries => \E i \in 1 .. Len(fs) : Target(fs[i]) = a

LEMMA PinIs ==
  ASSUME NEW ns \in Seq(Node), NEW v, NEW p
  PROVE  <<v, p>> \in PinsOf(ns) <=> v \in 1 .. Len(ns) /\ p \in 1 .. Inputs[ns[v].op]
<1>1. ASSUME v \in 1 .. Len(ns), p \in 1 .. Inputs[ns[v].op]
      PROVE  v \in Nat /\ p \in Nat
  <2>1. ns[v] \in Node /\ v \in Nat
    BY <1>1
  <2>2. ns[v].op \in Operations
    BY <2>1 DEF Node
  <2>3. Inputs[ns[v].op] \in Nat
    BY <2>2, SizesAssumption
  <2> HIDE DEF Node
  <2> QED BY <1>1, <2>1, <2>3
<1> QED BY <1>1 DEF PinsOf

LEMMA PinIsPair ==
  ASSUME NEW ns, NEW a \in PinsOf(ns)
  PROVE  a = <<a[1], a[2]>>
BY DEF PinsOf

(* An operation comes with an entry for each of its inputs.                *)
LEMMA AddSound ==
  ASSUME NEW ns, NEW fs, NEW entries, Sound(ns, fs, entries), NEW n \in Node
  PROVE  Sound(Append(ns, n), fs,
               entries \cup {<<Len(ns) + 1, p>> : p \in 1 .. Inputs[n.op]})
<1> DEFINE ms == Append(ns, n)
           new == {<<Len(ns) + 1, p>> : p \in 1 .. Inputs[n.op]}
<1>1. ns \in Seq(Node)
  BY DEF Sound
<1>2. /\ ms \in Seq(Node) /\ Len(ms) = Len(ns) + 1 /\ Len(ns) \in Nat
      /\ ms[Len(ns) + 1] = n
      /\ \A v \in 1 .. Len(ns) : ms[v] = ns[v] /\ v \in 1 .. Len(ms)
  BY <1>1
<1>3. ASSUME NEW v, NEW p
      PROVE  <<v, p>> \in PinsOf(ms) <=> <<v, p>> \in PinsOf(ns) \cup new
  <2>1. <<v, p>> \in PinsOf(ms) <=> v \in 1 .. Len(ns) + 1 /\ p \in 1 .. Inputs[ms[v].op]
    BY <1>2, PinIs
  <2>2. <<v, p>> \in PinsOf(ns) <=> v \in 1 .. Len(ns) /\ p \in 1 .. Inputs[ns[v].op]
    BY <1>1, PinIs
  <2>3. <<v, p>> \in new <=> v = Len(ns) + 1 /\ p \in 1 .. Inputs[n.op]
    OBVIOUS
  <2> HIDE DEF ms, new
  <2>4. v \in 1 .. Len(ns) + 1 <=> v \in 1 .. Len(ns) \/ v = Len(ns) + 1
    BY <1>2
  <2> QED BY <2>1, <2>2, <2>3, <2>4, <1>2
<1> HIDE DEF ms
<1>4. PinsOf(ms) = PinsOf(ns) \cup new
  <2>1. \A a \in PinsOf(ms) : a \in PinsOf(ns) \cup new
    BY <1>3, PinIsPair
  <2>2. \A a \in PinsOf(ns) : a \in PinsOf(ms)
    BY <1>3, PinIsPair
  <2>3. \A a \in new : a \in PinsOf(ms)
    BY <1>3
  <2> HIDE DEF new
  <2> QED BY <2>1, <2>2, <2>3
<1>5. ASSUME NEW i \in 1 .. Len(fs)
      PROVE  Fits(ms, fs[i]) /\ Target(fs[i]) \notin new
  <2>1. Fits(ns, fs[i])
    BY DEF Sound
  <2>2. fs[i].to # Len(ns) + 1
    BY <2>1, <1>2 DEF Fits
  <2> QED BY <2>1, <2>2, <1>2 DEF Fits, Target
<1> HIDE DEF new
<1>6. Sound(ms, fs, entries \cup new)
  BY <1>2, <1>4, <1>5 DEF Sound
<1> QED BY <1>6 DEF ms, new

(* A flow takes the place of an entry.                                     *)
LEMMA FlowSound ==
  ASSUME NEW ns, NEW fs, NEW entries, Sound(ns, fs, entries),
         NEW e \in Flow, Fits(ns, e), Target(e) \in entries
  PROVE  Sound(ns, Append(fs, e), entries \ {Target(e)})
<1> DEFINE gs == Append(fs, e)
<1>1. fs \in Seq(Flow)
  BY DEF Sound
<1>2. /\ gs \in Seq(Flow) /\ Len(gs) = Len(fs) + 1 /\ Len(fs) \in Nat
      /\ gs[Len(fs) + 1] = e
      /\ \A i \in 1 .. Len(fs) : gs[i] = fs[i] /\ i \in 1 .. Len(gs)
      /\ \A i \in 1 .. Len(gs) : i \in 1 .. Len(fs) \/ i = Len(fs) + 1
      /\ Len(fs) + 1 \in 1 .. Len(gs)
  BY <1>1
<1> HIDE DEF gs
<1>3. \A i \in 1 .. Len(gs) : Fits(ns, gs[i])
  BY <1>2 DEF Sound
<1>4. \A i \in 1 .. Len(fs) : Target(fs[i]) # Target(e)
  BY DEF Sound
<1>5. \A i, j \in 1 .. Len(gs) : Target(gs[i]) = Target(gs[j]) => i = j
  BY <1>2, <1>4 DEF Sound
<1>6. \A i \in 1 .. Len(gs) : Target(gs[i]) \notin entries \ {Target(e)}
  BY <1>2 DEF Sound
<1>7. ASSUME NEW a \in PinsOf(ns), a \notin entries \ {Target(e)}
      PROVE  \E i \in 1 .. Len(gs) : Target(gs[i]) = a
  <2>1. CASE a = Target(e)
    BY <2>1, <1>2
  <2>2. CASE a \notin entries
    <3>1. PICK i \in 1 .. Len(fs) : Target(fs[i]) = a
      BY <2>2 DEF Sound
    <3> QED BY <3>1, <1>2
  <2> QED BY <2>1, <2>2, <1>7
<1>8. Sound(ns, gs, entries \ {Target(e)})
  BY <1>2, <1>3, <1>5, <1>6, <1>7 DEF Sound
<1> QED BY <1>8 DEF gs

(* The entry comes back for each flow that goes.                           *)
LEMMA RemoveSound ==
  ASSUME NEW ns, NEW fs, NEW entries, Sound(ns, fs, entries),
         NEW gone \in SUBSET ToSet(fs)
  PROVE  Sound(ns, Among(fs, ToSet(fs) \ gone), entries \cup Targets(gone))
<1> DEFINE es == ToSet(fs) \ gone
           gs == Among(fs, es)
<1>1. fs \in Seq(Flow)
  BY DEF Sound
<1>2. PICK h : Picked(gs, h, fs, es, Len(fs))
  BY <1>1, AmongIs
<1>3. gs \in Seq(Flow)
  BY <1>1, AmongIs
<1>4. \A i \in 1 .. Len(fs) : fs[i] \in ToSet(fs)
  BY <1>1 DEF ToSet
<1>5. \A e \in gone : \E i \in 1 .. Len(fs) : e = fs[i]
  BY <1>1 DEF ToSet
<1>6. \A a : a \in Targets(gone) <=> \E e \in gone : a = Target(e)
  BY DEF Targets, Target
<1> HIDE DEF gs
<1>7. \A k \in 1 .. Len(gs) : h[k] \in 1 .. Len(fs) /\ gs[k] = fs[h[k]] /\ fs[h[k]] \notin gone
  BY <1>2 DEF Picked
<1>8. entries \cup Targets(gone) \subseteq PinsOf(ns)
  <2>1. ASSUME NEW e \in gone PROVE Target(e) \in PinsOf(ns)
    <3>1. PICK i \in 1 .. Len(fs) : e = fs[i]
      BY <1>5
    <3>2. Fits(ns, e) /\ ns \in Seq(Node)
      BY <3>1 DEF Sound
    <3> QED BY <3>2, PinIs DEF Fits, Target
  <2> QED BY <2>1, <1>6 DEF Sound
<1>9. \A k \in 1 .. Len(gs) : Fits(ns, gs[k])
  BY <1>7 DEF Sound
<1>10. ASSUME NEW k \in 1 .. Len(gs), NEW l \in 1 .. Len(gs), Target(gs[k]) = Target(gs[l])
       PROVE  k = l
  <2>1. h[k] = h[l]
    BY <1>7, <1>10 DEF Sound
  <2> QED BY <2>1, <1>1, <1>2, <1>3, PickedOnce
<1>11. ASSUME NEW k \in 1 .. Len(gs) PROVE Target(gs[k]) \notin entries \cup Targets(gone)
  <2>1. Target(gs[k]) \notin entries
    BY <1>7 DEF Sound
  <2>2. ASSUME NEW e \in gone, Target(gs[k]) = Target(e) PROVE FALSE
    <3>1. PICK i \in 1 .. Len(fs) : e = fs[i]
      BY <1>5
    <3>2. h[k] = i
      BY <3>1, <2>2, <1>7 DEF Sound
    <3> QED BY <3>1, <3>2, <1>7
  <2> QED BY <2>1, <2>2, <1>6
<1>12. ASSUME NEW a \in PinsOf(ns), a \notin entries \cup Targets(gone)
       PROVE  \E k \in 1 .. Len(gs) : Target(gs[k]) = a
  <2>1. PICK i \in 1 .. Len(fs) : Target(fs[i]) = a
    BY <1>12 DEF Sound
  <2>2. fs[i] \in es
    BY <2>1, <1>4, <1>6, <1>12
  <2>3. PICK k \in 1 .. Len(gs) : h[k] = i
    BY <2>2, <1>2 DEF Picked
  <2> QED BY <2>1, <2>3, <1>7
<1>13. Sound(ns, gs, entries \cup Targets(gone))
  BY <1>3, <1>8, <1>9, <1>10, <1>11, <1>12 DEF Sound
<1> QED BY <1>13 DEF gs

(* With a vertex without flows its entries go, and what is behind it moves *)
(* up: the vertices, both ends of the flows, and the keys of the entries.  *)
Down(v, w) == IF w > v THEN w - 1 ELSE w
Up(v, w) == IF w >= v THEN w + 1 ELSE w
Moved(fs, v) == [i \in DOMAIN fs |-> [fs[i] EXCEPT !.from = Down(v, @), !.to = Down(v, @)]]
KeyAfter(v, a) == <<Down(v, a[1]), a[2]>>
Lowered(entries, v) == {KeyAfter(v, a) : a \in {b \in entries : b[1] # v}}

LEMMA DownUp ==
  ASSUME NEW n \in Nat, NEW v \in 1 .. n
  PROVE  /\ \A w \in 1 .. n : w # v => Down(v, w) \in 1 .. n - 1 /\ Up(v, Down(v, w)) = w
         /\ \A w \in 1 .. n - 1 : /\ Up(v, w) \in 1 .. n /\ Up(v, w) # v
                                  /\ Down(v, Up(v, w)) = w
BY DEF Down, Up

LEMMA RemoveAtIs ==
  ASSUME NEW E, NEW s \in Seq(E), NEW v \in 1 .. Len(s)
  PROVE  /\ RemoveAt(s, v) \in Seq(E)
         /\ Len(RemoveAt(s, v)) = Len(s) - 1
         /\ \A w \in 1 .. Len(s) - 1 : RemoveAt(s, v)[w] = s[Up(v, w)]
<1> DEFINE a == SubSeq(s, 1, v - 1)
           b == SubSeq(s, v + 1, Len(s))
<1>1. RemoveAt(s, v) = a \o b
  BY DEF RemoveAt
<1>2. v \in Nat /\ Len(s) \in Nat /\ 1 <= v /\ v <= Len(s)
  OBVIOUS
<1>3. a \in Seq(E) /\ Len(a) = v - 1 /\ \A w \in 1 .. v - 1 : a[w] = s[w]
  BY <1>2
<1>4. b \in Seq(E) /\ Len(b) = Len(s) - v /\ \A w \in 1 .. Len(s) - v : b[w] = s[v + w]
  BY <1>2
<1> HIDE DEF a, b
<1>5. /\ a \o b \in Seq(E) /\ Len(a \o b) = Len(a) + Len(b)
      /\ \A w \in 1 .. Len(a) + Len(b) :
            (a \o b)[w] = IF w <= Len(a) THEN a[w] ELSE b[w - Len(a)]
  BY <1>3, <1>4, ConcatProperties
<1>6. ASSUME NEW w \in 1 .. Len(s) - 1 PROVE (a \o b)[w] = s[Up(v, w)]
  <2>1. CASE w < v
    <3>1. (a \o b)[w] = a[w]
      BY <2>1, <1>2, <1>3, <1>4, <1>5
    <3> QED BY <3>1, <2>1, <1>2, <1>3 DEF Up
  <2>2. CASE w >= v
    <3>1. w - (v - 1) \in 1 .. Len(s) - v /\ v + (w - (v - 1)) = w + 1
      BY <2>2, <1>2
    <3>2. (a \o b)[w] = b[w - (v - 1)]
      BY <2>2, <1>2, <1>3, <1>4, <1>5
    <3> QED BY <3>1, <3>2, <2>2, <1>2, <1>4 DEF Up
  <2>3. w \in Int
    BY <1>2
  <2>4. w < v \/ w >= v
    BY <2>3, <1>2
  <2> QED BY <2>1, <2>2, <2>4
<1> QED BY <1>1, <1>2, <1>3, <1>4, <1>5, <1>6

LEMMA RenumberSound ==
  ASSUME NEW ns, NEW fs, NEW entries, Sound(ns, fs, entries),
         NEW v \in 1 .. Len(ns),
         \A i \in 1 .. Len(fs) : fs[i].from # v /\ fs[i].to # v
  PROVE  Sound(RemoveAt(ns, v), Moved(fs, v), Lowered(entries, v))
<1> DEFINE ms == RemoveAt(ns, v)
           gs == Moved(fs, v)
           es == Lowered(entries, v)
           n == Len(ns)
<1>1. ns \in Seq(Node) /\ fs \in Seq(Flow) /\ n \in Nat
  BY DEF Sound
<1>2. ms \in Seq(Node) /\ Len(ms) = n - 1 /\ \A w \in 1 .. n - 1 : ms[w] = ns[Up(v, w)]
  BY <1>1, RemoveAtIs
<1> HIDE DEF ms
<1>3. \A w \in 1 .. n : w # v => /\ Down(v, w) \in 1 .. n - 1
                                /\ Up(v, Down(v, w)) = w
                                /\ ms[Down(v, w)] = ns[w]
  <2>1. ASSUME NEW w \in 1 .. n, w # v
        PROVE  /\ Down(v, w) \in 1 .. n - 1 /\ Up(v, Down(v, w)) = w
    BY <1>1, <2>1, DownUp
  <2> QED BY <1>2, <2>1
<1>4. \A w \in 1 .. n - 1 : Up(v, w) \in 1 .. n /\ Up(v, w) # v /\ Down(v, Up(v, w)) = w
  BY <1>1, DownUp
<1>5. ASSUME NEW w \in 1 .. n, w # v, NEW p
      PROVE  <<Down(v, w), p>> \in PinsOf(ms) <=> <<w, p>> \in PinsOf(ns)
  BY <1>1, <1>2, <1>3, <1>5, PinIs
<1>6. /\ Len(gs) = Len(fs) /\ gs \in Seq(Flow)
      /\ \A i \in 1 .. Len(fs) : /\ gs[i].from = Down(v, fs[i].from)
                                 /\ gs[i].to = Down(v, fs[i].to)
                                 /\ gs[i].in = fs[i].in /\ gs[i].out = fs[i].out
  <2>1. ASSUME NEW i \in 1 .. Len(fs)
        PROVE  /\ gs[i] \in Flow
               /\ gs[i].from = Down(v, fs[i].from) /\ gs[i].to = Down(v, fs[i].to)
               /\ gs[i].in = fs[i].in /\ gs[i].out = fs[i].out
    <3>1. fs[i] \in Flow /\ Fits(ns, fs[i]) /\ fs[i].from # v /\ fs[i].to # v
      BY <1>1 DEF Sound
    <3>2. Down(v, fs[i].from) \in Nat /\ Down(v, fs[i].to) \in Nat
      BY <3>1, <1>1, <1>3 DEF Fits
    <3>3. i \in DOMAIN fs
      BY <1>1
    <3>4. gs[i] = [fs[i] EXCEPT !.from = Down(v, @), !.to = Down(v, @)]
      BY <3>3 DEF Moved
    <3> QED BY <3>1, <3>2, <3>4 DEF Flow
  <2>2. gs = [i \in 1 .. Len(fs) |-> gs[i]]
    BY <1>1 DEF Moved
  <2> HIDE DEF gs
  <2> QED BY <2>1, <2>2, <1>1
<1> HIDE DEF gs
<1>7. ASSUME NEW i \in 1 .. Len(fs)
      PROVE  /\ fs[i].from \in 1 .. n /\ fs[i].from # v
             /\ fs[i].to \in 1 .. n /\ fs[i].to # v
             /\ Target(fs[i]) = <<fs[i].to, fs[i].in>>
             /\ Target(gs[i]) = <<Down(v, fs[i].to), fs[i].in>>
             /\ Fits(ms, gs[i])
  <2>1. Fits(ns, fs[i])
    BY DEF Sound
  <2> QED BY <2>1, <1>2, <1>3, <1>6 DEF Fits, Target
<1>8. \A a \in entries : a = <<a[1], a[2]>> /\ a[1] \in 1 .. n
  BY PinIsPair DEF Sound, PinsOf
<1>9. \A w \in 1 .. n : \A p : w # v => (<<Down(v, w), p>> \in es <=> <<w, p>> \in entries)
  <2>1. ASSUME NEW w \in 1 .. n, NEW p, w # v, <<Down(v, w), p>> \in es
        PROVE  <<w, p>> \in entries
    <3>1. PICK a \in entries : a[1] # v /\ <<Down(v, w), p>> = <<Down(v, a[1]), a[2]>>
      BY <2>1 DEF Lowered, KeyAfter
    <3>2. w = a[1] /\ p = a[2]
      BY <3>1, <2>1, <1>3, <1>8
    <3> QED BY <3>2, <1>8
  <2>2. ASSUME NEW w \in 1 .. n, NEW p, w # v, <<w, p>> \in entries
        PROVE  <<Down(v, w), p>> \in es
    BY <2>2 DEF Lowered, KeyAfter
  <2> QED BY <2>1, <2>2
<1>10. \A a \in es : \E w \in 1 .. n : \E p : /\ w # v /\ a = <<Down(v, w), p>>
                                              /\ <<w, p>> \in entries
  <2>1. ASSUME NEW a \in es
        PROVE  \E b \in entries : b[1] # v /\ a = <<Down(v, b[1]), b[2]>>
    BY DEF Lowered, KeyAfter
  <2> HIDE DEF es
  <2>2. ASSUME NEW a \in es
        PROVE  \E w \in 1 .. n : \E p : w # v /\ a = <<Down(v, w), p>> /\ <<w, p>> \in entries
    <3>1. PICK b \in entries : b[1] # v /\ a = <<Down(v, b[1]), b[2]>>
      BY <2>1
    <3>2. b[1] \in 1 .. n /\ <<b[1], b[2]>> \in entries
      BY <1>8
    <3> HIDE DEF n
    <3> QED BY <3>1, <3>2
  <2> QED BY <2>2
<1> HIDE DEF es
<1>11. es \subseteq PinsOf(ms)
  <2>1. ASSUME NEW a \in es PROVE a \in PinsOf(ms)
    <3>1. PICK w \in 1 .. n : \E p : w # v /\ a = <<Down(v, w), p>> /\ <<w, p>> \in entries
      BY <1>10
    <3> QED BY <3>1, <1>5 DEF Sound
  <2> QED BY <2>1
<1>12. ASSUME NEW i \in 1 .. Len(gs), NEW j \in 1 .. Len(gs), Target(gs[i]) = Target(gs[j])
       PROVE  i = j
  <2>1. fs[i].to = fs[j].to /\ fs[i].in = fs[j].in
    BY <1>3, <1>6, <1>7, <1>12
  <2>2. i \in 1 .. Len(fs) /\ j \in 1 .. Len(fs)
    BY <1>6
  <2>3. Target(fs[i]) = Target(fs[j])
    BY <2>1 DEF Target
  <2> QED BY <2>2, <2>3 DEF Sound
<1>13. ASSUME NEW i \in 1 .. Len(gs) PROVE Target(gs[i]) \notin es
  <2>1. <<fs[i].to, fs[i].in>> \notin entries
    <3>1. i \in 1 .. Len(fs)
      BY <1>6
    <3>2. Target(fs[i]) \notin entries
      BY <3>1 DEF Sound
    <3> QED BY <3>1, <3>2, <1>7
  <2> QED BY <2>1, <1>6, <1>7, <1>9
<1>14. ASSUME NEW a \in PinsOf(ms), a \notin es
       PROVE  \E i \in 1 .. Len(gs) : Target(gs[i]) = a
  <2>1. a = <<a[1], a[2]>> /\ a[1] \in 1 .. n - 1
    BY <1>2, PinIsPair DEF PinsOf
  <2> DEFINE w == Up(v, a[1])
  <2>2. w \in 1 .. n /\ w # v /\ Down(v, w) = a[1]
    BY <2>1, <1>4
  <2> HIDE DEF w
  <2>3. <<w, a[2]>> \in PinsOf(ns) /\ <<w, a[2]>> \notin entries
    BY <2>1, <2>2, <1>5, <1>9, <1>14
  <2>4. PICK i \in 1 .. Len(fs) : Target(fs[i]) = <<w, a[2]>>
    BY <2>3 DEF Sound
  <2> QED BY <2>1, <2>2, <2>4, <1>6, <1>7
<1>15. Sound(ms, gs, es)
  <2>1. \A i \in 1 .. Len(gs) : Fits(ms, gs[i])
    BY <1>6, <1>7
  <2> QED BY <2>1, <1>2, <1>6, <1>11, <1>12, <1>13, <1>14 DEF Sound
<1> QED BY <1>15 DEF ms, gs, es

-----------------------------------------------------------------------------
(* The states.                                                             *)

IdsApart(ns, next) ==
    /\ next \in 1 .. MaxIds + 1
    /\ \A v \in 1 .. Len(ns) : ns[v].id < next
    /\ \A v, w \in 1 .. Len(ns) : ns[v].id = ns[w].id => v = w

GraphInv == Sound(nodes, flows, DOMAIN assigned) /\ IdsApart(nodes, nextId)

LEMMA InsertDomain ==
  ASSUME NEW as, NEW ins, NEW x
  PROVE  DOMAIN insert(as, ins, x) = DOMAIN as \cup ins
BY DEF insert

LEMMA RenumberDomain ==
  ASSUME NEW as, NEW v, \A a \in DOMAIN as : a = <<a[1], a[2]>>
  PROVE  DOMAIN removeAllInputAssignments(as, v) = Lowered(DOMAIN as, v)
<1> DEFINE down(a) == IF a[1] > v THEN <<a[1] - 1, a[2]>> ELSE a
<1>1. \A a \in DOMAIN as : down(a) = <<Down(v, a[1]), a[2]>>
  BY DEF Down
<1>2. DOMAIN removeAllInputAssignments(as, v) = {down(b) : b \in {c \in DOMAIN as : c[1] # v}}
  BY DEF removeAllInputAssignments
<1> HIDE DEF down
<1> QED BY <1>1, <1>2 DEF Lowered, KeyAfter

LEMMA InputPinsAre ==
  ASSUME GraphInv
  PROVE  InputPins = PinsOf(nodes)
<1>1. nodes \in Seq(Node) /\ DOMAIN nodes = 1 .. Len(nodes)
  BY DEF GraphInv, Sound
<1>2. \A a : a \in InputPins <=> \E v \in 1 .. Len(nodes) : \E p \in 1 .. Inputs[nodes[v].op] : a = <<v, p>>
  BY <1>1 DEF InputPins, Vertices
<1>3. \A a \in InputPins : a \in PinsOf(nodes)
  BY <1>1, <1>2, PinIs
<1>4. \A a \in PinsOf(nodes) : a \in InputPins
  BY <1>2, PinIsPair DEF PinsOf
<1> QED BY <1>3, <1>4

LEMMA GraphInit == GInit => GraphInv
<1> SUFFICES ASSUME GInit PROVE GraphInv
  OBVIOUS
<1>1. nodes = <<>> /\ flows = <<>> /\ DOMAIN assigned = {} /\ nextId = 1
  BY DEF GInit
<1>2. PinsOf(nodes) = {}
  BY <1>1 DEF PinsOf
<1>3. Sound(nodes, flows, DOMAIN assigned)
  BY <1>1, <1>2 DEF Sound
<1>4. IdsApart(nodes, nextId)
  BY <1>1, SizesAssumption DEF IdsApart
<1> QED BY <1>3, <1>4 DEF GraphInv

(* What each edit does to the graph.                                       *)

LEMMA AddKeeps ==
  ASSUME GraphInv, NEW o \in Operations, addOperation(o)
  PROVE  GraphInv'
<1> DEFINE n == [op |-> o, id |-> nextId]
<1>1. nextId \in 1 .. MaxIds /\ nodes' = Append(nodes, n) /\ nextId' = nextId + 1 /\ flows' = flows
  <2>1. nextId \in 1 .. MaxIds + 1
    BY DEF GraphInv, IdsApart
  <2>2. nextId <= MaxIds
    BY DEF addOperation
  <2>3. nextId \in 1 .. MaxIds
    BY <2>1, <2>2, SizesAssumption
  <2>4. nodes' = Append(nodes, n) /\ nextId' = nextId + 1 /\ flows' = flows
    BY DEF addOperation
  <2> QED BY <2>3, <2>4
<1>2. n \in Node
  BY <1>1 DEF Node
<1>3. DOMAIN assigned' = DOMAIN assigned \cup {<<Len(nodes) + 1, p>> : p \in 1 .. Inputs[n.op]}
  BY InsertDomain DEF addOperation, withOpen
<1>4. nodes \in Seq(Node)
  BY DEF GraphInv, Sound
<1>5. Sound(nodes, flows, DOMAIN assigned)
  BY DEF GraphInv
<1> HIDE DEF n
<1>6. Sound(nodes', flows', DOMAIN assigned')
  BY <1>1, <1>2, <1>3, <1>5, AddSound
<1>7. IdsApart(nodes', nextId')
  <2>1. /\ Len(nodes') = Len(nodes) + 1 /\ Len(nodes) \in Nat
        /\ nodes'[Len(nodes) + 1] = n
        /\ \A v \in 1 .. Len(nodes) : nodes'[v] = nodes[v]
    BY <1>1, <1>2, <1>4
  <2>2. n.id = nextId
    BY DEF n
  <2>3. \A v \in 1 .. Len(nodes') : v \in 1 .. Len(nodes) \/ v = Len(nodes) + 1
    BY <2>1
  <2>4. \A v \in 1 .. Len(nodes) : nodes[v].id \in Nat /\ nodes[v].id < nextId
    <3>1. \A v \in 1 .. Len(nodes) : nodes[v] \in Node
      BY <1>4
    <3>2. \A v \in 1 .. Len(nodes) : nodes[v].id \in 1 .. MaxIds
      BY <3>1 DEF Node
    <3>3. \A v \in 1 .. Len(nodes) : nodes[v].id < nextId
      BY DEF GraphInv, IdsApart
    <3> QED BY <3>2, <3>3, SizesAssumption
  <2>5. \A v \in 1 .. Len(nodes) : nodes[v].id < nextId + 1 /\ nodes[v].id # nextId
    BY <2>4, <1>1
  <2>6. \A v \in 1 .. Len(nodes') : nodes'[v].id < nextId'
    BY <2>1, <2>2, <2>3, <2>5, <1>1
  <2>7. \A v, w \in 1 .. Len(nodes') : nodes'[v].id = nodes'[w].id => v = w
    BY <2>1, <2>2, <2>3, <2>5 DEF GraphInv, IdsApart
  <2>8. nextId' \in 1 .. MaxIds + 1
    BY <1>1, SizesAssumption
  <2> QED BY <2>6, <2>7, <2>8 DEF IdsApart
<1> QED BY <1>6, <1>7 DEF GraphInv

LEMMA AssignKeeps ==
  ASSUME GraphInv, NEW v, NEW p, NEW value, assignConstantInputData(v, p, value)
  PROVE  GraphInv'
BY DEF assignConstantInputData, GraphInv

(* The flow that is drawn fits, and the input that it goes to is open.     *)
LEMMA DrawnFits ==
  ASSUME GraphInv, NEW v \in Vertices, NEW w \in Vertices,
         NEW out \in 1 .. Outputs[nodes[v].op], NEW in \in 1 .. Inputs[nodes[w].op],
         ~hasValueDefined(w, in)
  PROVE  LET e == [from |-> v, out |-> out, to |-> w, in |-> in]
         IN  /\ e \in Flow /\ Fits(nodes, e)
             /\ Target(e) \in DOMAIN assigned /\ assigned[Target(e)] = Open
<1> DEFINE e == [from |-> v, out |-> out, to |-> w, in |-> in]
<1>1. /\ nodes \in Seq(Node) /\ DOMAIN nodes = 1 .. Len(nodes)
      /\ flows \in Seq(Flow) /\ DOMAIN flows = 1 .. Len(flows)
  BY DEF GraphInv, Sound
<1>2. v \in 1 .. Len(nodes) /\ w \in 1 .. Len(nodes)
  BY <1>1 DEF Vertices
<1>3. Inputs[nodes[w].op] \in Nat /\ Outputs[nodes[v].op] \in Nat
  <2>1. nodes[v] \in Node /\ nodes[w] \in Node
    BY <1>1, <1>2
  <2>2. nodes[v].op \in Operations /\ nodes[w].op \in Operations
    BY <2>1 DEF Node
  <2> QED BY <2>2, SizesAssumption
<1>4. e \in Flow /\ Fits(nodes, e)
  BY <1>1, <1>2, <1>3 DEF Flow, Fits
<1>5. Target(e) = <<w, in>> /\ <<w, in>> \in PinsOf(nodes)
  BY <1>1, <1>2, PinIs DEF Target
<1>6. <<w, in>> \in DOMAIN assigned
  <2>1. SUFFICES ASSUME <<w, in>> \notin DOMAIN assigned PROVE FALSE
    OBVIOUS
  <2>2. PICK i \in 1 .. Len(flows) : Target(flows[i]) = <<w, in>>
    BY <2>1, <1>5 DEF GraphInv, Sound
  <2> QED BY <2>2, <1>1 DEF hasValueDefined, Target
<1>7. assigned[<<w, in>>] = Open
  BY <1>6 DEF hasValueDefined
<1> QED BY <1>4, <1>5, <1>6, <1>7

LEMMA FlowKeeps ==
  ASSUME GraphInv, NEW v \in Vertices, NEW w \in Vertices,
         NEW out \in 1 .. Outputs[nodes[v].op], NEW in \in 1 .. Inputs[nodes[w].op],
         addFlow([from |-> v, out |-> out, to |-> w, in |-> in])
  PROVE  GraphInv'
<1> DEFINE e == [from |-> v, out |-> out, to |-> w, in |-> in]
<1>1. ~hasValueDefined(w, in)
  BY DEF addFlow
<1>2. e \in Flow /\ Fits(nodes, e) /\ Target(e) \in DOMAIN assigned
  BY <1>1, DrawnFits
<1>3. /\ flows' = Append(flows, e) /\ nodes' = nodes /\ nextId' = nextId
      /\ DOMAIN assigned' = DOMAIN assigned \ {Target(e)}
  BY DEF addFlow, remove, Target
<1> HIDE DEF e
<1>4. Sound(nodes', flows', DOMAIN assigned')
  BY <1>2, <1>3, FlowSound DEF GraphInv
<1> QED BY <1>3, <1>4 DEF GraphInv

LEMMA RemovalSound ==
  ASSUME GraphInv, NEW gone \in SUBSET ToSet(flows)
  PROVE  Sound(nodes, Among(flows, ToSet(flows) \ gone),
               DOMAIN removeOperationFlow(assigned, gone))
<1>1. DOMAIN removeOperationFlow(assigned, gone) = DOMAIN assigned \cup Targets(gone)
  BY InsertDomain DEF removeOperationFlow
<1> QED BY <1>1, RemoveSound DEF GraphInv

LEMMA UnflowKeeps ==
  ASSUME GraphInv, NEW from, NEW to, NEW out, NEW in, deleteFlow(from, to, out, in)
  PROVE  GraphInv'
<1> DEFINE gone == {e \in ToSet(flows) : /\ e.from = from /\ nodes[e.to].op = nodes[to].op
                                        /\ e.out = out /\ e.in = in}
<1>1. /\ flows' = Among(flows, ToSet(flows) \ gone)
      /\ assigned' = removeOperationFlow(assigned, gone)
      /\ nodes' = nodes /\ nextId' = nextId
  BY DEF deleteFlow
<1>2. gone \in SUBSET ToSet(flows)
  OBVIOUS
<1> HIDE DEF gone
<1>3. Sound(nodes', flows', DOMAIN assigned')
  BY <1>1, <1>2, RemovalSound
<1> QED BY <1>1, <1>3 DEF GraphInv

LEMMA DeleteKeeps ==
  ASSUME GraphInv, NEW v \in Vertices, deleteOperation(v)
  PROVE  GraphInv'
<1> DEFINE gone == {e \in ToSet(flows) : v \in {e.from, e.to}}
           left == Among(flows, ToSet(flows) \ gone)
           as == removeOperationFlow(assigned, gone)
<1>1. /\ nodes' = RemoveAt(nodes, v)
      /\ flows' = Moved(left, v)
      /\ assigned' = removeAllInputAssignments(as, v)
      /\ nextId' = nextId
  BY DEF deleteOperation, Moved, Down
<1>2. gone \in SUBSET ToSet(flows)
  OBVIOUS
<1>3. nodes \in Seq(Node) /\ v \in 1 .. Len(nodes) /\ flows \in Seq(Flow)
  BY DEF GraphInv, Sound, Vertices
<1>4. \A i \in 1 .. Len(left) : left[i].from # v /\ left[i].to # v
  <2>1. ToSet(left) = ToSet(flows) \cap (ToSet(flows) \ gone)
    BY <1>3, AmongElements
  <2>2. left \in Seq(Flow)
    BY <1>3, AmongElements
  <2>3. \A i \in 1 .. Len(left) : left[i] \in ToSet(left)
    <3> HIDE DEF left
    <3> QED BY <2>2 DEF ToSet
  <2> HIDE DEF left
  <2> QED BY <2>1, <2>3
<1> HIDE DEF gone
<1>5. Sound(nodes, left, DOMAIN as)
  BY <1>2, RemovalSound
<1> HIDE DEF left, as
<1>6. Sound(nodes', flows', DOMAIN assigned')
  <2>1. \A a \in DOMAIN as : a = <<a[1], a[2]>>
    BY <1>5, PinIsPair DEF Sound
  <2>2. DOMAIN assigned' = Lowered(DOMAIN as, v)
    BY <1>1, <2>1, RenumberDomain
  <2>3. Sound(RemoveAt(nodes, v), Moved(left, v), Lowered(DOMAIN as, v))
    BY <1>3, <1>4, <1>5, RenumberSound
  <2> QED BY <1>1, <2>2, <2>3
<1>7. IdsApart(nodes', nextId')
  <2>1. /\ Len(nodes') = Len(nodes) - 1 /\ Len(nodes) \in Nat
        /\ \A w \in 1 .. Len(nodes) - 1 : nodes'[w] = nodes[Up(v, w)]
    BY <1>1, <1>3, RemoveAtIs
  <2>2. \A w \in 1 .. Len(nodes) - 1 : Up(v, w) \in 1 .. Len(nodes) /\ Down(v, Up(v, w)) = w
    BY <1>3, <2>1, DownUp
  <2> QED BY <1>1, <2>1, <2>2 DEF GraphInv, IdsApart
<1> QED BY <1>6, <1>7 DEF GraphInv

LEMMA GraphStep == GraphInv /\ [Edit]_gvars => GraphInv'
<1> SUFFICES ASSUME GraphInv, [Edit]_gvars PROVE GraphInv'
  OBVIOUS
<1>1. CASE \E o \in Operations : addOperation(o)
  BY <1>1, AddKeeps
<1>2. CASE \E a \in DOMAIN assigned, value \in Values \cup {Open} :
              assignConstantInputData(a[1], a[2], value)
  BY <1>2, AssignKeeps
<1>3. CASE \E v, w \in Vertices : \E out \in 1 .. Outputs[nodes[v].op], in \in 1 .. Inputs[nodes[w].op] :
              addFlow([from |-> v, out |-> out, to |-> w, in |-> in])
  BY <1>3, FlowKeeps
<1>4. CASE \E i \in DOMAIN flows : LET e == flows[i] IN deleteFlow(e.from, e.to, e.out, e.in)
  BY <1>4, UnflowKeeps
<1>5. CASE \E v \in Vertices : deleteOperation(v)
  BY <1>5, DeleteKeeps
<1>6. CASE UNCHANGED gvars
  BY <1>6 DEF gvars, GraphInv
<1> QED BY <1>1, <1>2, <1>3, <1>4, <1>5, <1>6 DEF Edit

LEMMA InvGivesOneSource == GraphInv => EveryInputOnce
<1> SUFFICES ASSUME GraphInv PROVE EveryInputOnce
  OBVIOUS
<1> DEFINE drawn(a) == {i \in DOMAIN flows : <<flows[i].to, flows[i].in>> = a}
<1>1. /\ nodes \in Seq(Node) /\ DOMAIN nodes = 1 .. Len(nodes)
      /\ flows \in Seq(Flow) /\ DOMAIN flows = 1 .. Len(flows)
      /\ InputPins = PinsOf(nodes)
  BY InputPinsAre DEF GraphInv, Sound
<1>2. DOMAIN assigned \subseteq InputPins
  BY <1>1 DEF GraphInv, Sound
<1>3. \A i \in DOMAIN flows : /\ <<flows[i].to, flows[i].in>> \in InputPins
                             /\ flows[i].from \in Vertices
                             /\ flows[i].out \in 1 .. Outputs[nodes[flows[i].from].op]
  <2>1. \A i \in 1 .. Len(flows) : Fits(nodes, flows[i])
    BY DEF GraphInv, Sound
  <2> QED BY <2>1, <1>1, PinIs DEF Fits, Vertices
<1>4. ASSUME NEW a \in InputPins
      PROVE  Cardinality(drawn(a)) = IF a \in DOMAIN assigned THEN 0 ELSE 1
  <2>1. CASE a \in DOMAIN assigned
    <3>1. drawn(a) = {}
      BY <2>1, <1>1 DEF GraphInv, Sound, Target
    <3> QED BY <2>1, <3>1, FS_EmptySet
  <2>2. CASE a \notin DOMAIN assigned
    <3>1. PICK i \in 1 .. Len(flows) : Target(flows[i]) = a
      BY <2>2, <1>1 DEF GraphInv, Sound
    <3>2. drawn(a) = {i}
      BY <3>1, <1>1 DEF GraphInv, Sound, Target
    <3> QED BY <2>2, <3>2, FS_Singleton
  <2> QED BY <2>1, <2>2
<1> QED BY <1>2, <1>3, <1>4 DEF EveryInputOnce

(* However a workflow is edited, every input of every operation keeps      *)
(* exactly one source, a flow or an entry among the assignments, and no    *)
(* flow and no entry is left over: for all sizes of workflows, numbers of  *)
(* inputs and outputs, and any number of edits (Workflow and               *)
(* WorkflowModel::deleteOperation, deleteFlow, addFlow, addOperation).     *)
THEOREM InputsHaveOneSource == GSpec => []EveryInputOnce
<1>1. GInit => GraphInv
  BY GraphInit
<1>2. GraphInv /\ [Edit]_gvars => GraphInv'
  BY GraphStep
<1>3. GraphInv => EveryInputOnce
  BY InvGivesOneSource
<1> QED BY <1>1, <1>2, <1>3, PTL DEF GSpec

-----------------------------------------------------------------------------
(* The workflow that a graph stands for: instances, links between them and *)
(* the values of their inputs, as Workflows has them.                      *)

OpBar(ns) == [id \in {ns[v].id : v \in DOMAIN ns} |->
                 ns[CHOOSE v \in DOMAIN ns : ns[v].id = id].op]
NamedIn(ns, e) == [e EXCEPT !.from = ns[@].id, !.to = ns[@].id]
LinksBar(ns, fs) == {NamedIn(ns, fs[i]) : i \in DOMAIN fs}
NameIn(ns, a) == <<ns[a[1]].id, a[2]>>
ValueBar(ns, as) == [i \in {NameIn(ns, a) : a \in DOMAIN as} |->
                        as[CHOOSE a \in DOMAIN as : NameIn(ns, a) = i]]

Apart(ns) == \A v, w \in 1 .. Len(ns) : ns[v].id = ns[w].id => v = w

LEMMA OpBarIs ==
  ASSUME NEW ns \in Seq(Node), Apart(ns)
  PROVE  /\ DOMAIN OpBar(ns) = {ns[v].id : v \in 1 .. Len(ns)}
         /\ \A v \in 1 .. Len(ns) : OpBar(ns)[ns[v].id] = ns[v].op
         /\ OpBar(ns) = [id \in DOMAIN OpBar(ns) |-> OpBar(ns)[id]]
<1>1. DOMAIN ns = 1 .. Len(ns)
  OBVIOUS
<1>2. ASSUME NEW v \in 1 .. Len(ns)
      PROVE  OpBar(ns)[ns[v].id] = ns[v].op
  <2> DEFINE w == CHOOSE w \in DOMAIN ns : ns[w].id = ns[v].id
  <2>1. w \in 1 .. Len(ns) /\ ns[w].id = ns[v].id
    BY <1>1
  <2>2. w = v
    BY <2>1 DEF Apart
  <2>3. OpBar(ns)[ns[v].id] = ns[w].op
    BY <1>1 DEF OpBar
  <2> QED BY <2>2, <2>3
<1> QED BY <1>1, <1>2 DEF OpBar

LEMMA OpBarEquals ==
  ASSUME NEW ns \in Seq(Node), Apart(ns), NEW f, f = [x \in DOMAIN f |-> f[x]],
         DOMAIN f = {ns[v].id : v \in 1 .. Len(ns)},
         \A v \in 1 .. Len(ns) : f[ns[v].id] = ns[v].op
  PROVE  OpBar(ns) = f
<1>1. ASSUME NEW id \in DOMAIN f PROVE OpBar(ns)[id] = f[id]
  <2>1. PICK v \in 1 .. Len(ns) : id = ns[v].id
    OBVIOUS
  <2> QED BY <2>1, OpBarIs
<1>2. DOMAIN OpBar(ns) = DOMAIN f /\ OpBar(ns) = [id \in DOMAIN f |-> OpBar(ns)[id]]
  BY OpBarIs
<1> QED BY <1>1, <1>2

LEMMA NameInj ==
  ASSUME NEW ns \in Seq(Node), Apart(ns), NEW a \in PinsOf(ns), NEW b \in PinsOf(ns),
         NameIn(ns, a) = NameIn(ns, b)
  PROVE  a = b
<1>1. a[1] \in 1 .. Len(ns) /\ b[1] \in 1 .. Len(ns)
  BY DEF PinsOf
<1>2. ns[a[1]].id = ns[b[1]].id /\ a[2] = b[2]
  BY DEF NameIn
<1>3. a[1] = b[1]
  BY <1>1, <1>2 DEF Apart
<1> QED BY <1>2, <1>3, PinIsPair

LEMMA ValueBarAt ==
  ASSUME NEW ns \in Seq(Node), Apart(ns), NEW as, DOMAIN as \subseteq PinsOf(ns),
         NEW a \in DOMAIN as
  PROVE  ValueBar(ns, as)[NameIn(ns, a)] = as[a]
<1> DEFINE b == CHOOSE b \in DOMAIN as : NameIn(ns, b) = NameIn(ns, a)
<1>1. b \in DOMAIN as /\ NameIn(ns, b) = NameIn(ns, a)
  OBVIOUS
<1> HIDE DEF b
<1>2. b = a
  BY <1>1, NameInj
<1>3. ValueBar(ns, as)[NameIn(ns, a)] = as[b]
  BY DEF ValueBar, b
<1> QED BY <1>2, <1>3

LEMMA ValueBarDomain ==
  ASSUME NEW ns, NEW as
  PROVE  /\ DOMAIN ValueBar(ns, as) = {NameIn(ns, a) : a \in DOMAIN as}
         /\ ValueBar(ns, as) = [i \in DOMAIN ValueBar(ns, as) |-> ValueBar(ns, as)[i]]
<1> DEFINE S == {NameIn(ns, a) : a \in DOMAIN as}
           g(i) == as[CHOOSE a \in DOMAIN as : NameIn(ns, a) = i]
<1>1. ValueBar(ns, as) = [i \in S |-> g(i)]
  BY DEF ValueBar
<1> HIDE DEF S, g
<1>2. DOMAIN ValueBar(ns, as) = S
  BY <1>1
<1>3. ValueBar(ns, as) = [i \in DOMAIN ValueBar(ns, as) |-> ValueBar(ns, as)[i]]
  BY <1>1
<1> QED BY <1>2, <1>3 DEF S

LEMMA ValueBarEquals ==
  ASSUME NEW ns \in Seq(Node), Apart(ns), NEW as, DOMAIN as \subseteq PinsOf(ns),
         NEW f, f = [x \in DOMAIN f |-> f[x]],
         DOMAIN f = {NameIn(ns, a) : a \in DOMAIN as},
         \A a \in DOMAIN as : f[NameIn(ns, a)] = as[a]
  PROVE  ValueBar(ns, as) = f
<1>1. ASSUME NEW i \in DOMAIN f PROVE ValueBar(ns, as)[i] = f[i]
  <2>1. PICK a \in DOMAIN as : i = NameIn(ns, a)
    OBVIOUS
  <2>2. ValueBar(ns, as)[NameIn(ns, a)] = as[a]
    BY ValueBarAt, ZenonT(60)
  <2>3. f[NameIn(ns, a)] = as[a]
    OBVIOUS
  <2> QED BY <2>1, <2>2, <2>3
<1>2. /\ DOMAIN ValueBar(ns, as) = DOMAIN f
      /\ ValueBar(ns, as) = [i \in DOMAIN f |-> ValueBar(ns, as)[i]]
  <2>1. DOMAIN ValueBar(ns, as) = {NameIn(ns, a) : a \in DOMAIN as}
    BY ValueBarDomain
  <2>2. ValueBar(ns, as) = [i \in DOMAIN ValueBar(ns, as) |-> ValueBar(ns, as)[i]]
    BY ValueBarDomain
  <2> QED BY <2>1, <2>2
<1> QED BY <1>1, <1>2

LEMMA NamedIs ==
  ASSUME NEW ns, NEW e \in Flow
  PROVE  /\ NamedIn(ns, e).from = ns[e.from].id /\ NamedIn(ns, e).to = ns[e.to].id
         /\ NamedIn(ns, e).out = e.out /\ NamedIn(ns, e).in = e.in
         /\ NamedIn(ns, e) = [from |-> ns[e.from].id, out |-> e.out,
                              to |-> ns[e.to].id, in |-> e.in]
<1> DEFINE x == ns[e.from].id
           y == ns[e.to].id
<1>1. e = [from |-> e.from, out |-> e.out, to |-> e.to, in |-> e.in]
  BY DEF Flow
<1>2. NamedIn(ns, e) = [e EXCEPT !.from = x, !.to = y]
  BY <1>1 DEF NamedIn
<1> HIDE DEF x, y
<1>3. NamedIn(ns, e) = [from |-> x, out |-> e.out, to |-> y, in |-> e.in]
  BY <1>1, <1>2
<1> QED BY <1>3 DEF x, y

LEMMA NamedInj ==
  ASSUME NEW ns \in Seq(Node), Apart(ns), NEW e \in Flow, NEW d \in Flow,
         Fits(ns, e), Fits(ns, d), NamedIn(ns, e) = NamedIn(ns, d)
  PROVE  e = d
<1>1. e.out = d.out /\ e.in = d.in /\ ns[e.from].id = ns[d.from].id /\ ns[e.to].id = ns[d.to].id
  BY NamedIs
<1>2. e.from = d.from /\ e.to = d.to
  BY <1>1 DEF Apart, Fits
<1> QED BY <1>1, <1>2 DEF Flow

(* The definitions of Workflows in these terms.                            *)
LEMMA WorkflowIs ==
  /\ W!Init <=> /\ OpBar(nodes) = [id \in {} |-> 0] /\ LinksBar(nodes, flows) = {}
                /\ ValueBar(nodes, assigned) = [i \in {} |-> 0]
  /\ UNCHANGED W!vars <=>
        /\ OpBar(nodes') = OpBar(nodes)
        /\ LinksBar(nodes', flows') = LinksBar(nodes, flows)
        /\ ValueBar(nodes', assigned') = ValueBar(nodes, assigned)
  /\ W!Next <=> \/ \E id \in 1 .. MaxIds, o \in Operations : W!Add(id, o)
                \/ \E i \in DOMAIN ValueBar(nodes, assigned), v \in Values \cup {Open} : W!Assign(i, v)
                \/ \E i \in DOMAIN ValueBar(nodes, assigned), id \in DOMAIN OpBar(nodes) :
                      \E out \in 1 .. Outputs[OpBar(nodes)[id]] :
                        W!Connect([from |-> id, out |-> out, to |-> i[1], in |-> i[2]])
                \/ \E link \in LinksBar(nodes, flows) : W!Disconnect(link)
                \/ \E id \in DOMAIN OpBar(nodes) : W!Delete(id)
BY DEF W!Init, W!Next, W!vars, OpBar, LinksBar, ValueBar, NamedIn, NameIn, Named, Vertices

Ops == OpBar(nodes)
Links == LinksBar(nodes, flows)
Vals == ValueBar(nodes, assigned)

LEMMA BarsAre ==
  /\ Ops = [id \in {nodes[v].id : v \in Vertices} |->
               nodes[CHOOSE v \in Vertices : nodes[v].id = id].op]
  /\ Links = {Named(flows[i]) : i \in DOMAIN flows}
  /\ Vals = [i \in {<<nodes[a[1]].id, a[2]>> : a \in DOMAIN assigned} |->
               assigned[CHOOSE a \in DOMAIN assigned : <<nodes[a[1]].id, a[2]>> = i]]
BY DEF Ops, Links, Vals, OpBar, LinksBar, ValueBar, NamedIn, NameIn, Named, Vertices

LEMMA BarsAreNext ==
  /\ Ops' = [id \in {nodes[v].id : v \in Vertices} |->
               nodes[CHOOSE v \in Vertices : nodes[v].id = id].op]'
  /\ Links' = {Named(flows[i]) : i \in DOMAIN flows}'
  /\ Vals' = [i \in {<<nodes[a[1]].id, a[2]>> : a \in DOMAIN assigned} |->
               assigned[CHOOSE a \in DOMAIN assigned : <<nodes[a[1]].id, a[2]>> = i]]'
BY DEF Ops, Links, Vals, OpBar, LinksBar, ValueBar, NamedIn, NameIn, Named, Vertices

LEMMA AddIs ==
  ASSUME NEW id, NEW o,
         id \notin DOMAIN Ops, Ops' = W!With(Ops, {id}, o), Links' = Links,
         Vals' = W!With(Vals, W!InputsOf(o, id), Open)
  PROVE  W!Add(id, o)
BY BarsAre, BarsAreNext DEF W!Add

LEMMA AssignIs ==
  ASSUME NEW i, NEW v,
         i \in DOMAIN Vals, Vals' = [Vals EXCEPT ![i] = v], Ops' = Ops, Links' = Links
  PROVE  W!Assign(i, v)
BY BarsAre, BarsAreNext DEF W!Assign

LEMMA ConnectIs ==
  ASSUME NEW link,
         {link.from, link.to} \subseteq DOMAIN Ops, link.from # link.to,
         <<link.to, link.in>> \in DOMAIN Vals, Vals[<<link.to, link.in>>] = Open,
         Links' = Links \cup {link}, Ops' = Ops,
         Vals' = W!Without(Vals, {<<link.to, link.in>>})
  PROVE  W!Connect(link)
BY BarsAre, BarsAreNext DEF W!Connect

LEMMA DisconnectIs ==
  ASSUME NEW link \in Links,
         NEW es \in SUBSET {l \in Links : /\ [l EXCEPT !.to = link.to] = link
                                          /\ Ops[l.to] = Ops[link.to]},
         es # {}, Links' = Links \ es, Ops' = Ops,
         Vals' = W!With(Vals, W!Targets(es), Open)
  PROVE  W!Disconnect(link)
<1>1. es \in SUBSET W!Alike(link)
  BY BarsAre DEF W!Alike
<1> QED BY <1>1, BarsAre, BarsAreNext DEF W!Disconnect

LEMMA DeleteIs ==
  ASSUME NEW id \in DOMAIN Ops,
         Ops' = W!Without(Ops, {id}),
         Links' = {l \in Links : id \notin {l.from, l.to}},
         Vals' = W!Without(W!With(Vals, W!Targets({l \in Links : l.from = id}), Open),
                           W!InputsOf(Ops[id], id))
  PROVE  W!Delete(id)
BY BarsAre, BarsAreNext DEF W!Delete

LEMMA PinOfVertex ==
  ASSUME NEW ns \in Seq(Node), NEW a \in PinsOf(ns)
  PROVE  a[1] \in 1 .. Len(ns) /\ a[2] \in 1 .. Inputs[ns[a[1]].op] /\ a = <<a[1], a[2]>>
BY DEF PinsOf

LEMMA LinksBarIs ==
  ASSUME NEW ns, NEW fs \in Seq(Flow)
  PROVE  LinksBar(ns, fs) = {NamedIn(ns, e) : e \in ToSet(fs)}
BY DEF LinksBar, ToSet

LEMMA AppendElements ==
  ASSUME NEW E, NEW s \in Seq(E), NEW e \in E
  PROVE  Append(s, e) \in Seq(E) /\ ToSet(Append(s, e)) = ToSet(s) \cup {e}
<1> DEFINE t == Append(s, e)
<1>1. /\ t \in Seq(E) /\ Len(t) = Len(s) + 1 /\ Len(s) \in Nat /\ t[Len(s) + 1] = e
      /\ \A i \in 1 .. Len(s) : t[i] = s[i]
  BY AppendProperties
<1>2. DOMAIN s = 1 .. Len(s) /\ DOMAIN t = 1 .. Len(s) + 1
  BY <1>1
<1>3. \A i : i \in 1 .. Len(s) + 1 <=> i \in 1 .. Len(s) \/ i = Len(s) + 1
  BY <1>1
<1> HIDE DEF t
<1>4. ToSet(t) = ToSet(s) \cup {e}
  BY <1>1, <1>2, <1>3 DEF ToSet
<1> QED BY <1>1, <1>4 DEF t

(* Flows that go: their links go, and their targets are open again.        *)
LEMMA BarRemoval ==
  ASSUME NEW ns, NEW fs, NEW as, Sound(ns, fs, DOMAIN as), Apart(ns),
         NEW gone \in SUBSET ToSet(fs)
  PROVE  /\ LinksBar(ns, Among(fs, ToSet(fs) \ gone)) = LinksBar(ns, fs) \ {NamedIn(ns, e) : e \in gone}
         /\ ValueBar(ns, removeOperationFlow(as, gone)) =
                W!With(ValueBar(ns, as), W!Targets({NamedIn(ns, e) : e \in gone}), Open)
<1> DEFINE gs == Among(fs, ToSet(fs) \ gone)
           bs == removeOperationFlow(as, gone)
           named == {NamedIn(ns, e) : e \in gone}
           freed == W!Targets(named)
           f == W!With(ValueBar(ns, as), freed, Open)
<1>1. ns \in Seq(Node) /\ fs \in Seq(Flow) /\ DOMAIN as \subseteq PinsOf(ns)
  BY DEF Sound
<1>2. \A e \in ToSet(fs) : e \in Flow /\ Fits(ns, e)
  BY <1>1 DEF Sound, ToSet
<1>3. gs \in Seq(Flow) /\ ToSet(gs) = ToSet(fs) \ gone
  BY <1>1, AmongElements
<1> HIDE DEF gs
<1>4. LinksBar(ns, gs) = LinksBar(ns, fs) \ named
  <2>1. LinksBar(ns, gs) = {NamedIn(ns, e) : e \in ToSet(fs) \ gone}
    BY <1>3, LinksBarIs
  <2>2. LinksBar(ns, fs) = {NamedIn(ns, e) : e \in ToSet(fs)}
    BY <1>1, LinksBarIs
  <2>3. \A d \in ToSet(fs), e \in ToSet(fs) : NamedIn(ns, d) = NamedIn(ns, e) => d = e
    BY <1>1, <1>2, NamedInj
  <2> QED BY <2>1, <2>2, <2>3
<1>5. DOMAIN bs = DOMAIN as \cup Targets(gone)
  BY InsertDomain DEF removeOperationFlow
<1>6. DOMAIN bs \subseteq PinsOf(ns)
  <2>1. Sound(ns, gs, DOMAIN as \cup Targets(gone))
    BY RemoveSound DEF gs
  <2> QED BY <2>1, <1>5 DEF Sound
<1>7. \A a \in DOMAIN bs : bs[a] = IF a \in Targets(gone) THEN Open ELSE as[a]
  BY <1>5 DEF removeOperationFlow, insert
<1> HIDE DEF bs
<1>8. ASSUME NEW e \in gone
      PROVE  <<NamedIn(ns, e).to, NamedIn(ns, e).in>> = NameIn(ns, Target(e))
  BY <1>2, NamedIs DEF NameIn, Target
<1>9. freed = {NameIn(ns, a) : a \in Targets(gone)}
  <2>1. \A x : x \in freed <=> \E e \in gone : x = NameIn(ns, Target(e))
    BY <1>8 DEF W!Targets
  <2>2. \A a : a \in Targets(gone) <=> \E e \in gone : a = Target(e)
    BY DEF Targets, Target
  <2> HIDE DEF freed
  <2> QED BY <2>1, <2>2
<1> HIDE DEF named, freed
<1>10. /\ DOMAIN f = DOMAIN ValueBar(ns, as) \cup freed
       /\ f = [x \in DOMAIN f |-> f[x]]
       /\ \A x \in DOMAIN f : f[x] = IF x \in freed THEN Open ELSE ValueBar(ns, as)[x]
  BY DEF W!With
<1> HIDE DEF f
<1>11. DOMAIN f = {NameIn(ns, a) : a \in DOMAIN bs}
  <2>1. DOMAIN ValueBar(ns, as) = {NameIn(ns, a) : a \in DOMAIN as}
    BY ValueBarDomain
  <2> QED BY <2>1, <1>5, <1>9, <1>10
<1>12. ASSUME NEW a \in DOMAIN bs PROVE f[NameIn(ns, a)] = bs[a]
  <2>1. NameIn(ns, a) \in DOMAIN f
    BY <1>11
  <2>2. CASE a \in Targets(gone)
    <3>1. NameIn(ns, a) \in freed
      BY <2>2, <1>9
    <3> QED BY <2>1, <2>2, <3>1, <1>7, <1>10
  <2>3. CASE a \notin Targets(gone)
    <3>1. NameIn(ns, a) \notin freed
      <4>1. SUFFICES ASSUME NEW b \in Targets(gone), NameIn(ns, a) = NameIn(ns, b) PROVE FALSE
        BY <1>9
      <4>2. a \in PinsOf(ns) /\ b \in PinsOf(ns)
        BY <1>5, <1>6
      <4>3. a = b
        BY <4>1, <4>2, <1>1, NameInj
      <4> QED BY <4>3, <2>3
    <3>2. a \in DOMAIN as
      BY <2>3, <1>5
    <3>3. ValueBar(ns, as)[NameIn(ns, a)] = as[a]
      BY <3>2, <1>1, ValueBarAt
    <3> QED BY <2>1, <2>3, <3>1, <3>3, <1>7, <1>10
  <2> QED BY <2>2, <2>3
<1>13. ValueBar(ns, bs) = f
  <2>1. f = [x \in DOMAIN f |-> f[x]]
    BY <1>10
  <2>2. \A a \in DOMAIN bs : f[NameIn(ns, a)] = bs[a]
    BY <1>12
  <2> QED BY <1>1, <1>6, <1>11, <2>1, <2>2, ValueBarEquals
<1> QED BY <1>4, <1>13 DEF gs, bs, f, freed, named

(* The renumbering changes nothing but that an instance goes.              *)
KeysUpTo(as, n) == \A b \in DOMAIN as : b = <<b[1], b[2]>> /\ b[1] \in 1 .. n

LEMMA RenumberValue ==
  ASSUME NEW n \in Nat, NEW as, NEW v \in 1 .. n, NEW a \in DOMAIN as,
         KeysUpTo(as, n), a[1] # v
  PROVE  removeAllInputAssignments(as, v)[KeyAfter(v, a)] = as[a]
<1> DEFINE k == KeyAfter(v, a)
           up(b) == IF b[1] >= v THEN <<b[1] + 1, b[2]>> ELSE b
<1>1. k \in DOMAIN removeAllInputAssignments(as, v)
  <2>1. DOMAIN removeAllInputAssignments(as, v) = Lowered(DOMAIN as, v)
    BY RenumberDomain DEF KeysUpTo
  <2> QED BY <2>1 DEF Lowered
<1>2. \A b \in DOMAIN removeAllInputAssignments(as, v) :
          removeAllInputAssignments(as, v)[b] = as[up(b)]
  BY DEF removeAllInputAssignments
<1>3. up(k) = <<Up(v, Down(v, a[1])), a[2]>>
  BY DEF Up, KeyAfter
<1>4. Up(v, Down(v, a[1])) = a[1]
  BY DownUp DEF KeysUpTo
<1>5. a = <<a[1], a[2]>>
  BY DEF KeysUpTo
<1> HIDE DEF k, up
<1>6. up(k) = a
  BY <1>3, <1>4, <1>5
<1>7. removeAllInputAssignments(as, v)[k] = as[a]
  BY <1>1, <1>2, <1>6
<1> QED BY <1>7 DEF k

LEMMA RenumberSoundValue ==
  ASSUME NEW ns \in Seq(Node), NEW as, DOMAIN as \subseteq PinsOf(ns),
         NEW v \in 1 .. Len(ns), NEW a \in DOMAIN as, a[1] # v
  PROVE  removeAllInputAssignments(as, v)[KeyAfter(v, a)] = as[a]
<1>1. \A b \in DOMAIN as : b = <<b[1], b[2]>> /\ b[1] \in 1 .. Len(ns)
  BY PinOfVertex
<1>2. KeysUpTo(as, Len(ns)) /\ Len(ns) \in Nat
  BY <1>1, LenProperties DEF KeysUpTo
<1> QED BY <1>2, RenumberValue

Untouched(fs, v) == \A i \in 1 .. Len(fs) : fs[i].from # v /\ fs[i].to # v

ValuesWithout(ns, as, v) == W!Without(ValueBar(ns, as), W!InputsOf(ns[v].op, ns[v].id))

LEMMA BarRenumber ==
  ASSUME NEW ns, NEW fs, NEW as, Sound(ns, fs, DOMAIN as), Apart(ns),
         NEW v \in 1 .. Len(ns),
         Untouched(fs, v)
  PROVE  /\ OpBar(RemoveAt(ns, v)) = W!Without(OpBar(ns), {ns[v].id})
         /\ LinksBar(RemoveAt(ns, v), Moved(fs, v)) = LinksBar(ns, fs)
         /\ ValueBar(RemoveAt(ns, v), removeAllInputAssignments(as, v)) =
                ValuesWithout(ns, as, v)
<1> DEFINE ms == RemoveAt(ns, v)
           gs == Moved(fs, v)
           bs == removeAllInputAssignments(as, v)
           n == Len(ns)
<1>1. ns \in Seq(Node) /\ fs \in Seq(Flow) /\ n \in Nat /\ DOMAIN as \subseteq PinsOf(ns)
  <2>1. ns \in Seq(Node) /\ fs \in Seq(Flow) /\ DOMAIN as \subseteq PinsOf(ns)
    BY DEF Sound
  <2>2. Len(ns) \in Nat
    BY <2>1, LenProperties
  <2> QED BY <2>1, <2>2
<1>2. ms \in Seq(Node) /\ Len(ms) = n - 1 /\ \A w \in 1 .. n - 1 : ms[w] = ns[Up(v, w)]
  BY <1>1, RemoveAtIs
<1>3. \A a \in DOMAIN as : a = <<a[1], a[2]>> /\ a[1] \in 1 .. n
  BY <1>1, PinOfVertex
<1>4. DOMAIN bs = Lowered(DOMAIN as, v)
  BY <1>3, RenumberDomain
<1>5. DOMAIN bs \subseteq PinsOf(ms)
  <2>1. Sound(ms, gs, Lowered(DOMAIN as, v))
    BY RenumberSound DEF Untouched
  <2> HIDE DEF ms, gs, bs
  <2> QED BY <1>4, <2>1 DEF Sound
<1>6. ASSUME NEW a \in DOMAIN as, a[1] # v PROVE bs[KeyAfter(v, a)] = as[a]
  BY <1>1, <1>6, RenumberSoundValue, ZenonT(60)
<1> HIDE DEF ms, bs
<1>7. ASSUME NEW w \in 1 .. n, w # v
      PROVE  Down(v, w) \in 1 .. n - 1 /\ Up(v, Down(v, w)) = w /\ ms[Down(v, w)] = ns[w]
  <2>1. Down(v, w) \in 1 .. n - 1 /\ Up(v, Down(v, w)) = w
    BY <1>1, <1>7, DownUp
  <2> QED BY <2>1, <1>2
<1>8. ASSUME NEW w \in 1 .. n - 1
      PROVE  Up(v, w) \in 1 .. n /\ Up(v, w) # v /\ Down(v, Up(v, w)) = w
  BY <1>1, DownUp
<1>9. Apart(ms)
  <2>1. ASSUME NEW w \in 1 .. n - 1, NEW x \in 1 .. n - 1, ms[w].id = ms[x].id
        PROVE  w = x
    <3>1. Up(v, w) = Up(v, x)
      BY <2>1, <1>2, <1>8, SMTT(30) DEF Apart
    <3>2. Down(v, Up(v, w)) = w /\ Down(v, Up(v, x)) = x
      BY <1>8
    <3> QED BY <3>1, <3>2
  <2> QED BY <2>1, <1>2 DEF Apart
<1>10. OpBar(ms) = W!Without(OpBar(ns), {ns[v].id})
  <2> DEFINE f == W!Without(OpBar(ns), {ns[v].id})
  <2>1. /\ DOMAIN f = {ns[w].id : w \in 1 .. n} \ {ns[v].id}
        /\ f = [x \in DOMAIN f |-> f[x]]
        /\ \A x \in DOMAIN f : f[x] = OpBar(ns)[x]
    BY <1>1, OpBarIs DEF W!Without
  <2> HIDE DEF f
  <2>2. DOMAIN f = {ms[w].id : w \in 1 .. n - 1}
    <3>1. ASSUME NEW x \in DOMAIN f PROVE x \in {ms[w].id : w \in 1 .. n - 1}
      <4>1. PICK w \in 1 .. n : x = ns[w].id /\ w # v
        BY <2>1
      <4> QED BY <4>1, <1>7
    <3>2. ASSUME NEW w \in 1 .. n - 1 PROVE ms[w].id \in DOMAIN f
      <4>1. ms[w] = ns[Up(v, w)] /\ Up(v, w) \in 1 .. n /\ Up(v, w) # v
        BY <1>2, <1>8
      <4>2. ns[Up(v, w)].id # ns[v].id
        BY <4>1 DEF Apart
      <4> QED BY <4>1, <4>2, <2>1
    <3> QED BY <3>1, <3>2
  <2>3. ASSUME NEW w \in 1 .. n - 1 PROVE f[ms[w].id] = ms[w].op
    <3>1. ms[w] = ns[Up(v, w)] /\ Up(v, w) \in 1 .. n
      BY <1>2, <1>8
    <3>2. OpBar(ns)[ns[Up(v, w)].id] = ns[Up(v, w)].op
      BY <3>1, <1>1, OpBarIs
    <3>3. ms[w].id \in DOMAIN f
      BY <2>2
    <3> QED BY <3>1, <3>2, <3>3, <2>1
  <2>4. f = [x \in DOMAIN f |-> f[x]]
    BY <2>1
  <2>5. OpBar(ms) = f
    BY <1>2, <1>9, <2>2, <2>3, <2>4, OpBarEquals
  <2> QED BY <2>5 DEF f
<1>11. LinksBar(ms, gs) = LinksBar(ns, fs)
  <2>1. DOMAIN fs = 1 .. Len(fs) /\ DOMAIN gs = 1 .. Len(fs)
    BY <1>1 DEF Moved
  <2>2. ASSUME NEW i \in 1 .. Len(fs)
        PROVE  NamedIn(ms, gs[i]) = NamedIn(ns, fs[i])
    <3>1. fs[i] \in Flow /\ Fits(ns, fs[i]) /\ fs[i].from # v /\ fs[i].to # v
      BY <1>1 DEF Sound, Untouched
    <3>2. fs[i].from \in 1 .. n /\ fs[i].to \in 1 .. n
      BY <3>1 DEF Fits
    <3>3. /\ ms[Down(v, fs[i].from)] = ns[fs[i].from] /\ ms[Down(v, fs[i].to)] = ns[fs[i].to]
          /\ Down(v, fs[i].from) \in Nat /\ Down(v, fs[i].to) \in Nat
      <4>1. Down(v, fs[i].from) \in 1 .. n - 1 /\ Down(v, fs[i].to) \in 1 .. n - 1
        BY <3>1, <3>2, <1>7
      <4>2. ms[Down(v, fs[i].from)] = ns[fs[i].from] /\ ms[Down(v, fs[i].to)] = ns[fs[i].to]
        BY <3>1, <3>2, <1>7
      <4> QED BY <4>1, <4>2, <1>1
    <3>4. gs[i] = [fs[i] EXCEPT !.from = Down(v, @), !.to = Down(v, @)]
      BY <2>1 DEF Moved
    <3>5. /\ gs[i].from = Down(v, fs[i].from) /\ gs[i].to = Down(v, fs[i].to)
          /\ gs[i].in = fs[i].in /\ gs[i].out = fs[i].out /\ gs[i] \in Flow
      BY <3>1, <3>3, <3>4 DEF Flow
    <3>6. NamedIn(ms, gs[i]) = [from |-> ns[fs[i].from].id, out |-> fs[i].out,
                                to |-> ns[fs[i].to].id, in |-> fs[i].in]
      BY <3>3, <3>5, NamedIs
    <3> QED BY <3>1, <3>6, NamedIs
  <2> HIDE DEF gs
  <2> QED BY <2>1, <2>2 DEF LinksBar
<1> HIDE DEF gs
<1>12. ValueBar(ms, bs) = W!Without(ValueBar(ns, as), W!InputsOf(ns[v].op, ns[v].id))
  <2> DEFINE own == W!InputsOf(ns[v].op, ns[v].id)
             f == W!Without(ValueBar(ns, as), own)
  <2>1. DOMAIN ValueBar(ns, as) = {NameIn(ns, a) : a \in DOMAIN as}
    BY ValueBarDomain
  <2>2. ASSUME NEW a \in DOMAIN as PROVE NameIn(ns, a) \in own <=> a[1] = v
    <3>1. a[1] \in 1 .. n /\ a[2] \in 1 .. Inputs[ns[a[1]].op]
      BY <1>1, PinOfVertex
    <3>2. ns[a[1]].id = ns[v].id <=> a[1] = v
      BY <3>1 DEF Apart
    <3> QED BY <3>1, <3>2 DEF W!InputsOf, NameIn
  <2> HIDE DEF own
  <2>3. /\ DOMAIN f = {NameIn(ns, a) : a \in DOMAIN as} \ own
        /\ f = [x \in DOMAIN f |-> f[x]]
        /\ \A x \in DOMAIN f : f[x] = ValueBar(ns, as)[x]
    BY <2>1 DEF W!Without
  <2> HIDE DEF f
  <2>4. ASSUME NEW a \in DOMAIN as, a[1] # v
        PROVE  /\ KeyAfter(v, a) \in DOMAIN bs
               /\ NameIn(ms, KeyAfter(v, a)) = NameIn(ns, a)
               /\ NameIn(ns, a) \in DOMAIN f
               /\ f[NameIn(ns, a)] = as[a]
    <3>1. a[1] \in 1 .. n
      BY <1>3
    <3>2. KeyAfter(v, a) \in DOMAIN bs
      BY <2>4, <1>4 DEF Lowered
    <3>3. NameIn(ms, KeyAfter(v, a)) = NameIn(ns, a)
      BY <3>1, <2>4, <1>7 DEF NameIn, KeyAfter
    <3>4. NameIn(ns, a) \in DOMAIN f
      BY <2>2, <2>3, <2>4
    <3>5. ValueBar(ns, as)[NameIn(ns, a)] = as[a]
      BY <1>1, ValueBarAt
    <3> QED BY <3>2, <3>3, <3>4, <3>5, <2>3
  <2>5. ASSUME NEW b \in DOMAIN bs
        PROVE  \E a \in DOMAIN as : a[1] # v /\ b = KeyAfter(v, a)
    BY <1>4 DEF Lowered
  <2>6. DOMAIN f = {NameIn(ms, b) : b \in DOMAIN bs}
    <3>1. ASSUME NEW x \in DOMAIN f PROVE x \in {NameIn(ms, b) : b \in DOMAIN bs}
      <4>1. PICK a \in DOMAIN as : x = NameIn(ns, a) /\ a[1] # v
        BY <2>2, <2>3
      <4>2. /\ KeyAfter(v, a) \in DOMAIN bs
            /\ NameIn(ms, KeyAfter(v, a)) = x
        BY <4>1, <2>4
      <4> QED BY <4>2
    <3>2. ASSUME NEW b \in DOMAIN bs PROVE NameIn(ms, b) \in DOMAIN f
      <4>1. PICK a \in DOMAIN as : a[1] # v /\ b = KeyAfter(v, a)
        BY <2>5
      <4> QED BY <4>1, <2>4
    <3> QED BY <3>1, <3>2
  <2>7. ASSUME NEW b \in DOMAIN bs PROVE f[NameIn(ms, b)] = bs[b]
    <3>1. PICK a \in DOMAIN as : a[1] # v /\ b = KeyAfter(v, a)
      BY <2>5
    <3>2. NameIn(ms, b) = NameIn(ns, a) /\ f[NameIn(ns, a)] = as[a]
      BY <3>1, <2>4
    <3>3. bs[b] = as[a]
      BY <3>1, <1>6
    <3> QED BY <3>2, <3>3
  <2>8. f = [x \in DOMAIN f |-> f[x]]
    BY <2>3
  <2>9. ValueBar(ms, bs) = f
    BY <1>2, <1>5, <1>9, <2>6, <2>7, <2>8, ValueBarEquals
  <2> QED BY <2>9 DEF f, own
<1>13. ValueBar(ms, bs) = ValuesWithout(ns, as, v)
  BY <1>12 DEF ValuesWithout
<1> QED BY <1>10, <1>11, <1>13 DEF ms, gs, bs

LEMMA WithoutEither ==
  ASSUME NEW f, NEW S, NEW T, NEW R, NEW x, S \ R = T \ R
  PROVE  W!Without(W!With(f, S, x), R) = W!Without(W!With(f, T, x), R)
BY DEF W!Without, W!With

LEMMA InvGives ==
  ASSUME GraphInv
  PROVE  /\ nodes \in Seq(Node) /\ flows \in Seq(Flow) /\ Apart(nodes)
         /\ DOMAIN nodes = 1 .. Len(nodes) /\ DOMAIN flows = 1 .. Len(flows)
         /\ DOMAIN assigned \subseteq PinsOf(nodes)
         /\ nextId \in 1 .. MaxIds + 1
         /\ \A v \in 1 .. Len(nodes) : nodes[v].id < nextId
         /\ \A e \in ToSet(flows) : e \in Flow /\ Fits(nodes, e)
<1>1. nodes \in Seq(Node) /\ flows \in Seq(Flow)
  BY DEF GraphInv, Sound
<1>2. \A e \in ToSet(flows) : e \in Flow /\ Fits(nodes, e)
  BY <1>1 DEF GraphInv, Sound, ToSet
<1> QED BY <1>1, <1>2 DEF GraphInv, Sound, IdsApart, Apart

(* Each edit is a step of Workflows.                                       *)

LEMMA AddMaps ==
  ASSUME GraphInv, NEW o \in Operations, addOperation(o)
  PROVE  \E id \in 1 .. MaxIds : W!Add(id, o)
<1> DEFINE n == [op |-> o, id |-> nextId]
           new == {<<Len(nodes) + 1, p>> : p \in 1 .. Inputs[o]}
           ms == Append(nodes, n)
           bs == insert(assigned, new, Open)
           ops == OpBar(nodes)
           vals == ValueBar(nodes, assigned)
           f == W!With(ops, {nextId}, o)
           g == W!With(vals, W!InputsOf(o, nextId), Open)
<1>1. /\ nodes \in Seq(Node) /\ flows \in Seq(Flow) /\ Apart(nodes)
      /\ DOMAIN assigned \subseteq PinsOf(nodes)
      /\ \A v \in 1 .. Len(nodes) : nodes[v].id < nextId
      /\ nextId \in 1 .. MaxIds + 1
      /\ DOMAIN flows = 1 .. Len(flows)
  BY InvGives
<1>2. nextId \in 1 .. MaxIds
  <2>1. nextId <= MaxIds
    BY DEF addOperation
  <2> QED BY <1>1, <2>1, SizesAssumption
<1>3. nodes' = ms /\ assigned' = bs /\ flows' = flows
  BY DEF addOperation, withOpen
<1>4. /\ ms \in Seq(Node) /\ Len(ms) = Len(nodes) + 1 /\ Len(nodes) \in Nat
      /\ ms[Len(nodes) + 1].op = o /\ ms[Len(nodes) + 1].id = nextId
      /\ \A v \in 1 .. Len(nodes) : ms[v] = nodes[v]
  <2>1. n \in Node
    BY <1>2 DEF Node
  <2>2. n.op = o /\ n.id = nextId
    OBVIOUS
  <2> HIDE DEF n
  <2> QED BY <1>1, <2>1, <2>2
<1>5. GraphInv'
  BY AddKeeps
<1>6. Apart(ms) /\ DOMAIN bs \subseteq PinsOf(ms)
  BY <1>3, <1>5 DEF GraphInv, Sound, IdsApart, Apart
<1>7. DOMAIN bs = DOMAIN assigned \cup new
  BY InsertDomain
<1>8. \A a \in DOMAIN bs : bs[a] = IF a \in new THEN Open ELSE assigned[a]
  BY <1>7 DEF insert
<1>9. \A v \in 1 .. Len(nodes) + 1 : v \in 1 .. Len(nodes) \/ v = Len(nodes) + 1
  BY <1>4
<1>10. \A v \in 1 .. Len(nodes) : nodes[v].id # nextId
  <2>1. \A v \in 1 .. Len(nodes) : nodes[v].id \in 1 .. MaxIds
    <3>1. \A v \in 1 .. Len(nodes) : nodes[v] \in Node
      BY <1>1
    <3> QED BY <3>1 DEF Node
  <2> QED BY <1>1, <2>1, SizesAssumption
<1> HIDE DEF n, ms, bs
<1>11. nextId \notin DOMAIN ops
  <2>1. DOMAIN OpBar(nodes) = {nodes[v].id : v \in 1 .. Len(nodes)}
    BY <1>1, OpBarIs
  <2> QED BY <2>1, <1>10
<1>12. OpBar(ms) = f
  <2>1. /\ DOMAIN f = {nodes[v].id : v \in 1 .. Len(nodes)} \cup {nextId}
        /\ f = [x \in DOMAIN f |-> f[x]]
        /\ \A x \in DOMAIN f : f[x] = IF x = nextId THEN o ELSE ops[x]
    BY <1>1, OpBarIs DEF W!With
  <2> HIDE DEF f, ops
  <2>2. DOMAIN f = {ms[v].id : v \in 1 .. Len(ms)}
    BY <2>1, <1>4, <1>9
  <2>3. ASSUME NEW v \in 1 .. Len(ms) PROVE f[ms[v].id] = ms[v].op
    <3>1. ms[v].id \in DOMAIN f
      BY <2>2
    <3>2. CASE v = Len(nodes) + 1
      BY <3>1, <3>2, <2>1, <1>4
    <3>3. CASE v \in 1 .. Len(nodes)
      <4>1. ops[nodes[v].id] = nodes[v].op
        BY <3>3, <1>1, OpBarIs DEF ops
      <4> QED BY <3>1, <3>3, <4>1, <2>1, <1>4, <1>10
    <3> QED BY <3>2, <3>3, <1>4, <1>9
  <2>4. f = [x \in DOMAIN f |-> f[x]]
    BY <2>1
  <2> QED BY <1>4, <1>6, <2>2, <2>3, <2>4, OpBarEquals
<1>13. LinksBar(ms, flows) = LinksBar(nodes, flows)
  <2>1. ASSUME NEW i \in 1 .. Len(flows) PROVE NamedIn(ms, flows[i]) = NamedIn(nodes, flows[i])
    <3>1. flows[i] \in Flow /\ Fits(nodes, flows[i])
      BY <1>1 DEF GraphInv, Sound
    <3>2. ms[flows[i].from] = nodes[flows[i].from] /\ ms[flows[i].to] = nodes[flows[i].to]
      BY <3>1, <1>4 DEF Fits
    <3> QED BY <3>1, <3>2, NamedIs
  <2> QED BY <1>1, <2>1 DEF LinksBar
<1>14. ValueBar(ms, bs) = g
  <2> DEFINE own == W!InputsOf(o, nextId)
  <2>1. DOMAIN vals = {NameIn(nodes, a) : a \in DOMAIN assigned}
    BY ValueBarDomain
  <2>2. /\ DOMAIN g = DOMAIN vals \cup own
        /\ g = [x \in DOMAIN g |-> g[x]]
        /\ \A x \in DOMAIN g : g[x] = IF x \in own THEN Open ELSE vals[x]
    BY DEF W!With
  <2>3. ASSUME NEW a \in new PROVE NameIn(ms, a) \in own
    BY <1>4 DEF NameIn, W!InputsOf
  <2>4. ASSUME NEW x \in own PROVE \E a \in new : x = NameIn(ms, a)
    <3>1. PICK p \in 1 .. Inputs[o] : x = <<nextId, p>>
      BY DEF W!InputsOf
    <3>2. <<Len(nodes) + 1, p>> \in new
      OBVIOUS
    <3>3. NameIn(ms, <<Len(nodes) + 1, p>>) = x
      BY <3>1, <1>4 DEF NameIn
    <3> QED BY <3>2, <3>3
  <2>5. ASSUME NEW a \in DOMAIN assigned
        PROVE  /\ NameIn(ms, a) = NameIn(nodes, a) /\ NameIn(nodes, a) \notin own
               /\ a \notin new
    <3>1. a[1] \in 1 .. Len(nodes)
      BY <1>1, PinOfVertex
    <3>2. NameIn(ms, a) = NameIn(nodes, a)
      BY <3>1, <1>4 DEF NameIn
    <3>3. NameIn(nodes, a) \notin own
      BY <3>1, <1>10 DEF NameIn, W!InputsOf
    <3>4. a \notin new
      BY <3>1, <1>4
    <3> QED BY <3>2, <3>3, <3>4
  <2> HIDE DEF own, new, g, vals
  <2>6. DOMAIN g = {NameIn(ms, a) : a \in DOMAIN bs}
    <3>1. ASSUME NEW x \in DOMAIN g PROVE x \in {NameIn(ms, a) : a \in DOMAIN bs}
      <4>1. x \in own \/ \E a \in DOMAIN assigned : x = NameIn(nodes, a)
        BY <2>1, <2>2
      <4> QED BY <4>1, <2>4, <2>5, <1>7
    <3>2. ASSUME NEW a \in DOMAIN bs PROVE NameIn(ms, a) \in DOMAIN g
      BY <2>1, <2>2, <2>3, <2>5, <1>7
    <3> QED BY <3>1, <3>2
  <2>7. ASSUME NEW a \in DOMAIN bs PROVE g[NameIn(ms, a)] = bs[a]
    <3>1. NameIn(ms, a) \in DOMAIN g
      BY <2>6
    <3>2. CASE a \in new
      BY <3>1, <3>2, <2>2, <2>3, <1>8
    <3>3. CASE a \notin new
      <4>1. a \in DOMAIN assigned
        BY <3>3, <1>7
      <4>2. vals[NameIn(nodes, a)] = assigned[a]
        BY <4>1, <1>1, ValueBarAt DEF vals
      <4> QED BY <3>1, <3>3, <4>1, <4>2, <2>2, <2>5, <1>8
    <3> QED BY <3>2, <3>3
  <2>8. g = [x \in DOMAIN g |-> g[x]]
    BY <2>2
  <2> QED BY <1>4, <1>6, <2>6, <2>7, <2>8, ValueBarEquals
<1> HIDE DEF f, g, ops, vals
<1>15. PICK id \in 1 .. MaxIds : id = nextId
  BY <1>2
<1>16. W!Add(id, o)
  <2>1. Ops = ops /\ Vals = vals /\ Ops' = f /\ Vals' = g /\ Links' = Links
    BY <1>3, <1>12, <1>13, <1>14 DEF ops, vals, Ops, Links, Vals
  <2>2. id \notin DOMAIN Ops
    BY <1>11, <1>15, <2>1
  <2>3. Ops' = W!With(Ops, {id}, o)
    BY <1>15, <2>1 DEF f
  <2>4. Vals' = W!With(Vals, W!InputsOf(o, id), Open)
    BY <1>15, <2>1 DEF g
  <2> QED BY <2>1, <2>2, <2>3, <2>4, AddIs
<1> QED BY <1>16

LEMMA AssignMaps ==
  ASSUME GraphInv, NEW a \in DOMAIN assigned, NEW value \in Values \cup {Open},
         assignConstantInputData(a[1], a[2], value)
  PROVE  \E i \in DOMAIN Vals, v \in Values \cup {Open} : W!Assign(i, v)
<1>1. /\ nodes \in Seq(Node) /\ Apart(nodes) /\ DOMAIN assigned \subseteq PinsOf(nodes)
  BY InvGives
<1>2. a = <<a[1], a[2]>>
  BY <1>1, PinOfVertex
<1>3. assigned' = [assigned EXCEPT ![a] = value] /\ nodes' = nodes /\ flows' = flows
  BY <1>2 DEF assignConstantInputData
<1>4. PICK i : i = NameIn(nodes, a)
  OBVIOUS
<1>5. i \in DOMAIN Vals /\ Vals = [x \in DOMAIN Vals |-> Vals[x]]
      /\ DOMAIN Vals = {NameIn(nodes, b) : b \in DOMAIN assigned}
  <2>1. /\ DOMAIN Vals = {NameIn(nodes, b) : b \in DOMAIN assigned}
        /\ Vals = [x \in DOMAIN Vals |-> Vals[x]]
    BY ValueBarDomain DEF Vals
  <2> QED BY <2>1, <1>4
<1>6. Vals' = [Vals EXCEPT ![i] = value]
  <2> DEFINE f == [Vals EXCEPT ![i] = value]
  <2>1. /\ DOMAIN f = DOMAIN Vals
        /\ f = [x \in DOMAIN f |-> f[x]]
        /\ \A x \in DOMAIN f : f[x] = IF x = i THEN value ELSE Vals[x]
    BY <1>5
  <2>2. DOMAIN assigned' = DOMAIN assigned
    BY <1>3
  <2>3. \A b \in DOMAIN assigned : assigned'[b] = IF b = a THEN value ELSE assigned[b]
    BY <1>3
  <2> HIDE DEF f
  <2>4. ASSUME NEW b \in DOMAIN assigned PROVE f[NameIn(nodes, b)] = assigned'[b]
    <3>1. NameIn(nodes, b) \in DOMAIN f
      BY <2>1, <1>5
    <3>2. Vals[NameIn(nodes, b)] = assigned[b]
      BY <1>1, ValueBarAt DEF Vals
    <3>3. NameIn(nodes, b) = i => b = a
      BY <1>1, <1>4, NameInj
    <3> QED BY <3>1, <3>2, <3>3, <2>1, <2>3, <1>4
  <2>5. /\ DOMAIN assigned' \subseteq PinsOf(nodes)
        /\ DOMAIN f = {NameIn(nodes, b) : b \in DOMAIN assigned'}
        /\ \A b \in DOMAIN assigned' : f[NameIn(nodes, b)] = assigned'[b]
        /\ f = [x \in DOMAIN f |-> f[x]]
    BY <2>1, <2>2, <2>4, <1>1, <1>5
  <2>6. ValueBar(nodes, assigned') = f
    BY <2>5, <1>1, ValueBarEquals
  <2> QED BY <2>6, <1>3 DEF Vals, f
<1>7. Ops' = Ops /\ Links' = Links
  BY <1>3 DEF Ops, Links
<1>8. W!Assign(i, value)
  BY <1>5, <1>6, <1>7, AssignIs
<1> QED BY <1>5, <1>8

LEMMA FlowMaps ==
  ASSUME GraphInv, NEW v \in Vertices, NEW w \in Vertices,
         NEW out \in 1 .. Outputs[nodes[v].op], NEW in \in 1 .. Inputs[nodes[w].op],
         addFlow([from |-> v, out |-> out, to |-> w, in |-> in])
  PROVE  \E i \in DOMAIN Vals, id \in DOMAIN Ops : \E o \in 1 .. Outputs[Ops[id]] :
            W!Connect([from |-> id, out |-> o, to |-> i[1], in |-> i[2]])
<1> DEFINE e == [from |-> v, out |-> out, to |-> w, in |-> in]
           a == Target(e)
<1>1. /\ nodes \in Seq(Node) /\ flows \in Seq(Flow) /\ Apart(nodes)
      /\ DOMAIN nodes = 1 .. Len(nodes) /\ DOMAIN assigned \subseteq PinsOf(nodes)
  BY InvGives
<1>2. /\ flows' = Append(flows, e) /\ nodes' = nodes /\ v # w
      /\ assigned' = remove(assigned, {a})
  BY DEF addFlow, Target
<1>3. /\ e \in Flow /\ Fits(nodes, e) /\ a \in DOMAIN assigned /\ assigned[a] = Open
  <2>1. ~hasValueDefined(w, in)
    BY DEF addFlow
  <2> QED BY <2>1, DrawnFits
<1>4. a[1] = w /\ a[2] = in
  BY DEF Target
<1>5. v \in 1 .. Len(nodes) /\ w \in 1 .. Len(nodes)
  BY <1>1 DEF Vertices
<1>6. NamedIn(nodes, e) = [from |-> nodes[v].id, out |-> out, to |-> nodes[w].id, in |-> in]
  BY <1>3, NamedIs
<1> HIDE DEF e, a
<1>7. PICK i : i = NameIn(nodes, a)
  OBVIOUS
<1>8. PICK id : id = nodes[v].id
  OBVIOUS
<1> DEFINE link == [from |-> id, out |-> out, to |-> i[1], in |-> i[2]]
<1>9. i = <<nodes[w].id, in>>
  BY <1>4, <1>7 DEF NameIn
<1>10. link = NamedIn(nodes, e)
  BY <1>6, <1>8, <1>9
<1>11. /\ DOMAIN Vals = {NameIn(nodes, b) : b \in DOMAIN assigned}
       /\ Vals = [x \in DOMAIN Vals |-> Vals[x]]
  BY ValueBarDomain DEF Vals
<1>12. i \in DOMAIN Vals /\ Vals[i] = Open
  <2>1. Vals[NameIn(nodes, a)] = assigned[a]
    BY <1>1, <1>3, ValueBarAt DEF Vals
  <2> QED BY <2>1, <1>3, <1>7, <1>11
<1>13. /\ DOMAIN Ops = {nodes[x].id : x \in 1 .. Len(nodes)}
       /\ Ops[nodes[v].id] = nodes[v].op
  BY <1>1, <1>5, OpBarIs DEF Ops
<1>14. id \in DOMAIN Ops /\ nodes[w].id \in DOMAIN Ops /\ id # nodes[w].id
       /\ out \in 1 .. Outputs[Ops[id]]
  BY <1>2, <1>5, <1>8, <1>13, <1>1 DEF Apart
<1>15. Links' = Links \cup {link}
  <2>1. Append(flows, e) \in Seq(Flow) /\ ToSet(Append(flows, e)) = ToSet(flows) \cup {e}
    BY <1>1, <1>3, AppendElements
  <2>2. LinksBar(nodes, Append(flows, e)) = {NamedIn(nodes, d) : d \in ToSet(flows) \cup {e}}
    BY <2>1, LinksBarIs
  <2>3. LinksBar(nodes, flows) = {NamedIn(nodes, d) : d \in ToSet(flows)}
    BY <1>1, LinksBarIs
  <2> HIDE DEF link
  <2>4. LinksBar(nodes, Append(flows, e)) = LinksBar(nodes, flows) \cup {link}
    BY <2>2, <2>3, <1>10
  <2> QED BY <2>4, <1>2 DEF Links
<1>16. Vals' = W!Without(Vals, {i})
  <2> DEFINE f == W!Without(Vals, {i})
             bs == remove(assigned, {a})
  <2>1. /\ DOMAIN f = DOMAIN Vals \ {i}
        /\ f = [x \in DOMAIN f |-> f[x]]
        /\ \A x \in DOMAIN f : f[x] = Vals[x]
    BY DEF W!Without
  <2>2. /\ DOMAIN bs = DOMAIN assigned \ {a}
        /\ \A b \in DOMAIN bs : bs[b] = assigned[b]
    BY DEF remove
  <2> HIDE DEF f, bs
  <2>3. ASSUME NEW b \in DOMAIN assigned PROVE NameIn(nodes, b) = i <=> b = a
    BY <1>1, <1>3, <1>7, NameInj
  <2>4. DOMAIN f = {NameIn(nodes, b) : b \in DOMAIN bs}
    BY <2>1, <2>2, <2>3, <1>11
  <2>5. ASSUME NEW b \in DOMAIN bs PROVE f[NameIn(nodes, b)] = bs[b]
    <3>1. b \in DOMAIN assigned
      BY <2>2
    <3>2. Vals[NameIn(nodes, b)] = assigned[b]
      BY <3>1, <1>1, ValueBarAt DEF Vals
    <3>3. NameIn(nodes, b) \in DOMAIN f
      BY <2>4
    <3> QED BY <3>2, <3>3, <2>1, <2>2
  <2>6. DOMAIN bs \subseteq PinsOf(nodes) /\ f = [x \in DOMAIN f |-> f[x]]
    BY <2>1, <2>2, <1>1
  <2>7. ValueBar(nodes, bs) = f
    BY <2>4, <2>5, <2>6, <1>1, ValueBarEquals
  <2> QED BY <2>7, <1>2 DEF Vals, f, bs
<1>17. <<link.to, link.in>> = i /\ link.from = id /\ link.to = nodes[w].id
  BY <1>9
<1> HIDE DEF link
<1>18. Ops' = Ops
  BY <1>2 DEF Ops
<1>19. W!Connect(link)
  BY <1>12, <1>14, <1>15, <1>16, <1>17, <1>18, ConnectIs
<1> QED BY <1>12, <1>14, <1>19 DEF link

LEMMA UnflowMaps ==
  ASSUME GraphInv, NEW from, NEW to, NEW out, NEW in, deleteFlow(from, to, out, in),
         NEW d \in ToSet(flows), d.from = from, d.to = to, d.out = out, d.in = in
  PROVE  \E link \in Links : W!Disconnect(link)
<1> DEFINE gone == {e \in ToSet(flows) : /\ e.from = from /\ nodes[e.to].op = nodes[to].op
                                        /\ e.out = out /\ e.in = in}
           es == {NamedIn(nodes, e) : e \in gone}
<1>1. /\ flows' = Among(flows, ToSet(flows) \ gone)
      /\ assigned' = removeOperationFlow(assigned, gone)
      /\ nodes' = nodes
  BY DEF deleteFlow
<1>2. gone \in SUBSET ToSet(flows) /\ d \in gone
  OBVIOUS
<1>3. /\ nodes \in Seq(Node) /\ flows \in Seq(Flow) /\ Apart(nodes)
      /\ \A e \in ToSet(flows) : e \in Flow /\ Fits(nodes, e)
  BY InvGives
<1>4. \A e \in gone : /\ e.from = d.from /\ nodes[e.to].op = nodes[d.to].op
                      /\ e.out = d.out /\ e.in = d.in
  OBVIOUS
<1> HIDE DEF gone
<1>5. PICK link : link = NamedIn(nodes, d)
  OBVIOUS
<1>6. Links = {NamedIn(nodes, e) : e \in ToSet(flows)}
  BY <1>3, LinksBarIs DEF Links
<1>7. link \in Links /\ es # {}
  BY <1>2, <1>5, <1>6
<1>8. ASSUME NEW e \in gone
      PROVE  LET l == NamedIn(nodes, e)
             IN  /\ l \in Links /\ [l EXCEPT !.to = link.to] = link
                 /\ Ops[l.to] = Ops[link.to]
  <2>1. e \in Flow /\ Fits(nodes, e) /\ d \in Flow /\ Fits(nodes, d) /\ NamedIn(nodes, e) \in Links
    BY <1>2, <1>3, <1>6
  <2> DEFINE l == NamedIn(nodes, e)
             x == nodes[d.from].id
             y == nodes[d.to].id
             z == nodes[e.to].id
  <2>2. l = [from |-> x, out |-> d.out, to |-> z, in |-> d.in]
    BY <2>1, <1>4, NamedIs
  <2>3. link = [from |-> x, out |-> d.out, to |-> y, in |-> d.in]
    BY <2>1, <1>5, NamedIs
  <2>4. Ops[z] = nodes[e.to].op /\ Ops[y] = nodes[d.to].op
    BY <2>1, <1>3, OpBarIs DEF Ops, Fits
  <2> HIDE DEF x, y, z, l
  <2>5. l.to = z /\ link.to = y
    BY <2>2, <2>3
  <2>6. [l EXCEPT !.to = link.to] = link
    BY <2>2, <2>3, <2>5
  <2>7. Ops[l.to] = Ops[link.to]
    BY <2>4, <2>5, <1>4
  <2> QED BY <2>1, <2>6, <2>7 DEF l
<1>9. /\ Links' = Links \ es
      /\ Vals' = W!With(Vals, W!Targets(es), Open)
  <2>1. Sound(nodes, flows, DOMAIN assigned)
    BY DEF GraphInv
  <2>2. /\ LinksBar(nodes, Among(flows, ToSet(flows) \ gone)) = LinksBar(nodes, flows) \ es
        /\ ValueBar(nodes, removeOperationFlow(assigned, gone)) =
               W!With(ValueBar(nodes, assigned), W!Targets(es), Open)
    BY <2>1, <1>2, <1>3, BarRemoval
  <2> HIDE DEF es
  <2> QED BY <2>2, <1>1 DEF Links, Vals
<1>10. Ops' = Ops
  BY <1>1 DEF Ops
<1>11. PICK ls : ls = es
  OBVIOUS
<1>12. ls \in SUBSET {l \in Links : [l EXCEPT !.to = link.to] = link /\ Ops[l.to] = Ops[link.to]}
  BY <1>8, <1>11
<1> HIDE DEF es
<1>13. W!Disconnect(link)
  BY <1>7, <1>9, <1>10, <1>11, <1>12, DisconnectIs
<1> QED BY <1>7, <1>13

LEMMA DeleteMaps ==
  ASSUME GraphInv, NEW v \in Vertices, deleteOperation(v)
  PROVE  \E id \in DOMAIN Ops : W!Delete(id)
<1> DEFINE gone == {e \in ToSet(flows) : v \in {e.from, e.to}}
           left == Among(flows, ToSet(flows) \ gone)
           as == removeOperationFlow(assigned, gone)
           named == {NamedIn(nodes, e) : e \in gone}
<1>1. /\ nodes' = RemoveAt(nodes, v)
      /\ flows' = Moved(left, v)
      /\ assigned' = removeAllInputAssignments(as, v)
  BY DEF deleteOperation, Moved, Down
<1>2. gone \in SUBSET ToSet(flows)
  OBVIOUS
<1>3. /\ nodes \in Seq(Node) /\ flows \in Seq(Flow) /\ Apart(nodes)
      /\ v \in 1 .. Len(nodes)
      /\ \A e \in ToSet(flows) : e \in Flow /\ Fits(nodes, e)
  BY InvGives DEF Vertices
<1>4. Untouched(left, v)
  <2>1. left \in Seq(Flow) /\ ToSet(left) = ToSet(flows) \cap (ToSet(flows) \ gone)
    BY <1>3, AmongElements
  <2>2. \A i \in 1 .. Len(left) : left[i] \in ToSet(left)
    <3> HIDE DEF left
    <3> QED BY <2>1 DEF ToSet
  <2> HIDE DEF left
  <2> QED BY <2>1, <2>2 DEF Untouched
<1>5. \A e \in ToSet(flows) : e \in gone <=> v \in {e.from, e.to}
  OBVIOUS
<1> HIDE DEF gone
<1>6. Sound(nodes, left, DOMAIN as)
  BY <1>2, RemovalSound
<1>7. /\ LinksBar(nodes, left) = Links \ named
      /\ ValueBar(nodes, as) = W!With(Vals, W!Targets(named), Open)
  <2>1. Sound(nodes, flows, DOMAIN assigned)
    BY DEF GraphInv
  <2> QED BY <2>1, <1>2, <1>3, BarRemoval DEF Links, Vals
<1> HIDE DEF left, as
<1>8. PICK id : id = nodes[v].id
  OBVIOUS
<1>9. DOMAIN Ops = {nodes[w].id : w \in 1 .. Len(nodes)} /\ Ops[id] = nodes[v].op
  BY <1>3, <1>8, OpBarIs DEF Ops
<1>10. id \in DOMAIN Ops
  BY <1>3, <1>8, <1>9
<1> DEFINE own == W!InputsOf(Ops[id], id)
           away == {l \in Links : l.from = id}
<1>11. /\ Ops' = W!Without(Ops, {id})
       /\ Links' = Links \ named
       /\ Vals' = W!Without(W!With(Vals, W!Targets(named), Open), own)
  <2>1. /\ OpBar(RemoveAt(nodes, v)) = W!Without(OpBar(nodes), {nodes[v].id})
        /\ LinksBar(RemoveAt(nodes, v), Moved(left, v)) = LinksBar(nodes, left)
        /\ ValueBar(RemoveAt(nodes, v), removeAllInputAssignments(as, v)) =
               ValuesWithout(nodes, as, v)
    <3>1. Apart(nodes) /\ v \in 1 .. Len(nodes)
      BY <1>3
    <3> HIDE DEF own, named
    <3> QED BY <3>1, <1>4, <1>6, BarRenumber
  <2>2. own = W!InputsOf(nodes[v].op, nodes[v].id)
    BY <1>8, <1>9
  <2>3. ValuesWithout(nodes, as, v) = W!Without(ValueBar(nodes, as), own)
    BY <2>2 DEF ValuesWithout
  <2> HIDE DEF own, named
  <2>4. Ops' = W!Without(Ops, {id})
    BY <2>1, <1>1, <1>8 DEF Ops
  <2>5. Links' = Links \ named
    BY <2>1, <1>1, <1>7 DEF Links
  <2>6. Vals' = W!Without(ValueBar(nodes, as), own)
    BY <2>1, <2>3, <1>1 DEF Vals
  <2> QED BY <2>4, <2>5, <2>6, <1>7
<1>12. Links = {NamedIn(nodes, e) : e \in ToSet(flows)}
  BY <1>3, LinksBarIs DEF Links
<1>13. ASSUME NEW e \in ToSet(flows)
       PROVE  /\ NamedIn(nodes, e).from = id <=> e.from = v
              /\ NamedIn(nodes, e).to = id <=> e.to = v
              /\ e.in \in 1 .. Inputs[nodes[e.to].op]
              /\ NamedIn(nodes, e).in = e.in
  <2>1. e \in Flow /\ Fits(nodes, e)
    BY <1>3
  <2>2. NamedIn(nodes, e).from = nodes[e.from].id /\ NamedIn(nodes, e).to = nodes[e.to].id
        /\ NamedIn(nodes, e).in = e.in
    BY <2>1, NamedIs
  <2> QED BY <2>1, <2>2, <1>3, <1>8 DEF Apart, Fits
<1>14. named = {l \in Links : id \in {l.from, l.to}}
  BY <1>2, <1>5, <1>12, <1>13
<1>15. Links \ named = {l \in Links : id \notin {l.from, l.to}}
  BY <1>14
<1>16. W!Targets(named) \ own = W!Targets(away) \ own
  <2>1. away \subseteq named
    BY <1>14
  <2>2. ASSUME NEW l \in named, l \notin away PROVE <<l.to, l.in>> \in own
    <3>1. PICK e \in gone : l = NamedIn(nodes, e)
      OBVIOUS
    <3>2. e \in ToSet(flows) /\ e.to = v /\ l.to = id /\ l.in = e.in
      BY <3>1, <2>2, <1>2, <1>5, <1>12, <1>13
    <3>3. l.in \in 1 .. Inputs[nodes[v].op]
      BY <3>2, <1>13
    <3> QED BY <3>2, <3>3, <1>9 DEF W!InputsOf
  <2> HIDE DEF named, away, own
  <2> QED BY <2>1, <2>2 DEF W!Targets
<1>17. W!Without(W!With(Vals, W!Targets(named), Open), own)
          = W!Without(W!With(Vals, W!Targets(away), Open), own)
  <2> HIDE DEF named, away, own
  <2> QED BY <1>16, WithoutEither
<1>18. W!Delete(id)
  <2>1. Vals' = W!Without(W!With(Vals, W!Targets(away), Open), own)
    BY <1>11, <1>17
  <2>2. Links' = {l \in Links : id \notin {l.from, l.to}}
    BY <1>11, <1>15
  <2> HIDE DEF named
  <2> QED BY <2>1, <2>2, <1>10, <1>11, DeleteIs
<1> QED BY <1>10, <1>18

LEMMA WorkflowInit == GInit => W!Init
<1> SUFFICES ASSUME GInit PROVE W!Init
  OBVIOUS
<1>1. nodes = <<>> /\ flows = <<>> /\ DOMAIN assigned = {}
  BY DEF GInit
<1>2. Ops = [id \in {} |-> 0] /\ Links = {} /\ Vals = [i \in {} |-> 0]
  BY <1>1 DEF Ops, Links, Vals, OpBar, LinksBar, ValueBar
<1> QED BY <1>2, BarsAre DEF W!Init

LEMMA WorkflowStep == GraphInv /\ [Edit]_gvars => [W!Next]_(W!vars)
<1> SUFFICES ASSUME GraphInv, [Edit]_gvars PROVE [W!Next]_(W!vars)
  OBVIOUS
<1>1. CASE \E o \in Operations : addOperation(o)
  <2>1. \E id \in 1 .. MaxIds, o \in Operations : W!Add(id, o)
    BY <1>1, AddMaps
  <2> QED BY <2>1, WorkflowIs
<1>2. CASE \E a \in DOMAIN assigned, value \in Values \cup {Open} :
              assignConstantInputData(a[1], a[2], value)
  <2>1. \E i \in DOMAIN Vals, v \in Values \cup {Open} : W!Assign(i, v)
    BY <1>2, AssignMaps
  <2> QED BY <2>1, WorkflowIs DEF Ops, Vals
<1>3. CASE \E v, w \in Vertices : \E out \in 1 .. Outputs[nodes[v].op], in \in 1 .. Inputs[nodes[w].op] :
              addFlow([from |-> v, out |-> out, to |-> w, in |-> in])
  <2>1. \E i \in DOMAIN Vals, id \in DOMAIN Ops : \E out \in 1 .. Outputs[Ops[id]] :
            W!Connect([from |-> id, out |-> out, to |-> i[1], in |-> i[2]])
    BY <1>3, FlowMaps
  <2> QED BY <2>1, WorkflowIs DEF Ops, Vals
<1>4. CASE \E i \in DOMAIN flows : LET e == flows[i] IN deleteFlow(e.from, e.to, e.out, e.in)
  <2>1. PICK i \in DOMAIN flows : deleteFlow(flows[i].from, flows[i].to, flows[i].out, flows[i].in)
    BY <1>4
  <2>2. PICK d : d = flows[i]
    OBVIOUS
  <2>3. d \in ToSet(flows)
    BY <2>1, <2>2 DEF ToSet
  <2>4. deleteFlow(d.from, d.to, d.out, d.in)
    BY <2>1, <2>2
  <2>5. \E link \in Links : W!Disconnect(link)
    BY <2>3, <2>4, UnflowMaps
  <2> QED BY <2>5, WorkflowIs DEF Links
<1>5. CASE \E v \in Vertices : deleteOperation(v)
  <2>1. \E id \in DOMAIN Ops : W!Delete(id)
    BY <1>5, DeleteMaps
  <2> QED BY <2>1, WorkflowIs DEF Ops, Vals
<1>6. CASE UNCHANGED gvars
  BY <1>6, BarsAre, BarsAreNext DEF gvars, Ops, Links, Vals, W!vars
<1> QED BY <1>1, <1>2, <1>3, <1>4, <1>5, <1>6 DEF Edit

(* The editor, in which operations are positions that change when one is   *)
(* deleted, does what an editor of named instances with links and values   *)
(* does: no edit touches more than what it is about (WorkflowModel and     *)
(* Workflow, for every set of operations and any number of edits).         *)
THEOREM EditorIsWorkflow == GSpec => IsWorkflow
<1>1. GInit => GraphInv
  BY GraphInit
<1>2. GraphInv /\ [Edit]_gvars => GraphInv'
  BY GraphStep
<1>3. GInit => W!Init
  BY WorkflowInit
<1>4. GraphInv /\ [Edit]_gvars => [W!Next]_(W!vars)
  BY WorkflowStep
<1> QED BY <1>1, <1>2, <1>3, <1>4, PTL DEF GSpec, IsWorkflow, W!Spec

-----------------------------------------------------------------------------
(* The form follows the open inputs.  They are enumerated by vertex and    *)
(* parameter; a set of pins has one such enumeration, so that an edit of   *)
(* the enumeration is known by the set that it leaves.                     *)

Pair == Nat \X Nat
Before(a, b) == a[1] < b[1] \/ (a[1] = b[1] /\ a[2] < b[2])

LEMMA BeforeOrder ==
  /\ \A a \in Pair : ~ Before(a, a)
  /\ \A a, b \in Pair : Before(a, b) => ~ Before(b, a)
  /\ \A a, b, c \in Pair : Before(a, b) /\ Before(b, c) => Before(a, c)
  /\ \A a, b \in Pair : Before(a, b) \/ Before(b, a) \/ a = b
<1>1. ASSUME NEW a \in Pair PROVE a[1] \in Nat /\ a[2] \in Nat /\ a = <<a[1], a[2]>>
  BY DEF Pair
<1>2. \A a \in Pair : ~ Before(a, a)
  BY <1>1 DEF Before
<1>3. \A a, b \in Pair : Before(a, b) => ~ Before(b, a)
  BY <1>1 DEF Before
<1>4. \A a, b, c \in Pair : Before(a, b) /\ Before(b, c) => Before(a, c)
  BY <1>1 DEF Before
<1>5. \A a, b \in Pair : Before(a, b) \/ Before(b, a) \/ a = b
  <2> SUFFICES ASSUME NEW a \in Pair, NEW b \in Pair, ~ Before(a, b), ~ Before(b, a)
               PROVE  a = b
    OBVIOUS
  <2>1. a[1] = b[1] /\ a[2] = b[2]
    BY <1>1 DEF Before
  <2> QED BY <1>1, <2>1
<1> QED BY <1>2, <1>3, <1>4, <1>5

Rising(s) == \A i, j \in 1 .. Len(s) : i < j => Before(s[i], s[j])
Sorted(s, S) == s \in Seq(Pair) /\ ToSet(s) = S /\ Rising(s)

LEMMA SortedHas ==
  ASSUME NEW s, NEW S, Sorted(s, S)
  PROVE  /\ s \in Seq(Pair) /\ Len(s) \in Nat /\ DOMAIN s = 1 .. Len(s)
         /\ S \in SUBSET Pair
         /\ \A i \in 1 .. Len(s) : s[i] \in S /\ s[i] \in Pair
         /\ \A a \in S : \E i \in 1 .. Len(s) : s[i] = a
<1>1. s \in Seq(Pair) /\ ToSet(s) = S
  BY DEF Sorted
<1>2. /\ \A i \in 1 .. Len(s) : s[i] \in S
      /\ \A a \in S : \E i \in 1 .. Len(s) : s[i] = a
  BY <1>1 DEF ToSet
<1> QED BY <1>1, <1>2

LEMMA SortedPlace ==
  ASSUME NEW s, NEW S, Sorted(s, S), NEW i \in 1 .. Len(s), NEW j \in 1 .. Len(s)
  PROVE  /\ s[i] = s[j] => i = j
         /\ Before(s[i], s[j]) <=> i < j
<1>1. s[i] \in Pair /\ s[j] \in Pair /\ Len(s) \in Nat
  BY SortedHas
<1>2. (i < j => Before(s[i], s[j])) /\ (j < i => Before(s[j], s[i]))
  BY DEF Sorted, Rising
<1>3. i < j \/ j < i \/ i = j
  BY <1>1
<1>4. (i < j => ~(j < i) /\ i # j) /\ (j < i => ~(i < j) /\ i # j) /\ (i = j => ~(i < j))
  BY <1>1
<1> QED BY <1>1, <1>2, <1>3, <1>4, BeforeOrder

(* As far as both go, two enumerations of a set agree.                     *)
LEMMA SortedAgree ==
  ASSUME NEW s, NEW t, NEW S, Sorted(s, S), Sorted(t, S),
         NEW k \in 1 .. Len(s), k \in 1 .. Len(t)
  PROVE  s[k] = t[k]
<1> DEFINE Differ == {i \in 1 .. Len(s) : i \in 1 .. Len(t) /\ s[i] # t[i]}
<1>1. SUFFICES ASSUME Differ # {} PROVE FALSE
  OBVIOUS
<1>2. /\ Len(s) \in Nat /\ Len(t) \in Nat
      /\ \A i \in 1 .. Len(s) : s[i] \in S /\ s[i] \in Pair
      /\ \A i \in 1 .. Len(t) : t[i] \in S /\ t[i] \in Pair
      /\ \A a \in S : \E i \in 1 .. Len(s) : s[i] = a
      /\ \A a \in S : \E i \in 1 .. Len(t) : t[i] = a
  BY SortedHas
<1>3. Differ \in SUBSET Nat
  BY <1>2
<1>4. PICK n \in Differ : \A m \in Differ : n <= m
  BY <1>1, <1>3, LeastNumber
<1>5. n \in 1 .. Len(s) /\ n \in 1 .. Len(t) /\ s[n] # t[n]
  OBVIOUS
<1>6. ASSUME NEW i \in 1 .. n - 1 PROVE s[i] = t[i] /\ i \in 1 .. Len(s) /\ i \in 1 .. Len(t) /\ i # n
  <2>1. i \in 1 .. Len(s) /\ i \in 1 .. Len(t) /\ ~(n <= i) /\ i # n
    BY <1>2, <1>5
  <2> QED BY <2>1, <1>4
<1> HIDE DEF Differ
<1>7. ASSUME Before(s[n], t[n]) PROVE FALSE
  <2>1. PICK j \in 1 .. Len(t) : t[j] = s[n]
    BY <1>2, <1>5
  <2>2. j < n
    BY <2>1, <1>5, <1>7, SortedPlace
  <2>3. j \in 1 .. n - 1
    BY <2>2, <1>2, <1>5
  <2>4. s[j] = s[n] /\ j \in 1 .. Len(s) /\ j # n
    BY <2>1, <2>3, <1>6
  <2> QED BY <2>4, <1>5, SortedPlace
<1>8. ASSUME Before(t[n], s[n]) PROVE FALSE
  <2>1. PICK j \in 1 .. Len(s) : s[j] = t[n]
    BY <1>2, <1>5
  <2>2. j < n
    BY <2>1, <1>5, <1>8, SortedPlace
  <2>3. j \in 1 .. n - 1
    BY <2>2, <1>2, <1>5
  <2>4. t[j] = t[n] /\ j \in 1 .. Len(t) /\ j # n
    BY <2>1, <2>3, <1>6
  <2> QED BY <2>4, <1>5, SortedPlace
<1> QED BY <1>2, <1>5, <1>7, <1>8, BeforeOrder

LEMMA SortedNoLonger ==
  ASSUME NEW s, NEW t, NEW S, Sorted(s, S), Sorted(t, S)
  PROVE  ~ Len(s) < Len(t)
<1> SUFFICES ASSUME Len(s) < Len(t) PROVE FALSE
  OBVIOUS
<1>1. /\ Len(s) \in Nat /\ Len(t) \in Nat
      /\ \A i \in 1 .. Len(t) : t[i] \in S
      /\ \A a \in S : \E i \in 1 .. Len(s) : s[i] = a
  BY SortedHas
<1>2. Len(s) + 1 \in 1 .. Len(t) /\ Len(s) + 1 \notin 1 .. Len(s)
      /\ \A i \in 1 .. Len(s) : i \in 1 .. Len(t)
  BY <1>1
<1>3. PICK i \in 1 .. Len(s) : s[i] = t[Len(s) + 1]
  BY <1>1, <1>2
<1>4. t[i] = t[Len(s) + 1] /\ i \in 1 .. Len(t)
  BY <1>2, <1>3, SortedAgree
<1>5. i = Len(s) + 1
  BY <1>2, <1>4, SortedPlace
<1> QED BY <1>2, <1>5

LEMMA SortedOnce ==
  ASSUME NEW s, NEW t, NEW S, Sorted(s, S), Sorted(t, S)
  PROVE  s = t
<1>1. Len(s) \in Nat /\ Len(t) \in Nat /\ s \in Seq(Pair) /\ t \in Seq(Pair)
  BY SortedHas
<1>2. ~(Len(s) < Len(t)) /\ ~(Len(t) < Len(s))
  BY SortedNoLonger
<1>3. Len(s) = Len(t)
  BY <1>1, <1>2
<1>4. \A i \in 1 .. Len(s) : s[i] = t[i]
  BY <1>3, SortedAgree
<1> QED BY <1>1, <1>3, <1>4

LEMMA RemoveSorted ==
  ASSUME NEW s, NEW S, Sorted(s, S), NEW i \in 1 .. Len(s)
  PROVE  Sorted(RemoveAt(s, i), S \ {s[i]})
<1> DEFINE r == RemoveAt(s, i)
<1>1. /\ s \in Seq(Pair) /\ Len(s) \in Nat /\ S \in SUBSET Pair
      /\ \A j \in 1 .. Len(s) : s[j] \in S
      /\ \A a \in S : \E j \in 1 .. Len(s) : s[j] = a
  BY SortedHas
<1>2. /\ r \in Seq(Pair) /\ Len(r) = Len(s) - 1
      /\ \A w \in 1 .. Len(s) - 1 : r[w] = s[Up(i, w)]
  BY <1>1, RemoveAtIs
<1>3. /\ \A w \in 1 .. Len(s) : w # i => Down(i, w) \in 1 .. Len(s) - 1 /\ Up(i, Down(i, w)) = w
      /\ \A w \in 1 .. Len(s) - 1 : Up(i, w) \in 1 .. Len(s) /\ Up(i, w) # i
  BY <1>1, DownUp
<1>4. ASSUME NEW v \in 1 .. Len(s) - 1, NEW w \in 1 .. Len(s) - 1, v < w
      PROVE  Up(i, v) < Up(i, w)
  BY <1>1, <1>4 DEF Up
<1> HIDE DEF r
<1>5. Rising(r)
  <2>1. \A v, w \in 1 .. Len(s) : v < w => Before(s[v], s[w])
    BY DEF Sorted, Rising
  <2> QED BY <2>1, <1>2, <1>3, <1>4 DEF Rising
<1>6. ASSUME NEW a \in ToSet(r) PROVE a \in S \ {s[i]}
  <2>1. PICK w \in 1 .. Len(s) - 1 : a = r[w]
    BY <1>2 DEF ToSet
  <2>2. a = s[Up(i, w)] /\ Up(i, w) \in 1 .. Len(s) /\ Up(i, w) # i
    BY <2>1, <1>2, <1>3
  <2> QED BY <2>2, <1>1, SortedPlace
<1>7. ASSUME NEW a \in S \ {s[i]} PROVE a \in ToSet(r)
  <2>1. PICK j \in 1 .. Len(s) : s[j] = a
    BY <1>1
  <2>2. j # i
    BY <2>1
  <2>3. Down(i, j) \in 1 .. Len(r) /\ r[Down(i, j)] = a
    BY <2>1, <2>2, <1>2, <1>3
  <2> QED BY <2>3, <1>2 DEF ToSet
<1>8. Sorted(r, S \ {s[i]})
  BY <1>2, <1>5, <1>6, <1>7 DEF Sorted
<1> QED BY <1>8 DEF r

LEMMA InsertAtIs ==
  ASSUME NEW E, NEW s \in Seq(E), NEW i \in 1 .. Len(s) + 1, NEW e \in E
  PROVE  /\ InsertAt(s, i, e) \in Seq(E)
         /\ Len(InsertAt(s, i, e)) = Len(s) + 1
         /\ \A j \in 1 .. Len(s) + 1 :
               InsertAt(s, i, e)[j] = IF j < i THEN s[j] ELSE IF j = i THEN e ELSE s[j - 1]
<1> DEFINE a == SubSeq(s, 1, i - 1)
           b == SubSeq(s, i, Len(s))
<1>1. InsertAt(s, i, e) = (a \o <<e>>) \o b
  BY DEF InsertAt
<1>2. i \in Nat /\ Len(s) \in Nat /\ 1 <= i /\ i <= Len(s) + 1
  OBVIOUS
<1>3. a \in Seq(E) /\ Len(a) = i - 1 /\ \A w \in 1 .. i - 1 : a[w] = s[w]
  BY <1>2
<1>4. /\ b \in Seq(E) /\ Len(b) = Len(s) - i + 1
      /\ \A w \in 1 .. Len(s) - i + 1 : b[w] = s[i + w - 1]
  <2>1. \A w \in i .. Len(s) : s[w] \in E
    BY <1>2
  <2>2. /\ b \in Seq(E) /\ Len(b) = (IF i <= Len(s) THEN Len(s) - i + 1 ELSE 0)
        /\ \A w \in 1 .. Len(s) - i + 1 : b[w] = s[i + w - 1]
    BY <1>2
  <2> QED BY <2>2, <1>2
<1> HIDE DEF a, b
<1> DEFINE c == a \o <<e>>
<1>5. /\ c \in Seq(E) /\ Len(c) = i
      /\ \A w \in 1 .. i : c[w] = IF w < i THEN a[w] ELSE e
  BY <1>2, <1>3
<1> HIDE DEF c
<1>6. /\ c \o b \in Seq(E) /\ Len(c \o b) = Len(c) + Len(b)
      /\ \A w \in 1 .. Len(c) + Len(b) :
            (c \o b)[w] = IF w <= Len(c) THEN c[w] ELSE b[w - Len(c)]
  BY <1>4, <1>5, ConcatProperties
<1>7. ASSUME NEW j \in 1 .. Len(s) + 1
      PROVE  (c \o b)[j] = IF j < i THEN s[j] ELSE IF j = i THEN e ELSE s[j - 1]
  <2>1. j \in Int /\ Len(c) = i /\ j \in 1 .. Len(c) + Len(b)
    BY <1>2, <1>4, <1>5
  <2>2. CASE j < i
    BY <2>1, <2>2, <1>2, <1>3, <1>5, <1>6
  <2>3. CASE j = i
    BY <2>1, <2>3, <1>2, <1>5, <1>6
  <2>4. CASE j > i
    <3>1. j - i \in 1 .. Len(s) - i + 1 /\ i + (j - i) - 1 = j - 1
      BY <2>1, <2>4, <1>2
    <3>2. (c \o b)[j] = b[j - i]
      BY <2>1, <2>4, <1>2, <1>6
    <3> QED BY <3>1, <3>2, <2>1, <2>4, <1>2, <1>4
  <2> QED BY <2>1, <2>2, <2>3, <2>4, <1>2
<1>8. Len(c \o b) = Len(s) + 1
  BY <1>2, <1>4, <1>5, <1>6
<1> QED BY <1>1, <1>6, <1>7, <1>8 DEF c

LEMMA InsertRemoved ==
  ASSUME NEW E, NEW s \in Seq(E), NEW i \in 1 .. Len(s)
  PROVE  /\ i \in 1 .. Len(RemoveAt(s, i)) + 1
         /\ InsertAt(RemoveAt(s, i), i, s[i]) = s
<1> DEFINE r == RemoveAt(s, i)
           e == s[i]
           t == InsertAt(r, i, e)
<1>1. i \in Nat /\ Len(s) \in Nat /\ 1 <= i /\ i <= Len(s) /\ e \in E
  OBVIOUS
<1>2. /\ r \in Seq(E) /\ Len(r) = Len(s) - 1
      /\ \A w \in 1 .. Len(s) - 1 : r[w] = s[Up(i, w)]
  BY RemoveAtIs
<1>3. i \in 1 .. Len(r) + 1 /\ Len(r) + 1 = Len(s)
  BY <1>1, <1>2
<1> HIDE DEF r, e
<1>4. /\ t \in Seq(E) /\ Len(t) = Len(r) + 1
      /\ \A j \in 1 .. Len(r) + 1 :
               t[j] = IF j < i THEN r[j] ELSE IF j = i THEN e ELSE r[j - 1]
  BY <1>1, <1>2, <1>3, InsertAtIs
<1> HIDE DEF t
<1>5. ASSUME NEW j \in 1 .. Len(s) PROVE t[j] = s[j]
  <2>1. CASE j < i
    <3>1. j \in 1 .. Len(s) - 1 /\ Up(i, j) = j
      BY <2>1, <1>1 DEF Up
    <3> QED BY <3>1, <2>1, <1>2, <1>3, <1>4
  <2>2. CASE j = i
    BY <2>2, <1>1, <1>3, <1>4 DEF e
  <2>3. CASE j > i
    <3>1. j - 1 \in 1 .. Len(s) - 1 /\ Up(i, j - 1) = j /\ ~(j < i) /\ j # i
      BY <2>3, <1>1 DEF Up
    <3> QED BY <3>1, <1>2, <1>3, <1>4
  <2> QED BY <2>1, <2>2, <2>3, <1>1
<1>6. t = s
  BY <1>3, <1>4, <1>5
<1> QED BY <1>3, <1>6 DEF r, t, e

(* The place of an element among a set depends on those before it.         *)
UpTo(S, a) == {b \in S : b = a \/ Before(b, a)}

LEMMA SortedFront ==
  ASSUME NEW s, NEW S, Sorted(s, S), NEW i \in 1 .. Len(s)
  PROVE  Sorted([j \in 1 .. i |-> s[j]], UpTo(S, s[i]))
<1> DEFINE r == [j \in 1 .. i |-> s[j]]
<1>1. /\ s \in Seq(Pair) /\ Len(s) \in Nat
      /\ \A j \in 1 .. Len(s) : s[j] \in S /\ s[j] \in Pair
      /\ \A a \in S : \E j \in 1 .. Len(s) : s[j] = a
  BY SortedHas
<1>2. i \in Nat /\ \A j \in 1 .. i : j \in 1 .. Len(s)
  BY <1>1
<1>3. r \in Seq(Pair) /\ Len(r) = i /\ \A j \in 1 .. i : r[j] = s[j]
  BY <1>1, <1>2
<1> HIDE DEF r
<1>4. Rising(r)
  BY <1>2, <1>3 DEF Sorted, Rising
<1>5. ASSUME NEW a \in ToSet(r) PROVE a \in UpTo(S, s[i])
  <2>1. PICK j \in 1 .. i : a = r[j]
    BY <1>3 DEF ToSet
  <2>2. a = s[j] /\ j \in 1 .. Len(s) /\ (j = i \/ j < i)
    BY <2>1, <1>2, <1>3
  <2> QED BY <2>2, <1>1, SortedPlace DEF UpTo
<1>6. ASSUME NEW a \in UpTo(S, s[i]) PROVE a \in ToSet(r)
  <2>1. PICK j \in 1 .. Len(s) : s[j] = a
    BY <1>1 DEF UpTo
  <2>2. j = i \/ j < i
    BY <2>1, SortedPlace DEF UpTo
  <2>3. j \in 1 .. i
    BY <2>2, <1>1
  <2> QED BY <2>1, <2>3, <1>3 DEF ToSet
<1>7. Sorted(r, UpTo(S, s[i]))
  BY <1>3, <1>4, <1>5, <1>6 DEF Sorted
<1> QED BY <1>7 DEF r

LEMMA SamePlace ==
  ASSUME NEW s, NEW S, Sorted(s, S), NEW t, NEW T, Sorted(t, T),
         NEW i \in 1 .. Len(s), NEW k \in 1 .. Len(t), s[i] = t[k],
         UpTo(S, s[i]) = UpTo(T, t[k])
  PROVE  i = k
<1> DEFINE f == [j \in 1 .. i |-> s[j]]
           g == [j \in 1 .. k |-> t[j]]
<1>1. Sorted(f, UpTo(S, s[i])) /\ Sorted(g, UpTo(S, s[i]))
  BY SortedFront
<1>2. DOMAIN f = 1 .. i /\ DOMAIN g = 1 .. k
  OBVIOUS
<1> HIDE DEF f, g
<1>3. f = g
  BY <1>1, SortedOnce
<1>4. 1 .. i = 1 .. k /\ i \in Nat /\ k \in Nat
  <2>1. Len(s) \in Nat /\ Len(t) \in Nat
    BY SortedHas
  <2> QED BY <1>2, <1>3, <2>1
<1> QED BY <1>4

(* The fields of the form for an enumeration of open inputs.               *)
FieldsOf(ns, s) == [i \in 1 .. Len(s) |-> NameIn(ns, s[i])]
Names(ns) == {NameIn(ns, a) : a \in Pair}

LEMMA FieldsAre ==
  ASSUME NEW ns, NEW s \in Seq(Pair)
  PROVE  /\ FieldsOf(ns, s) \in Seq(Names(ns)) /\ Len(FieldsOf(ns, s)) = Len(s)
         /\ DOMAIN FieldsOf(ns, s) = 1 .. Len(s)
         /\ \A i \in 1 .. Len(s) : FieldsOf(ns, s)[i] = NameIn(ns, s[i])
<1>1. Len(s) \in Nat /\ \A i \in 1 .. Len(s) : NameIn(ns, s[i]) \in Names(ns)
  BY DEF Names
<1> QED BY <1>1 DEF FieldsOf

LEMMA FieldsRemoved ==
  ASSUME NEW ns, NEW s \in Seq(Pair), NEW i \in 1 .. Len(s)
  PROVE  RemoveAt(FieldsOf(ns, s), i) = FieldsOf(ns, RemoveAt(s, i))
<1> DEFINE f == FieldsOf(ns, s)
           r == RemoveAt(s, i)
           g == FieldsOf(ns, r)
           h == RemoveAt(f, i)
           N == Names(ns)
<1>1. /\ f \in Seq(N) /\ Len(f) = Len(s)
      /\ \A j \in 1 .. Len(s) : f[j] = NameIn(ns, s[j])
  BY FieldsAre
<1>2. /\ r \in Seq(Pair) /\ Len(r) = Len(s) - 1
      /\ \A w \in 1 .. Len(s) - 1 : r[w] = s[Up(i, w)]
  BY RemoveAtIs
<1>3. \A w \in 1 .. Len(s) - 1 : Up(i, w) \in 1 .. Len(s)
  BY DownUp
<1> HIDE DEF f, r, N
<1>4. /\ g \in Seq(N) /\ Len(g) = Len(r)
      /\ \A j \in 1 .. Len(r) : g[j] = NameIn(ns, r[j])
  BY <1>2, FieldsAre DEF N
<1>5. /\ h \in Seq(N) /\ Len(h) = Len(f) - 1
      /\ \A w \in 1 .. Len(f) - 1 : h[w] = f[Up(i, w)]
  BY <1>1, RemoveAtIs
<1> HIDE DEF g, h
<1>6. h = g
  BY <1>1, <1>2, <1>3, <1>4, <1>5, SMTT(30)
<1> QED BY <1>6 DEF f, r, g, h

LEMMA PositionIs ==
  ASSUME NEW s \in Seq(Pair), NEW a \in ToSet(s)
  PROVE  PositionIn(s, a) \in 1 .. Len(s) /\ s[PositionIn(s, a)] = a
<1>1. \E i \in DOMAIN s : s[i] = a
  BY DEF ToSet
<1> QED BY <1>1 DEF PositionIn

LEMMA TakeField ==
  ASSUME NEW ns, NEW s, NEW S, Sorted(s, S), NEW t, NEW T, Sorted(t, T), NEW r,
         NEW a \in T, a \in S, UpTo(S, a) = UpTo(T, a), Sorted(r, T \ {a})
  PROVE  removeField(FieldsOf(ns, t), PositionIn(s, a)) = FieldsOf(ns, r)
<1> DEFINE i == PositionIn(s, a)
<1>1. s \in Seq(Pair) /\ t \in Seq(Pair) /\ a \in ToSet(s)
  BY DEF Sorted
<1>2. i \in 1 .. Len(s) /\ s[i] = a
  BY <1>1, PositionIs
<1> HIDE DEF i
<1>3. PICK k \in 1 .. Len(t) : t[k] = a
  BY SortedHas
<1>4. i = k
  BY <1>2, <1>3, SamePlace
<1>5. Sorted(RemoveAt(t, k), T \ {a})
  BY <1>3, RemoveSorted
<1>6. RemoveAt(t, k) = r
  BY <1>5, SortedOnce
<1>7. k \in DOMAIN FieldsOf(ns, t)
  BY <1>1, <1>3, FieldsAre
<1>8. removeField(FieldsOf(ns, t), i) = RemoveAt(FieldsOf(ns, t), k)
  BY <1>4, <1>7 DEF removeField
<1> QED BY <1>1, <1>3, <1>6, <1>8, FieldsRemoved DEF i

LEMMA PutField ==
  ASSUME NEW ns, NEW s, NEW S, Sorted(s, S), NEW a, a \notin S, NEW t, Sorted(t, S \cup {a})
  PROVE  insertField(FieldsOf(ns, s), PositionIn(t, a), NameIn(ns, a)) = FieldsOf(ns, t)
<1> DEFINE i == PositionIn(t, a)
           N == Names(ns)
           f == FieldsOf(ns, t)
           e == NameIn(ns, a)
<1>1. t \in Seq(Pair) /\ a \in ToSet(t)
  BY DEF Sorted
<1>2. i \in 1 .. Len(t) /\ t[i] = a
  BY <1>1, PositionIs
<1> HIDE DEF i
<1>3. Sorted(RemoveAt(t, i), S)
  <2>1. Sorted(RemoveAt(t, i), (S \cup {a}) \ {a})
    BY <1>2, RemoveSorted
  <2>2. (S \cup {a}) \ {a} = S
    OBVIOUS
  <2> QED BY <2>1, <2>2
<1>4. RemoveAt(t, i) = s
  BY <1>3, SortedOnce
<1>5. FieldsOf(ns, s) = RemoveAt(f, i)
  BY <1>1, <1>2, <1>4, FieldsRemoved
<1>6. f \in Seq(N) /\ i \in 1 .. Len(f) /\ f[i] = e
  BY <1>1, <1>2, FieldsAre
<1> HIDE DEF f, N, e
<1>7. i \in 1 .. Len(RemoveAt(f, i)) + 1 /\ InsertAt(RemoveAt(f, i), i, f[i]) = f
  BY <1>6, InsertRemoved
<1>8. RemoveAt(f, i) \in Seq(N)
  BY <1>6, RemoveAtIs
<1>9. i # 0 /\ ~(i > Len(RemoveAt(f, i)) + 1)
  BY <1>7, <1>8
<1>10. insertField(RemoveAt(f, i), i, e) = f
  BY <1>6, <1>7, <1>9 DEF insertField
<1> QED BY <1>5, <1>10 DEF i, f, e

-----------------------------------------------------------------------------
(* The pins come in ascending order.                                       *)

LEMMA Largest ==
  ASSUME NEW S \in SUBSET Nat, IsFiniteSet(S), S # {}
  PROVE  \E x \in S : \A y \in S : x >= y
<1>1. PICK n \in Nat : ExistsBijection(1 .. n, S)
  BY FS_NatBijection
<1>2. PICK f \in Bijection(1 .. n, S) : TRUE
  BY <1>1 DEF ExistsBijection
<1>3. f \in [1 .. n -> S] /\ \A y \in S : \E i \in 1 .. n : f[i] = y
  BY <1>2 DEF Bijection, Injection, Surjection
<1>4. n # 0
  <2>1. PICK y \in S : TRUE
    OBVIOUS
  <2> QED BY <2>1, <1>3
<1> DEFINE Kept == {i \in 0 .. n : i = 0 \/ \E k \in 1 .. i : \A j \in 1 .. i : f[k] >= f[j]}
<1>5. ASSUME NEW i \in 1 .. n, i - 1 \in Kept PROVE i \in Kept
  <2>1. /\ i \in 0 .. n /\ i \in 1 .. i /\ \A j \in 1 .. i : j = i \/ j \in 1 .. i - 1
    OBVIOUS
  <2>0. ASSUME NEW j \in 1 .. i PROVE f[j] \in Nat
    <3>1. j \in 1 .. n
      OBVIOUS
    <3> QED BY <3>1, <1>3
  <2>2. CASE i = 1
    <3>1. \A j \in 1 .. i : f[i] >= f[j]
      BY <2>0, <2>1, <2>2
    <3> QED BY <2>1, <3>1
  <2>3. CASE i # 1
    <3>1. PICK k \in 1 .. i - 1 : \A j \in 1 .. i - 1 : f[k] >= f[j]
      BY <1>5, <2>3
    <3>2. k \in 1 .. i
      OBVIOUS
    <3>3. CASE f[k] >= f[i]
      BY <2>1, <3>1, <3>2, <3>3
    <3>4. CASE ~(f[k] >= f[i])
      <4>1. \A j \in 1 .. i : f[i] >= f[j]
        <5>1. ASSUME NEW j \in 1 .. i PROVE f[i] >= f[j]
          <6>1. f[j] \in Nat /\ f[i] \in Nat /\ f[k] \in Nat
            BY <2>0, <2>1, <3>2
          <6>2. j = i \/ f[k] >= f[j]
            BY <2>1, <3>1
          <6> QED BY <6>1, <6>2, <3>4
        <5> QED BY <5>1
      <4> QED BY <2>1, <4>1
    <3> QED BY <3>3, <3>4
  <2> QED BY <2>2, <2>3
<1>6. Kept = 0 .. n
  <2>1. Kept \in SUBSET (0 .. n) /\ 0 \in Kept
    OBVIOUS
  <2> HIDE DEF Kept
  <2> QED BY <2>1, <1>5, RecursionKeeps
<1>7. PICK k \in 1 .. n : \A j \in 1 .. n : f[k] >= f[j]
  <2>1. n \in 0 .. n
    OBVIOUS
  <2>2. n \in Kept
    <3> HIDE DEF Kept
    <3> QED BY <1>6, <2>1
  <2> QED BY <1>4, <2>2
<1>8. \A y \in S : f[k] >= y
  BY <1>3, <1>7
<1> QED BY <1>3, <1>8

LEMMA WidthIs ==
  Width \in Nat /\ \A o \in Operations : Inputs[o] \in Nat /\ Inputs[o] <= Width
<1> DEFINE T == {Inputs[o] : o \in Operations}
           S == {0} \cup T
<1>1. S \in SUBSET Nat /\ S # {}
  BY SizesAssumption
<1>2. IsFiniteSet(S)
  <2>1. IsFiniteSet(T)
    <3> DEFINE f == [o \in Operations |-> Inputs[o]]
    <3>1. f \in Surjection(Operations, T)
      BY DEF Surjection
    <3> HIDE DEF f, T
    <3> QED BY <3>1, SizesAssumption, FS_Surjection
  <2> HIDE DEF T
  <2>2. IsFiniteSet({0})
    BY FS_Singleton
  <2> QED BY <2>1, <2>2, FS_Union
<1>3. Width = CHOOSE x \in S : \A y \in S : x >= y
  BY DEF Width, Max
<1> HIDE DEF S
<1>4. \E x \in S : \A y \in S : x >= y
  BY <1>1, <1>2, Largest
<1>5. Width \in S /\ \A y \in S : Width >= y
  BY <1>3, <1>4
<1>6. \A o \in Operations : Inputs[o] \in S
  BY DEF S
<1> QED BY <1>1, <1>5, <1>6

AllPins == (1 .. MaxIds) \X (1 .. Width)

LEMMA Rows ==
  ASSUME NEW m \in Nat \ {0}, NEW q \in Nat, NEW p \in Nat, q < p
  PROVE  m * q + m <= m * p
OBVIOUS

LEMMA Divided ==
  ASSUME NEW m \in Nat \ {0}, NEW q \in Nat, NEW r \in 0 .. m - 1, NEW a, a = m * q + r
  PROVE  a \in Nat /\ a \div m = q /\ a % m = r
OBVIOUS

LEMMA Divides ==
  ASSUME NEW m \in Nat \ {0}, NEW a \in Nat
  PROVE  \E q \in Nat, r \in 0 .. m - 1 : a = m * q + r
<1> DEFINE q == a \div m
           r == a % m
<1>1. q \in Int /\ r \in 0 .. m - 1 /\ a = m * q + r
  OBVIOUS
<1> HIDE DEF q, r
<1>2. q >= 0
  <2> SUFFICES ASSUME q <= -1 PROVE FALSE
    BY <1>1
  <2>1. m * q <= m * (-1) /\ m * q \in Int
    BY <1>1
  <2> QED BY <1>1, <2>1
<1> QED BY <1>1, <1>2

PinAt(i) == <<((i - 1) \div Width) + 1, ((i - 1) % Width) + 1>>

(* The place of a pin among all of them.                                   *)
LEMMA PinAtIs ==
  ASSUME Width # 0, NEW i \in Nat \ {0}
  PROVE  \E q \in Nat, r \in 0 .. Width - 1 :
            /\ i = Width * q + r + 1 /\ Width * q \in Nat
            /\ PinAt(i) = <<q + 1, r + 1>>
<1>1. Width \in Nat \ {0} /\ i - 1 \in Nat
  BY WidthIs
<1> DEFINE a == i - 1
<1> HIDE DEF a
<1>2. PICK q \in Nat, r \in 0 .. Width - 1 : a = Width * q + r
  BY <1>1, Divides DEF a
<1>3. a \div Width = q /\ a % Width = r
  BY <1>1, <1>2, Divided
<1>4. Width * q \in Nat
  BY <1>1
<1>5. i = Width * q + r + 1
  BY <1>1, <1>2, <1>4 DEF a
<1> QED BY <1>3, <1>4, <1>5 DEF PinAt, a

LEMMA PinAtRises ==
  ASSUME Width # 0, NEW i \in Nat \ {0}, NEW j \in Nat \ {0}, i < j
  PROVE  Before(PinAt(i), PinAt(j))
<1>1. Width \in Nat \ {0}
  BY WidthIs
<1>2. PICK q \in Nat, r \in 0 .. Width - 1 :
            /\ i = Width * q + r + 1 /\ Width * q \in Nat
            /\ PinAt(i) = <<q + 1, r + 1>>
  BY PinAtIs
<1>3. PICK p \in Nat, t \in 0 .. Width - 1 :
            /\ j = Width * p + t + 1 /\ Width * p \in Nat
            /\ PinAt(j) = <<p + 1, t + 1>>
  BY PinAtIs
<1> DEFINE a == Width * q
           b == Width * p
<1>4. a \in Nat /\ b \in Nat /\ (q = p => a = b) /\ i = a + r + 1 /\ j = b + t + 1
  BY <1>2, <1>3
<1>5. p < q => b + Width <= a
  BY <1>1, Rows
<1> HIDE DEF a, b
<1>6. ~(p < q)
  BY <1>1, <1>4, <1>5
<1>7. q = p => r < t
  BY <1>1, <1>4
<1> QED BY <1>2, <1>3, <1>6, <1>7 DEF Before

LEMMA PinsSorted == Sorted(Pins, AllPins)
<1> DEFINE N == MaxIds * Width
<1>1. Width \in Nat /\ MaxIds \in Nat
  BY WidthIs, SizesAssumption
<1>2. N \in Nat /\ (Width = 0 => N = 0) /\ N = Width * MaxIds
  BY <1>1
<1>3. Pins = [i \in 1 .. N |-> PinAt(i)]
  BY DEF Pins, PinAt
<1> HIDE DEF N
<1>4. ASSUME NEW i \in 1 .. N PROVE PinAt(i) \in AllPins /\ Width # 0 /\ i \in Nat \ {0}
  <2>1. Width # 0 /\ i \in Nat \ {0} /\ i <= N
    BY <1>2
  <2>2. PICK q \in Nat, r \in 0 .. Width - 1 :
            /\ i = Width * q + r + 1 /\ Width * q \in Nat
            /\ PinAt(i) = <<q + 1, r + 1>>
    BY <2>1, PinAtIs
  <2> DEFINE a == Width * q
             b == Width * MaxIds
  <2>3. a \in Nat /\ i = a + r + 1 /\ b = N /\ N \in Nat
    BY <1>2, <2>2
  <2>4. (MaxIds < q => b + Width <= a) /\ (MaxIds = q => b = a)
    BY <1>1, <2>1, Rows
  <2> HIDE DEF a, b
  <2>5. q < MaxIds
    BY <1>1, <2>1, <2>3, <2>4
  <2>6. q + 1 \in 1 .. MaxIds /\ r + 1 \in 1 .. Width
    BY <1>1, <2>5
  <2> QED BY <2>1, <2>2, <2>6 DEF AllPins
<1>5. \A a \in AllPins : a \in Pair
  BY <1>1 DEF AllPins, Pair
<1>6. /\ Pins \in Seq(Pair) /\ Len(Pins) = N /\ DOMAIN Pins = 1 .. N
      /\ \A i \in 1 .. N : Pins[i] = PinAt(i)
  BY <1>2, <1>3, <1>4, <1>5
<1>7. Rising(Pins)
  BY <1>4, <1>6, PinAtRises DEF Rising
<1>8. ASSUME NEW a \in ToSet(Pins) PROVE a \in AllPins
  BY <1>4, <1>6 DEF ToSet
<1>9. ASSUME NEW a \in AllPins PROVE a \in ToSet(Pins)
  <2>1. /\ a = <<a[1], a[2]>> /\ a[1] \in 1 .. MaxIds /\ a[2] \in 1 .. Width
        /\ Width \in Nat \ {0}
    BY <1>1 DEF AllPins
  <2> DEFINE q == a[1] - 1
             r == a[2] - 1
             c == Width * q
             b == Width * MaxIds
             i == c + r + 1
  <2>2. q \in Nat /\ q < MaxIds /\ r \in 0 .. Width - 1 /\ q + 1 = a[1] /\ r + 1 = a[2]
    BY <1>1, <2>1
  <2> HIDE DEF q, r
  <2>3. c \in Nat /\ b = N /\ N \in Nat /\ c + Width <= b
    BY <1>1, <1>2, <2>1, <2>2, Rows
  <2>4. c + r \in Nat /\ (c + r) \div Width = q /\ (c + r) % Width = r
    BY <2>1, <2>2, <2>3, Divided
  <2> HIDE DEF c, b
  <2>5. i \in 1 .. N /\ i - 1 = c + r
    BY <2>1, <2>2, <2>3
  <2> HIDE DEF i
  <2>6. PinAt(i) = <<q + 1, r + 1>>
    BY <2>4, <2>5 DEF PinAt
  <2>7. Pins[i] = a
    BY <1>6, <2>1, <2>2, <2>5, <2>6
  <2> QED BY <2>5, <2>7, <1>6 DEF ToSet
<1> QED BY <1>6, <1>7, <1>8, <1>9 DEF Sorted

(* What is picked from an enumeration is one.                              *)
LEMMA AmongSorted ==
  ASSUME NEW s, NEW S, Sorted(s, S), NEW es
  PROVE  Sorted(Among(s, es), S \cap es)
<1> DEFINE r == Among(s, es)
<1>1. s \in Seq(Pair) /\ ToSet(s) = S /\ Rising(s)
  BY DEF Sorted
<1>2. r \in Seq(Pair) /\ ToSet(r) = S \cap es
  BY <1>1, AmongElements
<1>3. PICK h : Picked(r, h, s, es, Len(s))
  BY <1>1, AmongIs
<1> HIDE DEF r
<1>4. /\ \A k \in 1 .. Len(r) : h[k] \in 1 .. Len(s) /\ r[k] = s[h[k]]
      /\ \A k, l \in 1 .. Len(r) : k < l => h[k] < h[l]
  BY <1>3 DEF Picked
<1>5. Rising(r)
  BY <1>1, <1>4 DEF Rising
<1> QED BY <1>2, <1>5 DEF Sorted, r

Ordered(S) == Among(Pins, S)

LEMMA OrderedIs ==
  ASSUME NEW S \in SUBSET AllPins
  PROVE  Sorted(Ordered(S), S)
<1>1. Sorted(Ordered(S), AllPins \cap S)
  BY PinsSorted, AmongSorted DEF Ordered
<1>2. AllPins \cap S = S
  OBVIOUS
<1> QED BY <1>1, <1>2

-----------------------------------------------------------------------------
(* A list of changes, followed by what the form is after each of them.     *)
Follows(g, N, f, changes) ==
    g[0] = f /\ \A i \in 1 .. N : g[i] = changed(g[i - 1], changes[i])

LEMMA AppliedFollows ==
  ASSUME NEW f, NEW changes, Len(changes) \in Nat, NEW g, Follows(g, Len(changes), f, changes)
  PROVE  applied(f, changes) = g[Len(changes)]
<1> DEFINE N == Len(changes)
           Eq(F) == F = [i \in 0 .. N |-> IF i = 0 THEN f ELSE changed(F[i - 1], changes[i])]
           upTo == CHOOSE F : Eq(F)
<1>1. applied(f, changes) = upTo[N]
  BY DEF applied
<1>2. Eq([i \in 0 .. N |-> g[i]])
  <2> DEFINE h == [i \in 0 .. N |-> g[i]]
  <2>1. ASSUME NEW i \in 0 .. N
        PROVE  g[i] = IF i = 0 THEN f ELSE changed(h[i - 1], changes[i])
    <3>1. CASE i = 0
      BY <3>1 DEF Follows
    <3>2. CASE i # 0
      <4>1. i \in 1 .. N /\ i - 1 \in 0 .. N
        BY <3>2
      <4>2. h[i - 1] = g[i - 1]
        BY <4>1
      <4>3. g[i] = changed(g[i - 1], changes[i])
        BY <4>1 DEF Follows
      <4> QED BY <3>2, <4>2, <4>3
    <3> QED BY <3>1, <3>2
  <2> QED BY <2>1, Zenon
<1>3. Eq(upTo)
  <2> HIDE DEF Eq
  <2> QED BY <1>2
<1>4. upTo = [i \in 0 .. N |-> IF i = 0 THEN f ELSE changed(upTo[i - 1], changes[i])]
  BY <1>3
<1> HIDE DEF upTo
<1> DEFINE Kept == {i \in 0 .. N : upTo[i] = g[i]}
<1>5. upTo[0] = f /\ \A i \in 1 .. N : upTo[i] = changed(upTo[i - 1], changes[i])
  <2>1. \A i \in 0 .. N : upTo[i] = IF i = 0 THEN f ELSE changed(upTo[i - 1], changes[i])
    BY <1>4
  <2>2. 0 \in 0 .. N /\ \A i \in 1 .. N : i \in 0 .. N /\ i # 0
    OBVIOUS
  <2> QED BY <2>1, <2>2
<1>6. 0 \in Kept
  BY <1>5 DEF Follows
<1>7. ASSUME NEW i \in 1 .. N, i - 1 \in Kept PROVE i \in Kept
  <2>1. upTo[i - 1] = g[i - 1] /\ i \in 0 .. N
    BY <1>7
  <2>2. g[i] = changed(g[i - 1], changes[i])
    BY DEF Follows
  <2> QED BY <1>5, <2>1, <2>2
<1>8. Kept = 0 .. N
  <2>1. Kept \in SUBSET (0 .. N) /\ N \in Nat
    OBVIOUS
  <2> HIDE DEF Kept, N
  <2> QED BY <1>6, <1>7, <2>1, RecursionKeeps
<1>9. upTo[N] = g[N]
  <2>1. N \in 0 .. N
    OBVIOUS
  <2> QED BY <1>8, <2>1
<1> QED BY <1>1, <1>9

Keeps(changes, T) == \A i \in 1 .. Len(changes) : \A t \in T : changed(t, changes[i]) \in T

LEMMA AppliedTyped ==
  ASSUME NEW T, NEW f \in T, NEW changes, Len(changes) \in Nat, Keeps(changes, T)
  PROVE  applied(f, changes) \in T
<1> DEFINE N == Len(changes)
           step == [i \in 1 .. N |-> [t \in T |-> changed(t, changes[i])]]
<1>1. step \in [1 .. N -> [T -> T]]
  BY DEF Keeps
<1>2. PICK g \in [0 .. N -> T] : Recursive(g, N, f, step)
  <2> HIDE DEF step
  <2> QED BY <1>1, Recursion
<1>3. Follows(g, N, f, changes)
  <2>1. ASSUME NEW i \in 1 .. N PROVE g[i] = changed(g[i - 1], changes[i])
    <3>1. g[i - 1] \in T
      BY <1>2
    <3>2. g[i] = step[i][g[i - 1]]
      BY <1>2 DEF Recursive
    <3> QED BY <3>1, <3>2
  <2> QED BY <2>1, <1>2 DEF Follows, Recursive
<1>4. applied(f, changes) = g[N]
  BY <1>3, AppliedFollows
<1>5. g[N] \in T
  BY <1>2
<1> QED BY <1>4, <1>5

LEMMA ChangedIs ==
  ASSUME NEW f, NEW i, NEW field
  PROVE  /\ changed(f, insertion(i, field)) = insertField(f, i, field)
         /\ changed(f, removal(i)) = removeField(f, i)
BY DEF changed, insertion, removal

-----------------------------------------------------------------------------
(* Open inputs and their fields.                                           *)

OpenPins(as) == {a \in DOMAIN as : as[a] = Open}

LEMMA OpenInserted ==
  ASSUME NEW as, NEW ins
  PROVE  OpenPins(insert(as, ins, Open)) = OpenPins(as) \cup ins
BY DEF OpenPins, insert

LEMMA OpenFieldsAre ==
  ASSUME NEW ns, NEW as, OpenPins(as) \subseteq AllPins
  PROVE  OpenFields(ns, as) = FieldsOf(ns, Ordered(OpenPins(as)))
<1> DEFINE s == Ordered(OpenPins(as))
<1>1. openInputs(as) = s
  BY DEF openInputs, Ordered, OpenPins
<1>2. s \in Seq(Pair)
  BY OrderedIs DEF Sorted
<1> HIDE DEF s
<1>3. OpenFields(ns, as) = [i \in DOMAIN s |-> <<ns[s[i][1]].id, s[i][2]>>]
  BY <1>1 DEF OpenFields
<1>4. DOMAIN s = 1 .. Len(s)
  BY <1>2
<1> QED BY <1>3, <1>4 DEF FieldsOf, NameIn, s

LEMMA IndexIs ==
  ASSUME NEW as, NEW a
  PROVE  getWorkflowParameterIndex(as, a) = PositionIn(Ordered(OpenPins(as)), a)
BY DEF getWorkflowParameterIndex, openInputs, Ordered, OpenPins

LEMMA FieldsSame ==
  ASSUME NEW ns, NEW ms, NEW S, NEW s, Sorted(s, S), \A a \in S : NameIn(ns, a) = NameIn(ms, a)
  PROVE  FieldsOf(ns, s) = FieldsOf(ms, s)
<1>1. \A i \in 1 .. Len(s) : NameIn(ns, s[i]) = NameIn(ms, s[i])
  BY SortedHas
<1> QED BY <1>1 DEF FieldsOf

(* A field goes with its input, and comes with it.                         *)
LEMMA TakeOpen ==
  ASSUME NEW ns, NEW S \in SUBSET AllPins, NEW a \in S
  PROVE  removeField(FieldsOf(ns, Ordered(S)), PositionIn(Ordered(S), a))
            = FieldsOf(ns, Ordered(S \ {a}))
<1>1. Sorted(Ordered(S), S) /\ Sorted(Ordered(S \ {a}), S \ {a})
  BY OrderedIs
<1> QED BY <1>1, TakeField

LEMMA PutOpen ==
  ASSUME NEW ns, NEW S \in SUBSET AllPins, NEW a \in AllPins, a \notin S
  PROVE  insertField(FieldsOf(ns, Ordered(S)), PositionIn(Ordered(S \cup {a}), a), NameIn(ns, a))
            = FieldsOf(ns, Ordered(S \cup {a}))
<1>1. Sorted(Ordered(S), S) /\ Sorted(Ordered(S \cup {a}), S \cup {a})
  BY OrderedIs
<1> QED BY <1>1, PutField

-----------------------------------------------------------------------------
(* The edits.  No vertex stands behind the number of those ever added.     *)
RoomInv == GraphInv /\ Len(nodes) < nextId

LEMMA PinsThere ==
  ASSUME NEW ns \in Seq(Node), Len(ns) <= MaxIds
  PROVE  PinsOf(ns) \subseteq AllPins
<1>1. ASSUME NEW a \in PinsOf(ns) PROVE a \in AllPins
  <2>1. a[1] \in 1 .. Len(ns) /\ a[2] \in 1 .. Inputs[ns[a[1]].op] /\ a = <<a[1], a[2]>>
    BY PinOfVertex
  <2>2. ns[a[1]].op \in Operations
    <3>1. ns[a[1]] \in Node
      BY <2>1
    <3> QED BY <3>1 DEF Node
  <2>3. /\ Inputs[ns[a[1]].op] \in Nat /\ Inputs[ns[a[1]].op] <= Width
        /\ Width \in Nat /\ MaxIds \in Nat /\ Len(ns) \in Nat
    BY <2>2, WidthIs, SizesAssumption
  <2>4. a[1] \in 1 .. MaxIds /\ a[2] \in 1 .. Width
    BY <2>1, <2>3
  <2> QED BY <2>1, <2>4 DEF AllPins
<1> QED BY <1>1

LEMMA RoomGives ==
  ASSUME RoomInv
  PROVE  /\ Len(nodes) \in Nat /\ Len(nodes) <= MaxIds
         /\ PinsOf(nodes) \subseteq AllPins /\ OpenPins(assigned) \subseteq PinsOf(nodes)
         /\ OpenPins(assigned) \subseteq AllPins
         /\ OpenFields(nodes, assigned) = FieldsOf(nodes, Ordered(OpenPins(assigned)))
<1>1. nodes \in Seq(Node) /\ DOMAIN assigned \subseteq PinsOf(nodes) /\ nextId \in 1 .. MaxIds + 1
  BY InvGives DEF RoomInv
<1>2. Len(nodes) \in Nat /\ Len(nodes) <= MaxIds
  BY <1>1, SizesAssumption DEF RoomInv
<1>3. PinsOf(nodes) \subseteq AllPins
  BY <1>1, <1>2, PinsThere
<1>4. OpenPins(assigned) \subseteq PinsOf(nodes)
  BY <1>1 DEF OpenPins
<1>5. OpenPins(assigned) \subseteq AllPins
  BY <1>3, <1>4
<1> QED BY <1>2, <1>3, <1>4, <1>5, OpenFieldsAre

LEMMA AddFollows ==
  ASSUME RoomInv, form = OpenFields(nodes, assigned), NEW o \in Operations, addOperation(o)
  PROVE  form' = OpenFields(nodes', assigned')
<1> DEFINE L == Len(nodes)
           n == [op |-> o, id |-> nextId]
           ms == Append(nodes, n)
           S == OpenPins(assigned)
           N == Inputs[o]
           new(p) == {<<L + 1, q>> : q \in 1 .. p}
           g == [p \in 0 .. N |-> FieldsOf(ms, Ordered(S \cup new(p)))]
           field(p) == insertion(getWorkflowParameterIndex(withOpen(p), <<L + 1, p>>), <<nextId, p>>)
           changes == [p \in 1 .. N |-> field(p)]
<1>1. /\ nodes' = ms /\ nextId \in 1 .. MaxIds /\ assigned' = withOpen(N)
      /\ form' = applied(form, changes)
  <2>1. nextId \in 1 .. MaxIds
    BY InvGives, SizesAssumption DEF addOperation, RoomInv
  <2> QED BY <2>1 DEF addOperation, withInputsOf
<1>2. /\ L \in Nat /\ S \subseteq PinsOf(nodes) /\ S \subseteq AllPins
      /\ form = FieldsOf(nodes, Ordered(S))
  BY RoomGives
<1>3. N \in Nat /\ N <= Width /\ Width \in Nat
  BY WidthIs
<1>4. L + 1 \in 1 .. MaxIds /\ nodes \in Seq(Node)
  BY <1>1, <1>2, InvGives, SizesAssumption DEF RoomInv
<1>5. n \in Node
  BY <1>1 DEF Node
<1>6. ms \in Seq(Node) /\ ms[L + 1] = n /\ \A v \in 1 .. L : ms[v] = nodes[v]
  BY <1>2, <1>4, <1>5
<1>7. \A p \in 0 .. N : OpenPins(withOpen(p)) = S \cup new(p)
  BY OpenInserted DEF withOpen
<1>8. \A p \in 1 .. N : <<L + 1, p>> \in AllPins
  BY <1>3, <1>4 DEF AllPins
<1>9. \A p \in 0 .. N : S \cup new(p) \subseteq AllPins
  BY <1>2, <1>3, <1>8
<1>10. \A a \in S : NameIn(nodes, a) = NameIn(ms, a) /\ a[1] # L + 1
  <2>1. ASSUME NEW a \in S PROVE a[1] \in 1 .. L
    BY <1>2, <1>4, PinOfVertex
  <2> HIDE DEF S, ms, L
  <2> QED BY <2>1, <1>2, <1>6 DEF NameIn
<1> HIDE DEF ms
<1>11. g[0] = form
  <2>1. Sorted(Ordered(S), S)
    BY <1>2, OrderedIs
  <2>2. S \cup new(0) = S
    OBVIOUS
  <2> HIDE DEF S, new
  <2>3. FieldsOf(nodes, Ordered(S)) = FieldsOf(ms, Ordered(S))
    BY <2>1, <1>10, FieldsSame
  <2>4. 0 \in 0 .. N
    BY <1>3
  <2> QED BY <2>2, <2>3, <2>4, <1>2
<1>12. ASSUME NEW p \in 1 .. N PROVE g[p] = changed(g[p - 1], changes[p])
  <2> DEFINE a == <<L + 1, p>>
             R == S \cup new(p - 1)
  <2>1. p - 1 \in 0 .. N /\ p \in 0 .. N
    BY <1>3
  <2>2. S \cup new(p) = R \cup {a}
    <3>1. \A q \in Nat : q \in 1 .. p <=> q \in 1 .. p - 1 \/ q = p
      BY <2>1, <1>3
    <3>2. \A b : b \in new(p) <=> b \in new(p - 1) \/ b = a
      BY <3>1
    <3> HIDE DEF new, a, S
    <3> QED BY <3>2
  <2>3. a \notin R
    <3>1. a \notin new(p - 1)
      BY <2>1, <1>3
    <3>2. a \notin S
      BY <1>10
    <3> QED BY <3>1, <3>2
  <2>4. R \subseteq AllPins /\ a \in AllPins
    BY <1>8, <1>9, <2>1
  <2>5. NameIn(ms, a) = <<nextId, p>>
    BY <1>6 DEF NameIn
  <2>6. changes[p] = insertion(PositionIn(Ordered(R \cup {a}), a), NameIn(ms, a))
    BY <1>7, <2>1, <2>2, <2>5, IndexIs
  <2>7. g[p - 1] = FieldsOf(ms, Ordered(R)) /\ g[p] = FieldsOf(ms, Ordered(R \cup {a}))
    BY <2>1, <2>2
  <2> HIDE DEF a, R, g, changes
  <2> QED BY <2>3, <2>4, <2>6, <2>7, PutOpen, ChangedIs
<1>13. applied(form, changes) = g[N]
  <2>1. Len(changes) = N
    BY <1>3
  <2> HIDE DEF g, changes, N
  <2>2. Follows(g, N, form, changes)
    BY <1>11, <1>12 DEF Follows
  <2> QED BY <2>1, <2>2, <1>3, AppliedFollows
<1>14. g[N] = FieldsOf(ms, Ordered(OpenPins(assigned')))
  BY <1>1, <1>3, <1>7
<1>15. OpenPins(assigned') \subseteq AllPins
  BY <1>1, <1>3, <1>7, <1>9
<1> QED BY <1>1, <1>13, <1>14, <1>15, OpenFieldsAre

LEMMA AssignFollows ==
  ASSUME RoomInv, form = OpenFields(nodes, assigned),
         NEW a \in DOMAIN assigned, NEW value, assignConstantInputData(a[1], a[2], value)
  PROVE  form' = OpenFields(nodes', assigned')
<1> DEFINE S == OpenPins(assigned)
<1>1. a = <<a[1], a[2]>> /\ a \in AllPins
  BY InvGives, RoomGives, PinIsPair DEF RoomInv
<1>2. /\ S \subseteq AllPins /\ form = FieldsOf(nodes, Ordered(S))
  BY RoomGives
<1>3. /\ assigned[a] # value /\ nodes' = nodes
      /\ assigned' = [assigned EXCEPT ![a] = value]
      /\ form' = IF assigned[a] = Open
                 THEN removeField(form, getWorkflowParameterIndex(assigned, a))
                 ELSE IF value = Open
                 THEN insertField(form, getWorkflowParameterIndex(assigned', a), NameIn(nodes, a))
                 ELSE form
  BY <1>1 DEF assignConstantInputData, NameIn
<1>4. OpenPins(assigned') = IF value = Open THEN S \cup {a} ELSE S \ {a}
  BY <1>3 DEF OpenPins
<1>5. OpenPins(assigned') \subseteq AllPins
  BY <1>1, <1>2, <1>4
<1>6. a \in S <=> assigned[a] = Open
  BY DEF OpenPins
<1>7. form' = FieldsOf(nodes, Ordered(OpenPins(assigned')))
  <2>1. CASE assigned[a] = Open
    <3>1. OpenPins(assigned') = S \ {a}
      BY <2>1, <1>3, <1>4
    <3>2. form' = removeField(form, PositionIn(Ordered(S), a))
      BY <2>1, <1>3, IndexIs
    <3> HIDE DEF S
    <3> QED BY <3>1, <3>2, <2>1, <1>2, <1>6, TakeOpen
  <2>2. CASE assigned[a] # Open /\ value = Open
    <3>1. OpenPins(assigned') = S \cup {a}
      BY <2>2, <1>4
    <3>2. form' = insertField(form, PositionIn(Ordered(S \cup {a}), a), NameIn(nodes, a))
      BY <2>2, <3>1, <1>3, IndexIs
    <3> HIDE DEF S
    <3> QED BY <3>1, <3>2, <2>2, <1>1, <1>2, <1>6, PutOpen
  <2>3. CASE assigned[a] # Open /\ value # Open
    <3>1. OpenPins(assigned') = S
      BY <2>3, <1>4, <1>6
    <3> QED BY <2>3, <3>1, <1>2, <1>3
  <2> QED BY <2>1, <2>2, <2>3
<1> QED BY <1>3, <1>5, <1>7, OpenFieldsAre

LEMMA FlowFollows ==
  ASSUME RoomInv, form = OpenFields(nodes, assigned),
         NEW v \in Vertices, NEW w \in Vertices,
         NEW out \in 1 .. Outputs[nodes[v].op], NEW in \in 1 .. Inputs[nodes[w].op],
         addFlow([from |-> v, out |-> out, to |-> w, in |-> in])
  PROVE  form' = OpenFields(nodes', assigned')
<1> DEFINE e == [from |-> v, out |-> out, to |-> w, in |-> in]
           S == OpenPins(assigned)
           a == Target(e)
<1>1. /\ ~hasValueDefined(w, in)
      /\ form' = removeField(form, getWorkflowParameterIndex(assigned, a))
      /\ assigned' = remove(assigned, {a}) /\ nodes' = nodes
  BY DEF addFlow, Target
<1>2. a \in DOMAIN assigned /\ assigned[a] = Open
  BY <1>1, DrawnFits DEF RoomInv
<1> HIDE DEF a
<1>3. a \in S /\ OpenPins(assigned') = S \ {a}
  BY <1>1, <1>2 DEF OpenPins, remove
<1>4. S \subseteq AllPins /\ form = FieldsOf(nodes, Ordered(S))
  BY RoomGives
<1>5. form' = removeField(form, PositionIn(Ordered(S), a))
  BY <1>1, IndexIs
<1>6. OpenPins(assigned') \subseteq AllPins
  BY <1>3, <1>4
<1> HIDE DEF S
<1>7. form' = FieldsOf(nodes, Ordered(OpenPins(assigned')))
  BY <1>3, <1>4, <1>5, TakeOpen
<1> QED BY <1>1, <1>6, <1>7, OpenFieldsAre

(* Flows that go leave different inputs open.                              *)
LEMMA TargetsApart ==
  ASSUME NEW ns, NEW fs, NEW entries, Sound(ns, fs, entries), NEW gone
  PROVE  /\ Among(fs, gone) \in Seq(Flow)
         /\ \A i \in 1 .. Len(Among(fs, gone)) :
               /\ Target(Among(fs, gone)[i]) \in PinsOf(ns) \ entries
               /\ \A j \in 1 .. Len(Among(fs, gone)) :
                     Target(Among(fs, gone)[i]) = Target(Among(fs, gone)[j]) => i = j
<1> DEFINE es == Among(fs, gone)
<1>1. fs \in Seq(Flow) /\ ns \in Seq(Node)
  BY DEF Sound
<1>2. es \in Seq(Flow)
  BY <1>1, AmongElements
<1>3. PICK h : Picked(es, h, fs, gone, Len(fs))
  BY <1>1, AmongIs
<1> HIDE DEF es
<1>4. \A k \in 1 .. Len(es) : h[k] \in 1 .. Len(fs) /\ es[k] = fs[h[k]]
  BY <1>3 DEF Picked
<1>5. \A k, l \in 1 .. Len(es) : h[k] = h[l] => k = l
  BY <1>1, <1>2, <1>3, PickedOnce
<1>6. ASSUME NEW i \in 1 .. Len(es) PROVE Target(es[i]) \in PinsOf(ns) \ entries
  <2>1. Fits(ns, es[i]) /\ Target(es[i]) \notin entries
    BY <1>4 DEF Sound
  <2> QED BY <2>1, <1>1, PinIs DEF Fits, Target
<1>7. ASSUME NEW i \in 1 .. Len(es), NEW j \in 1 .. Len(es), Target(es[i]) = Target(es[j])
      PROVE  i = j
  <2>1. h[i] = h[j]
    BY <1>4, <1>7, SMTT(30) DEF Sound
  <2> QED BY <2>1, <1>5
<1> QED BY <1>2, <1>6, <1>7 DEF es

LEMMA UnflowFollows ==
  ASSUME RoomInv, form = OpenFields(nodes, assigned),
         NEW from, NEW to, NEW out, NEW in, deleteFlow(from, to, out, in)
  PROVE  form' = OpenFields(nodes', assigned')
<1> DEFINE gone == {e \in ToSet(flows) : /\ e.from = from /\ nodes[e.to].op = nodes[to].op
                                        /\ e.out = out /\ e.in = in}
           es == Among(flows, gone)
           N == Len(es)
           S == OpenPins(assigned)
           led(i) == {Target(es[j]) : j \in 1 .. i}
           left(i) == removeOperationFlow(assigned, {es[j] : j \in 1 .. i})
           field(i) == insertion(getWorkflowParameterIndex(left(i), <<es[i].to, es[i].in>>),
                                 <<nodes[es[i].to].id, es[i].in>>)
           changes == [i \in 1 .. N |-> field(i)]
           g == [i \in 0 .. N |-> FieldsOf(nodes, Ordered(S \cup led(i)))]
<1>1. /\ nodes' = nodes /\ assigned' = removeOperationFlow(assigned, gone)
      /\ form' = applied(form, changes)
  BY Zenon DEF deleteFlow, withTargetsOf
<1>2. /\ S \subseteq AllPins /\ form = FieldsOf(nodes, Ordered(S)) /\ PinsOf(nodes) \subseteq AllPins
  BY RoomGives
<1>3. Sound(nodes, flows, DOMAIN assigned) /\ flows \in Seq(Flow)
  BY InvGives DEF RoomInv, GraphInv
<1>4. ToSet(es) = gone
  <2>1. ToSet(es) = ToSet(flows) \cap gone
    BY <1>3, AmongElements
  <2> QED BY <2>1
<1> HIDE DEF gone
<1>5. /\ es \in Seq(Flow)
      /\ \A i \in 1 .. N : Target(es[i]) \in PinsOf(nodes) \ DOMAIN assigned
      /\ \A i, j \in 1 .. N : Target(es[i]) = Target(es[j]) => i = j
  BY <1>3, TargetsApart
<1> HIDE DEF es
<1>6. N \in Nat
  BY <1>5
<1>7. \A i \in 0 .. N : OpenPins(left(i)) = S \cup led(i)
  <2>1. ASSUME NEW i \in 0 .. N PROVE OpenPins(left(i)) = S \cup led(i)
    <3>1. Targets({es[j] : j \in 1 .. i}) = led(i)
      BY DEF Targets, Target
    <3> HIDE DEF led
    <3> QED BY <3>1, OpenInserted DEF removeOperationFlow
  <2> QED BY <2>1
<1>8. OpenPins(assigned') = S \cup led(N)
  <2>1. gone = {es[j] : j \in 1 .. N}
    BY <1>4, <1>5 DEF ToSet
  <2>2. assigned' = left(N)
    BY <2>1, <1>1
  <2>3. N \in 0 .. N
    BY <1>6
  <2> HIDE DEF left, led, S
  <2> QED BY <2>2, <2>3, <1>7
<1>9. \A i \in 0 .. N : S \cup led(i) \subseteq AllPins
  <2>1. \A i \in 0 .. N : \A j \in 1 .. i : j \in 1 .. N
    BY <1>6
  <2> QED BY <2>1, <1>2, <1>5
<1>10. g[0] = form
  <2>1. S \cup led(0) = S
    OBVIOUS
  <2>2. 0 \in 0 .. N
    BY <1>6
  <2> HIDE DEF S, led
  <2> QED BY <2>1, <2>2, <1>2
<1>11. ASSUME NEW i \in 1 .. N PROVE g[i] = changed(g[i - 1], changes[i])
  <2> DEFINE a == Target(es[i])
             R == S \cup led(i - 1)
  <2>1. i - 1 \in 0 .. N /\ i \in 0 .. N
    BY <1>6
  <2>2. S \cup led(i) = R \cup {a}
    <3>1. \A q \in Nat : q \in 1 .. i <=> q \in 1 .. i - 1 \/ q = i
      BY <2>1, <1>6
    <3>2. \A b : b \in led(i) <=> b \in led(i - 1) \/ b = a
      BY <3>1
    <3> HIDE DEF led, a, S
    <3> QED BY <3>2
  <2>3. a \notin R
    <3>1. a \notin led(i - 1)
      <4>1. \A j \in 1 .. i - 1 : j \in 1 .. N /\ j # i
        BY <2>1, <1>6
      <4> QED BY <4>1, <1>5
    <3>2. a \notin S
      BY <1>5 DEF OpenPins
    <3> QED BY <3>1, <3>2
  <2>4. R \subseteq AllPins /\ a \in AllPins
    BY <1>2, <1>5, <1>9, <2>1
  <2>5. changes[i] = insertion(PositionIn(Ordered(R \cup {a}), a), NameIn(nodes, a))
    <3>1. OpenPins(left(i)) = R \cup {a}
      BY <1>7, <2>1, <2>2
    <3>2. a = <<es[i].to, es[i].in>> /\ NameIn(nodes, a) = <<nodes[es[i].to].id, es[i].in>>
      BY DEF Target, NameIn
    <3> HIDE DEF a, R, left
    <3> QED BY <3>1, <3>2, IndexIs
  <2>6. g[i - 1] = FieldsOf(nodes, Ordered(R)) /\ g[i] = FieldsOf(nodes, Ordered(R \cup {a}))
    BY <2>1, <2>2
  <2> HIDE DEF a, R, g, changes
  <2> QED BY <2>3, <2>4, <2>5, <2>6, PutOpen, ChangedIs
<1>12. applied(form, changes) = g[N]
  <2>1. Len(changes) = N
    BY <1>6
  <2> HIDE DEF g, changes, N
  <2>2. Follows(g, N, form, changes)
    BY <1>10, <1>11 DEF Follows
  <2> QED BY <2>1, <2>2, <1>6, AppliedFollows
<1>13. g[N] = FieldsOf(nodes, Ordered(OpenPins(assigned')))
  BY <1>6, <1>8
<1>14. OpenPins(assigned') \subseteq AllPins
  BY <1>6, <1>8, <1>9
<1> QED BY <1>1, <1>12, <1>13, <1>14, OpenFieldsAre

(* When as many flows are left as there were, none has gone.               *)
LEMMA AllLeft ==
  ASSUME NEW E, NEW fs \in Seq(E), NEW es, Len(Among(fs, es)) = Len(fs), NEW i \in 1 .. Len(fs)
  PROVE  fs[i] \in es
<1> SUFFICES ASSUME fs[i] \notin es PROVE FALSE
  OBVIOUS
<1> DEFINE r == Among(fs, es)
           n == Len(fs)
           D == 1 .. n
<1>1. r \in Seq(E)
  BY AmongIs
<1>2. PICK h : Picked(r, h, fs, es, n)
  BY AmongIs
<1> HIDE DEF r
<1>3. Len(r) = n
  BY DEF r
<1>4. \A k, l \in D : h[k] = h[l] => k = l
  BY <1>1, <1>2, <1>3, PickedOnce
<1>5. h \in [D -> D \ {i}]
  BY <1>2, <1>3 DEF Picked
<1>6. h \in Injection(D, D \ {i})
  BY <1>4, <1>5 DEF Injection, IsInjective
<1>7. n \in Nat /\ IsFiniteSet(D) /\ Cardinality(D) = n /\ i \in D
  <2>1. n \in Nat /\ i \in D /\ ~(1 > n) /\ n - 1 + 1 = n
    OBVIOUS
  <2> HIDE DEF n
  <2>2. 1 \in Int /\ n \in Int
    BY <2>1
  <2>3. IsFiniteSet(D) /\ Cardinality(D) = IF 1 > n THEN 0 ELSE n - 1 + 1
    BY <2>2, FS_Interval, Zenon
  <2> QED BY <2>1, <2>3
<1> HIDE DEF D
<1>8. IsFiniteSet(D \ {i}) /\ Cardinality(D \ {i}) = n - 1
  BY <1>7, FS_RemoveElement
<1>9. Cardinality(D) <= Cardinality(D \ {i})
  BY <1>6, <1>8, FS_Injection
<1> QED BY <1>7, <1>8, <1>9

LEMMA LoweredOrder ==
  ASSUME NEW v \in Nat, NEW a \in Pair, NEW b \in Pair, a[1] # v, b[1] # v, Before(a, b)
  PROVE  Before(KeyAfter(v, a), KeyAfter(v, b))
<1>1. a[1] \in Nat /\ a[2] \in Nat /\ b[1] \in Nat /\ b[2] \in Nat
  BY DEF Pair
<1>2. a[1] < b[1] => Down(v, a[1]) < Down(v, b[1])
  BY <1>1 DEF Down
<1> QED BY <1>2 DEF KeyAfter, Before

(* The form without the fields of a vertex, which are removed from the     *)
(* last to the first: the index of each is that in the whole form.         *)
LEMMA OwnFieldsGo ==
  ASSUME NEW as, OpenPins(as) \subseteq AllPins, NEW v,
         form = FieldsOf(nodes, Ordered(OpenPins(as)))
  PROVE  withoutInputsOf(v, as) = FieldsOf(nodes, Ordered({a \in OpenPins(as) : a[1] # v}))
<1> DEFINE S == OpenPins(as)
           own == Among(openInputs(as), {a \in DOMAIN as : a[1] = v})
           N == Len(own)
           field(a) == removal(getWorkflowParameterIndex(as, a))
           changes == [i \in 1 .. N |-> field(own[N - i + 1])]
           last(i) == {own[j] : j \in N - i + 1 .. N}
           g == [i \in 0 .. N |-> FieldsOf(nodes, Ordered(S \ last(i)))]
           Of == {a \in S : a[1] = v}
<1>1. withoutInputsOf(v, as) = applied(form, changes)
  BY DEF withoutInputsOf
<1>2. Sorted(own, Of)
  <2>1. openInputs(as) = Ordered(S)
    BY DEF openInputs, Ordered, OpenPins
  <2>2. Sorted(Ordered(S), S)
    BY OrderedIs
  <2>3. Sorted(own, S \cap {a \in DOMAIN as : a[1] = v})
    BY <2>1, <2>2, AmongSorted
  <2>4. S \cap {a \in DOMAIN as : a[1] = v} = Of
    BY DEF OpenPins
  <2> QED BY <2>3, <2>4
<1> HIDE DEF own
<1>3. N \in Nat /\ \A i \in 1 .. N : own[i] \in Of /\ own[i] \in Pair
  BY <1>2, SortedHas
<1>4. \A a \in Of : \E i \in 1 .. N : own[i] = a
  BY <1>2, SortedHas
<1>5. \A i, j \in 1 .. N : (own[i] = own[j] => i = j) /\ (Before(own[i], own[j]) <=> i < j)
  BY <1>2, SortedPlace
<1>6. g[0] = form
  <2>1. last(0) = {} /\ 0 \in 0 .. N
    BY <1>3
  <2>2. S \ last(0) = S
    BY <2>1
  <2> HIDE DEF last
  <2> QED BY <2>1, <2>2
<1>7. ASSUME NEW i \in 1 .. N PROVE g[i] = changed(g[i - 1], changes[i])
  <2> DEFINE k == N - i + 1
             a == own[k]
             T == S \ last(i - 1)
  <2>1. k \in 1 .. N /\ i - 1 \in 0 .. N /\ i \in 0 .. N /\ N - (i - 1) + 1 = k + 1
    BY <1>3
  <2>2. a \in S
    BY <2>1, <1>3
  <2>3. \A b : b \in last(i - 1) <=> \E j \in k + 1 .. N : b = own[j]
    BY <2>1
  <2>4. \A b : b \in last(i) <=> \E j \in k .. N : b = own[j]
    OBVIOUS
  <2>5. \A j \in k + 1 .. N : j \in 1 .. N /\ k < j /\ j # k
    BY <2>1, <1>3
  <2>6. \A j : j \in k .. N <=> j \in k + 1 .. N \/ j = k
    BY <2>1, <1>3
  <2> HIDE DEF k, last
  <2>7. a \in T
    <3>1. ASSUME NEW j \in k + 1 .. N, own[k] = own[j] PROVE FALSE
      BY <2>1, <2>5, <3>1, <1>5
    <3>2. a \notin last(i - 1)
      BY <2>3, <3>1
    <3> QED BY <2>2, <3>2
  <2>8. T \ {a} = S \ last(i)
    <3>1. \A b : b \in last(i) <=> b \in last(i - 1) \/ b = a
      BY <2>3, <2>4, <2>6
    <3> QED BY <3>1
  <2>9. UpTo(S, a) = UpTo(T, a)
    <3>1. ASSUME NEW b \in last(i - 1) PROVE ~(b = a \/ Before(b, a))
      <4>1. PICK j \in k + 1 .. N : b = own[j]
        BY <2>3
      <4>2. j \in 1 .. N /\ j # k /\ k < j
        BY <2>5
      <4>3. Before(a, b) /\ b # a /\ a \in Pair /\ b \in Pair
        BY <4>1, <4>2, <2>1, <1>3, <1>5
      <4> QED BY <4>3, BeforeOrder
    <3> QED BY <3>1 DEF UpTo
  <2>10. changes[i] = removal(PositionIn(Ordered(S), a))
    BY IndexIs DEF k
  <2>11. g[i - 1] = FieldsOf(nodes, Ordered(T)) /\ g[i] = FieldsOf(nodes, Ordered(T \ {a}))
    BY <2>1, <2>8
  <2>12. /\ Sorted(Ordered(S), S) /\ Sorted(Ordered(T), T) /\ Sorted(Ordered(T \ {a}), T \ {a})
    BY OrderedIs
  <2> HIDE DEF S, T, a, g, changes
  <2>13. removeField(g[i - 1], PositionIn(Ordered(S), a)) = g[i]
    BY <2>2, <2>7, <2>9, <2>11, <2>12, TakeField
  <2> QED BY <2>10, <2>13, ChangedIs
<1>8. applied(form, changes) = g[N]
  <2>1. Len(changes) = N
    BY <1>3
  <2> HIDE DEF g, changes, N
  <2>2. Follows(g, N, form, changes)
    BY <1>6, <1>7 DEF Follows
  <2> QED BY <2>1, <2>2, <1>3, AppliedFollows
<1>9. S \ last(N) = {a \in S : a[1] # v}
  <2>1. N - N + 1 = 1
    BY <1>3
  <2>2. \A a : a \in last(N) <=> a \in Of
    BY <2>1, <1>3, <1>4
  <2> HIDE DEF last
  <2> QED BY <2>2
<1>10. N \in 0 .. N
  BY <1>3
<1> HIDE DEF last
<1> QED BY <1>1, <1>8, <1>9, <1>10

(* The vertices behind it are renumbered: the form is the same.            *)
LEMMA FieldsRenumbered ==
  ASSUME NEW ns \in Seq(Node), Len(ns) <= MaxIds, NEW v \in 1 .. Len(ns),
         NEW T \in SUBSET PinsOf(ns), \A a \in T : a[1] # v
  PROVE  /\ {KeyAfter(v, a) : a \in T} \subseteq AllPins
         /\ FieldsOf(RemoveAt(ns, v), Ordered({KeyAfter(v, a) : a \in T})) = FieldsOf(ns, Ordered(T))
<1> DEFINE ms == RemoveAt(ns, v)
           U == {KeyAfter(v, a) : a \in T}
           t == Ordered(T)
           r == [i \in 1 .. Len(t) |-> KeyAfter(v, t[i])]
<1>1. /\ Len(ns) \in Nat /\ v \in Nat
      /\ \A w \in 1 .. Len(ns) - 1 : ms[w] = ns[Up(v, w)]
      /\ \A w \in 1 .. Len(ns) : w # v => Down(v, w) \in 1 .. Len(ns) - 1 /\ Up(v, Down(v, w)) = w
  BY RemoveAtIs, DownUp
<1>2. ASSUME NEW a \in T
      PROVE  /\ a \in AllPins /\ a \in Pair /\ a[1] \in 1 .. Len(ns)
             /\ a = <<a[1], a[2]>>
             /\ KeyAfter(v, a) \in AllPins
             /\ NameIn(ms, KeyAfter(v, a)) = NameIn(ns, a)
  <2>1. a \in AllPins /\ a \in Pair /\ a[1] \in 1 .. Len(ns) /\ a = <<a[1], a[2]>>
    BY PinsThere, PinOfVertex DEF PinsOf, Pair
  <2>2. Down(v, a[1]) \in 1 .. Len(ns) - 1 /\ Up(v, Down(v, a[1])) = a[1]
    BY <2>1, <1>1
  <2>3. ms[Down(v, a[1])] = ns[a[1]]
    BY <2>2, <1>1
  <2> HIDE DEF ms
  <2>4. NameIn(ms, KeyAfter(v, a)) = NameIn(ns, a)
    BY <2>3 DEF NameIn, KeyAfter
  <2>5. Down(v, a[1]) \in 1 .. MaxIds /\ a[2] \in 1 .. Width
    BY <2>1, <2>2, <1>1, SizesAssumption DEF AllPins
  <2>6. KeyAfter(v, a) \in AllPins
    BY <2>5 DEF KeyAfter, AllPins
  <2> QED BY <2>1, <2>4, <2>6
<1>3. T \subseteq AllPins /\ U \subseteq AllPins
  BY <1>2
<1>4. Sorted(t, T)
  BY <1>3, OrderedIs
<1> HIDE DEF t
<1>5. /\ t \in Seq(Pair) /\ Len(t) \in Nat
      /\ \A i \in 1 .. Len(t) : t[i] \in T
      /\ \A a \in T : \E i \in 1 .. Len(t) : t[i] = a
  BY <1>4, SortedHas
<1>6. \A a \in AllPins : a \in Pair
  BY WidthIs, SizesAssumption DEF AllPins, Pair
<1>7. /\ r \in Seq(Pair) /\ Len(r) = Len(t) /\ DOMAIN r = 1 .. Len(t)
      /\ \A i \in 1 .. Len(t) : r[i] = KeyAfter(v, t[i])
  BY <1>2, <1>5, <1>6
<1> HIDE DEF r
<1>8. Rising(r)
  <2> SUFFICES ASSUME NEW i \in 1 .. Len(t), NEW j \in 1 .. Len(t), i < j
               PROVE  Before(r[i], r[j])
    BY <1>7 DEF Rising
  <2>1. Before(t[i], t[j])
    BY <1>4 DEF Sorted, Rising
  <2>2. t[i] \in Pair /\ t[j] \in Pair /\ t[i][1] # v /\ t[j][1] # v
    BY <1>2, <1>5
  <2>3. Before(KeyAfter(v, t[i]), KeyAfter(v, t[j]))
    BY <2>1, <2>2, <1>1, LoweredOrder
  <2> QED BY <2>3, <1>7
<1>9. ToSet(r) = U
  <2>1. ASSUME NEW b \in ToSet(r) PROVE b \in U
    BY <1>5, <1>7 DEF ToSet
  <2>2. ASSUME NEW b \in U PROVE b \in ToSet(r)
    <3>1. PICK a \in T : b = KeyAfter(v, a)
      OBVIOUS
    <3>2. PICK i \in 1 .. Len(t) : t[i] = a
      BY <1>5
    <3>3. r[i] = b /\ i \in DOMAIN r
      BY <3>1, <3>2, <1>7
    <3> QED BY <3>3 DEF ToSet
  <2> QED BY <2>1, <2>2
<1>10. Sorted(r, U)
  BY <1>7, <1>8, <1>9 DEF Sorted
<1>11. Ordered(U) = r
  <2>1. Sorted(Ordered(U), U)
    BY <1>3, OrderedIs
  <2> QED BY <2>1, <1>10, SortedOnce
<1>12. FieldsOf(ms, r) = FieldsOf(ns, t)
  <2>1. \A i \in 1 .. Len(t) : NameIn(ms, r[i]) = NameIn(ns, t[i])
    BY <1>2, <1>5, <1>7
  <2> HIDE DEF ms
  <2> QED BY <2>1, <1>7 DEF FieldsOf
<1> QED BY <1>3, <1>11, <1>12 DEF t

LEMMA DeleteFollows ==
  ASSUME RoomInv, form = OpenFields(nodes, assigned),
         NEW v \in Vertices, deleteOperation(v), Len(nodes') < Len(nodes) => Len(flows') = Len(flows)
  PROVE  form' = OpenFields(nodes', assigned')
<1> DEFINE gone == {e \in ToSet(flows) : v \in {e.from, e.to}}
           left == Among(flows, ToSet(flows) \ gone)
           as == removeOperationFlow(assigned, gone)
           S == OpenPins(assigned)
           T == {a \in S : a[1] # v}
<1>1. /\ form' = withoutInputsOf(v, as)
      /\ nodes' = RemoveAt(nodes, v)
      /\ flows' = Moved(left, v)
      /\ assigned' = removeAllInputAssignments(as, v)
  BY DEF deleteOperation, Moved, Down
<1>2. nodes \in Seq(Node) /\ v \in 1 .. Len(nodes) /\ flows \in Seq(Flow)
  BY InvGives DEF RoomInv, Vertices
<1>3. left \in Seq(Flow)
  BY <1>2, AmongElements
<1>4. Len(left) = Len(flows)
  <2>1. Len(nodes') < Len(nodes)
    BY <1>1, <1>2, RemoveAtIs
  <2>2. Len(flows') = Len(left)
    <3>1. flows' \in Seq(Flow)
      BY DeleteKeeps DEF RoomInv, GraphInv, Sound
    <3> HIDE DEF left
    <3>2. DOMAIN flows' = DOMAIN left
      BY <1>1 DEF Moved
    <3>3. 1 .. Len(flows') = 1 .. Len(left) /\ Len(flows') \in Nat /\ Len(left) \in Nat
      BY <3>1, <3>2, <1>3
    <3> QED BY <3>3
  <2> QED BY <2>1, <2>2
<1>5. gone = {}
  <2> SUFFICES ASSUME NEW e \in gone PROVE FALSE
    OBVIOUS
  <2>1. PICK i \in 1 .. Len(flows) : flows[i] = e
    BY <1>2 DEF ToSet
  <2>2. flows[i] \in ToSet(flows) \ gone
    <3> HIDE DEF gone
    <3> QED BY <1>2, <1>4, AllLeft
  <2> QED BY <2>1, <2>2
<1>6. as = insert(assigned, {}, Open)
  <2>1. Targets({}) = {}
    BY DEF Targets
  <2> QED BY <2>1, <1>5 DEF removeOperationFlow
<1> HIDE DEF gone, as
<1>7. DOMAIN as = DOMAIN assigned /\ OpenPins(as) = S
  <2>1. OpenPins(as) = S \cup {}
    BY <1>6, OpenInserted
  <2>2. DOMAIN as = DOMAIN assigned \cup {}
    BY <1>6, InsertDomain
  <2> QED BY <2>1, <2>2
<1>8. /\ S \subseteq PinsOf(nodes) /\ S \subseteq AllPins /\ Len(nodes) <= MaxIds
      /\ form = FieldsOf(nodes, Ordered(S)) /\ DOMAIN as \subseteq PinsOf(nodes)
  BY <1>7, RoomGives, InvGives DEF RoomInv
<1>9. form' = FieldsOf(nodes, Ordered(T))
  BY <1>1, <1>7, <1>8, OwnFieldsGo
<1>10. OpenPins(assigned') = {KeyAfter(v, a) : a \in T}
  <2>1. \A a \in DOMAIN as : a = <<a[1], a[2]>>
    BY <1>8, PinIsPair
  <2>2. DOMAIN assigned' = {KeyAfter(v, a) : a \in {b \in DOMAIN as : b[1] # v}}
    BY <1>1, <2>1, RenumberDomain DEF Lowered
  <2>3. \A a \in DOMAIN as : a[1] # v => assigned'[KeyAfter(v, a)] = as[a]
    BY <1>1, <1>2, <1>8, RenumberSoundValue
  <2>4. \A a : a \in T <=> a \in DOMAIN as /\ a[1] # v /\ as[a] = Open
    BY <1>7 DEF OpenPins
  <2> HIDE DEF T
  <2>5. ASSUME NEW b \in OpenPins(assigned') PROVE b \in {KeyAfter(v, a) : a \in T}
    <3>1. PICK a \in DOMAIN as : a[1] # v /\ b = KeyAfter(v, a)
      BY <2>2 DEF OpenPins
    <3>2. as[a] = Open
      BY <3>1, <2>3 DEF OpenPins
    <3> QED BY <3>1, <3>2, <2>4
  <2>6. ASSUME NEW a \in T PROVE KeyAfter(v, a) \in OpenPins(assigned')
    BY <2>2, <2>3, <2>4 DEF OpenPins
  <2> QED BY <2>5, <2>6
<1>11. /\ T \subseteq PinsOf(nodes) /\ \A a \in T : a[1] # v
  BY <1>8
<1> HIDE DEF T
<1>12. /\ OpenPins(assigned') \subseteq AllPins
       /\ FieldsOf(nodes', Ordered(OpenPins(assigned'))) = form'
  BY <1>1, <1>2, <1>8, <1>9, <1>10, <1>11, FieldsRenumbered
<1> QED BY <1>12, OpenFieldsAre

LEMMA RoomInit == GInit => RoomInv
<1> SUFFICES ASSUME GInit PROVE RoomInv
  OBVIOUS
<1>1. Len(nodes) < nextId
  BY DEF GInit
<1> QED BY <1>1, GraphInit DEF RoomInv

LEMMA RoomStep == RoomInv /\ [Edit]_gvars => RoomInv'
<1> SUFFICES ASSUME RoomInv, [Edit]_gvars PROVE RoomInv'
  OBVIOUS
<1>1. GraphInv'
  BY GraphStep DEF RoomInv
<1>2. nodes \in Seq(Node) /\ Len(nodes) \in Nat /\ nextId \in Nat /\ Len(nodes) < nextId
  BY InvGives, SizesAssumption DEF RoomInv
<1>3. Len(nodes') < nextId'
  <2>1. ASSUME NEW o \in Operations, addOperation(o) PROVE Len(nodes') < nextId'
    BY <2>1, <1>2 DEF addOperation
  <2>2. ASSUME NEW v, NEW p, NEW value, assignConstantInputData(v, p, value)
        PROVE  Len(nodes') < nextId'
    BY <2>2, <1>2 DEF assignConstantInputData
  <2>3. ASSUME NEW e, addFlow(e) PROVE Len(nodes') < nextId'
    BY <2>3, <1>2 DEF addFlow
  <2>4. ASSUME NEW from, NEW to, NEW out, NEW in, deleteFlow(from, to, out, in)
        PROVE  Len(nodes') < nextId'
    BY <2>4, <1>2 DEF deleteFlow
  <2>5. ASSUME NEW v \in Vertices, deleteOperation(v) PROVE Len(nodes') < nextId'
    <3>1. nodes' = RemoveAt(nodes, v) /\ nextId' = nextId
      BY <2>5 DEF deleteOperation
    <3>0. v \in 1 .. Len(nodes)
      BY <1>2 DEF Vertices
    <3>2. Len(nodes') = Len(nodes) - 1
      BY <3>0, <3>1, <1>2, RemoveAtIs
    <3> QED BY <3>1, <3>2, <1>2
  <2>6. CASE UNCHANGED gvars
    BY <2>6, <1>2 DEF gvars
  <2> QED BY <2>1, <2>2, <2>3, <2>4, <2>5, <2>6 DEF Edit
<1> QED BY <1>1, <1>3 DEF RoomInv

LEMMA FormStep ==
  ASSUME RoomInv, Edit, form = OpenFields(nodes, assigned),
         Len(nodes') < Len(nodes) => Len(flows') = Len(flows)
  PROVE  form' = OpenFields(nodes', assigned')
<1>1. CASE \E o \in Operations : addOperation(o)
  BY <1>1, AddFollows
<1>2. CASE \E a \in DOMAIN assigned, value \in Values \cup {Open} :
              assignConstantInputData(a[1], a[2], value)
  BY <1>2, AssignFollows
<1>3. CASE \E v, w \in Vertices : \E out \in 1 .. Outputs[nodes[v].op], in \in 1 .. Inputs[nodes[w].op] :
              addFlow([from |-> v, out |-> out, to |-> w, in |-> in])
  BY <1>3, FlowFollows
<1>4. CASE \E i \in DOMAIN flows : LET e == flows[i] IN deleteFlow(e.from, e.to, e.out, e.in)
  BY <1>4, UnflowFollows
<1>5. CASE \E v \in Vertices : deleteOperation(v)
  BY <1>5, DeleteFollows
<1> QED BY <1>1, <1>2, <1>3, <1>4, <1>5 DEF Edit

(* The form follows the workflow: an edit keeps it in step, with a field   *)
(* for each open input, in their order, unless flows go with an operation. *)
THEOREM FormFollows == GSpec => ChangesAreExact
<1>1. GInit => RoomInv
  BY RoomInit
<1>2. RoomInv /\ [Edit]_gvars => RoomInv'
  BY RoomStep
<1> DEFINE Exact == (/\ form = OpenFields(nodes, assigned)
                     /\ Len(nodes') < Len(nodes) => Len(flows') = Len(flows))
                    => form' = OpenFields(nodes', assigned')
<1>3. RoomInv /\ [Edit]_gvars => [Exact]_gvars
  <2> SUFFICES ASSUME RoomInv, Edit PROVE Exact
    OBVIOUS
  <2> QED BY FormStep
<1>4. GSpec => [][Exact]_gvars
  <2> HIDE DEF Exact
  <2> QED BY <1>1, <1>2, <1>3, PTL DEF GSpec
<1> QED BY <1>4 DEF ChangesAreExact

-----------------------------------------------------------------------------
(* Types.                                                                  *)

Fields == (1 .. MaxIds) \X (1 .. Width)
TypedInv == /\ RoomInv
            /\ form \in Seq(Fields)
            /\ \A a \in DOMAIN assigned : assigned[a] \in Values \cup {Open}

LEMMA IndexIsNat ==
  ASSUME NEW as, NEW a
  PROVE  getWorkflowParameterIndex(as, a) \in Nat
<1> DEFINE s == Ordered(OpenPins(as))
<1>1. s \in Seq(Pair)
  BY PinsSorted, AmongElements DEF Sorted, Ordered
<1> HIDE DEF s
<1>2. PositionIn(s, a) \in Nat
  <2>1. CASE a \in ToSet(s)
    <3>1. PositionIn(s, a) \in 1 .. Len(s)
      BY <1>1, <2>1, PositionIs
    <3> QED BY <1>1, <3>1
  <2>2. CASE a \notin ToSet(s)
    BY <2>2 DEF PositionIn
  <2> QED BY <2>1, <2>2
<1> QED BY <1>2, IndexIs DEF s

LEMMA FieldTyped ==
  ASSUME NEW f \in Seq(Fields), NEW i
  PROVE  /\ removeField(f, i) \in Seq(Fields)
         /\ i \in Nat => \A field \in Fields : insertField(f, i, field) \in Seq(Fields)
<1>1. removeField(f, i) \in Seq(Fields)
  <2>1. CASE i \in DOMAIN f
    <3>1. i \in 1 .. Len(f)
      BY <2>1
    <3>2. RemoveAt(f, i) \in Seq(Fields)
      BY <3>1, RemoveAtIs
    <3> QED BY <2>1, <3>2 DEF removeField
  <2>2. CASE i \notin DOMAIN f
    BY <2>2 DEF removeField
  <2> QED BY <2>1, <2>2
<1>2. ASSUME i \in Nat, NEW field \in Fields PROVE insertField(f, i, field) \in Seq(Fields)
  <2>1. CASE i = 0 \/ i > Len(f) + 1
    BY <2>1 DEF insertField
  <2>2. CASE ~(i = 0 \/ i > Len(f) + 1)
    <3>1. i \in 1 .. Len(f) + 1
      BY <1>2, <2>2
    <3> HIDE DEF Fields
    <3>2. InsertAt(f, i, field) \in Seq(Fields)
      BY <3>1, InsertAtIs
    <3> QED BY <2>2, <3>2 DEF insertField
  <2> QED BY <2>1, <2>2
<1> QED BY <1>1, <1>2

LEMMA NodeFields ==
  ASSUME RoomInv, NEW a \in PinsOf(nodes)
  PROVE  NameIn(nodes, a) \in Fields
<1>1. /\ nodes \in Seq(Node) /\ a \in AllPins /\ a[1] \in 1 .. Len(nodes)
  BY InvGives, RoomGives, PinOfVertex DEF RoomInv
<1>2. nodes[a[1]].id \in 1 .. MaxIds
  <2>1. nodes[a[1]] \in Node
    BY <1>1
  <2> QED BY <2>1 DEF Node
<1> QED BY <1>1, <1>2 DEF NameIn, Fields, AllPins

LEMMA TypedInit == GInit => TypedInv
<1> SUFFICES ASSUME GInit PROVE TypedInv
  OBVIOUS
<1>1. form \in Seq(Fields) /\ \A a \in DOMAIN assigned : assigned[a] \in Values \cup {Open}
  BY DEF GInit
<1> QED BY <1>1, RoomInit DEF TypedInv

FormTyped == form \in Seq(Fields)
ValuesTyped(as) == \A a \in DOMAIN as : as[a] \in Values \cup {Open}

LEMMA AddTyped ==
  ASSUME RoomInv, FormTyped, ValuesTyped(assigned), NEW o \in Operations, addOperation(o)
  PROVE  FormTyped' /\ ValuesTyped(assigned')
<1> DEFINE N == Inputs[o]
           field(p) == insertion(getWorkflowParameterIndex(withOpen(p), <<Len(nodes) + 1, p>>), <<nextId, p>>)
           changes == [p \in 1 .. N |-> field(p)]
<1>1. /\ nextId \in 1 .. MaxIds /\ assigned' = withOpen(N)
      /\ form' = applied(form, changes)
  <2>1. nextId \in 1 .. MaxIds
    BY InvGives, SizesAssumption DEF addOperation, RoomInv
  <2> QED BY <2>1 DEF addOperation, withInputsOf
<1>2. N \in Nat /\ N <= Width /\ Width \in Nat
  BY WidthIs
<1>3. Len(changes) = N
  BY <1>2
<1>4. Keeps(changes, Seq(Fields))
  <2> SUFFICES ASSUME NEW p \in 1 .. N, NEW t \in Seq(Fields)
               PROVE  changed(t, changes[p]) \in Seq(Fields)
    BY <1>3 DEF Keeps
  <2>1. <<nextId, p>> \in Fields
    BY <1>1, <1>2 DEF Fields
  <2>2. changes[p] = field(p)
    OBVIOUS
  <2> QED BY <2>1, <2>2, IndexIsNat, ChangedIs, FieldTyped
<1>5. FormTyped'
  <2> HIDE DEF changes, N
  <2>1. Len(changes) \in Nat
    BY <1>2, <1>3
  <2> QED BY <1>1, <1>4, <2>1, AppliedTyped DEF FormTyped
<1>6. ValuesTyped(assigned')
  BY <1>1 DEF ValuesTyped, withOpen, insert
<1> QED BY <1>5, <1>6

LEMMA AssignTyped ==
  ASSUME RoomInv, FormTyped, ValuesTyped(assigned),
         NEW a \in DOMAIN assigned, NEW value \in Values \cup {Open},
         assignConstantInputData(a[1], a[2], value)
  PROVE  FormTyped' /\ ValuesTyped(assigned')
<1>1. a \in PinsOf(nodes) /\ a = <<a[1], a[2]>>
  BY InvGives, PinIsPair DEF RoomInv
<1>2. /\ assigned' = [assigned EXCEPT ![a] = value]
      /\ form' = IF assigned[a] = Open
                 THEN removeField(form, getWorkflowParameterIndex(assigned, a))
                 ELSE IF value = Open
                 THEN insertField(form, getWorkflowParameterIndex(assigned', a), NameIn(nodes, a))
                 ELSE form
  BY <1>1 DEF assignConstantInputData, NameIn
<1>3. FormTyped'
  BY <1>1, <1>2, NodeFields, IndexIsNat, FieldTyped DEF FormTyped
<1>4. ValuesTyped(assigned')
  BY <1>2 DEF ValuesTyped
<1> QED BY <1>3, <1>4

LEMMA FlowTyped ==
  ASSUME FormTyped, ValuesTyped(assigned), NEW e, addFlow(e)
  PROVE  FormTyped' /\ ValuesTyped(assigned')
<1>1. FormTyped'
  BY FieldTyped DEF FormTyped, addFlow
<1>2. ValuesTyped(assigned')
  BY DEF ValuesTyped, addFlow, remove
<1> QED BY <1>1, <1>2

LEMMA UnflowTyped ==
  ASSUME RoomInv, FormTyped, ValuesTyped(assigned),
         NEW from, NEW to, NEW out, NEW in, deleteFlow(from, to, out, in)
  PROVE  FormTyped' /\ ValuesTyped(assigned')
<1> DEFINE gone == {e \in ToSet(flows) : /\ e.from = from /\ nodes[e.to].op = nodes[to].op
                                        /\ e.out = out /\ e.in = in}
           es == Among(flows, gone)
           N == Len(es)
           left(i) == removeOperationFlow(assigned, {es[j] : j \in 1 .. i})
           field(i) == insertion(getWorkflowParameterIndex(left(i), <<es[i].to, es[i].in>>),
                                 <<nodes[es[i].to].id, es[i].in>>)
           changes == [i \in 1 .. N |-> field(i)]
<1>1. /\ assigned' = removeOperationFlow(assigned, gone)
      /\ form' = applied(form, changes)
  BY Zenon DEF deleteFlow, withTargetsOf
<1>2. Sound(nodes, flows, DOMAIN assigned)
  BY DEF RoomInv, GraphInv
<1> HIDE DEF gone
<1>3. /\ es \in Seq(Flow)
      /\ \A i \in 1 .. N : Target(es[i]) \in PinsOf(nodes)
  BY <1>2, TargetsApart
<1> HIDE DEF es
<1>4. N \in Nat /\ Len(changes) = N
  BY <1>3
<1>5. Keeps(changes, Seq(Fields))
  <2> SUFFICES ASSUME NEW i \in 1 .. N, NEW t \in Seq(Fields)
               PROVE  changed(t, changes[i]) \in Seq(Fields)
    BY <1>4 DEF Keeps
  <2>1. <<nodes[es[i].to].id, es[i].in>> \in Fields
    <3>1. NameIn(nodes, Target(es[i])) \in Fields
      BY <1>3, NodeFields
    <3> QED BY <3>1 DEF NameIn, Target
  <2>2. changes[i] = field(i)
    OBVIOUS
  <2> QED BY <2>1, <2>2, IndexIsNat, ChangedIs, FieldTyped
<1>6. FormTyped'
  <2> HIDE DEF changes, N
  <2>1. Len(changes) \in Nat
    BY <1>4
  <2> QED BY <1>1, <1>5, <2>1, AppliedTyped DEF FormTyped
<1>7. ValuesTyped(assigned')
  BY <1>1 DEF ValuesTyped, removeOperationFlow, insert
<1> QED BY <1>6, <1>7, Zenon

LEMMA DeleteTyped ==
  ASSUME RoomInv, FormTyped, ValuesTyped(assigned), NEW v \in Vertices, deleteOperation(v)
  PROVE  FormTyped' /\ ValuesTyped(assigned')
<1> DEFINE gone == {e \in ToSet(flows) : v \in {e.from, e.to}}
           as == removeOperationFlow(assigned, gone)
           own == Among(openInputs(as), {a \in DOMAIN as : a[1] = v})
           N == Len(own)
           field(a) == removal(getWorkflowParameterIndex(as, a))
           changes == [i \in 1 .. N |-> field(own[N - i + 1])]
<1>1. form' = applied(form, changes) /\ assigned' = removeAllInputAssignments(as, v)
  BY DEF deleteOperation, withoutInputsOf
<1>2. gone \in SUBSET ToSet(flows)
  OBVIOUS
<1> HIDE DEF gone
<1>3. ValuesTyped(as)
  BY DEF ValuesTyped, removeOperationFlow, insert
<1>4. DOMAIN as \subseteq PinsOf(nodes) /\ nodes \in Seq(Node) /\ v \in 1 .. Len(nodes)
  BY <1>2, RemovalSound, InvGives DEF RoomInv, Sound, Vertices
<1> HIDE DEF as
<1>5. ValuesTyped(assigned')
  <2> SUFFICES ASSUME NEW b \in DOMAIN assigned' PROVE assigned'[b] \in Values \cup {Open}
    BY DEF ValuesTyped
  <2>1. \A a \in DOMAIN as : a = <<a[1], a[2]>>
    BY <1>4, PinIsPair
  <2>2. DOMAIN assigned' = {KeyAfter(v, a) : a \in {c \in DOMAIN as : c[1] # v}}
    BY <1>1, <2>1, RenumberDomain DEF Lowered
  <2>3. PICK a \in DOMAIN as : a[1] # v /\ b = KeyAfter(v, a)
    BY <2>2
  <2>4. assigned'[b] = as[a]
    BY <1>1, <1>4, <2>3, RenumberSoundValue
  <2> QED BY <1>3, <2>4 DEF ValuesTyped
<1>6. own \in Seq(Pair)
  <2>1. openInputs(as) \in Seq(Pair)
    BY PinsSorted, AmongElements DEF Sorted, openInputs
  <2> QED BY <2>1, AmongElements
<1> HIDE DEF own
<1>7. N \in Nat /\ Len(changes) = N
  BY <1>6
<1>8. Keeps(changes, Seq(Fields))
  <2> SUFFICES ASSUME NEW i \in 1 .. N, NEW t \in Seq(Fields)
               PROVE  changed(t, changes[i]) \in Seq(Fields)
    BY <1>7 DEF Keeps
  <2>1. changes[i] = field(own[N - i + 1])
    OBVIOUS
  <2> QED BY <2>1, ChangedIs, FieldTyped
<1>9. FormTyped'
  <2> HIDE DEF changes, N
  <2>1. Len(changes) \in Nat
    BY <1>7
  <2> QED BY <1>1, <1>8, <2>1, AppliedTyped DEF FormTyped
<1> QED BY <1>5, <1>9

LEMMA TypedStep == TypedInv /\ [Edit]_gvars => TypedInv'
<1> SUFFICES ASSUME TypedInv, [Edit]_gvars PROVE TypedInv'
  OBVIOUS
<1>1. RoomInv /\ FormTyped /\ ValuesTyped(assigned)
  BY DEF TypedInv, FormTyped, ValuesTyped
<1>2. FormTyped' /\ ValuesTyped(assigned')
  <2>1. CASE \E o \in Operations : addOperation(o)
    BY <2>1, <1>1, AddTyped
  <2>2. CASE \E a \in DOMAIN assigned, value \in Values \cup {Open} :
                assignConstantInputData(a[1], a[2], value)
    BY <2>2, <1>1, AssignTyped
  <2>3. CASE \E v, w \in Vertices : \E out \in 1 .. Outputs[nodes[v].op], in \in 1 .. Inputs[nodes[w].op] :
                addFlow([from |-> v, out |-> out, to |-> w, in |-> in])
    BY <2>3, <1>1, FlowTyped
  <2>4. CASE \E i \in DOMAIN flows : LET e == flows[i] IN deleteFlow(e.from, e.to, e.out, e.in)
    BY <2>4, <1>1, UnflowTyped
  <2>5. CASE \E v \in Vertices : deleteOperation(v)
    BY <2>5, <1>1, DeleteTyped
  <2>6. CASE UNCHANGED gvars
    BY <2>6, <1>1 DEF gvars, FormTyped, ValuesTyped
  <2> QED BY <2>1, <2>2, <2>3, <2>4, <2>5, <2>6 DEF Edit
<1>3. RoomInv'
  BY <1>1, RoomStep
<1> QED BY <1>2, <1>3 DEF TypedInv, FormTyped, ValuesTyped

LEMMA TypedGives == TypedInv => TypeOK
<1> SUFFICES ASSUME TypedInv PROVE TypeOK
  OBVIOUS
<1>1. /\ nodes \in Seq(Node) /\ flows \in Seq(Flow) /\ DOMAIN nodes = 1 .. Len(nodes)
      /\ DOMAIN assigned \subseteq PinsOf(nodes) /\ nextId \in 1 .. MaxIds + 1
  BY InvGives DEF TypedInv, RoomInv
<1>2. ASSUME NEW a \in DOMAIN assigned PROVE a \in Vertices \X (1 .. Width)
  <2>1. a[1] \in 1 .. Len(nodes) /\ a = <<a[1], a[2]>>
    BY <1>1, PinOfVertex
  <2>2. a[2] \in 1 .. Width
    BY <1>1, RoomGives DEF TypedInv, AllPins
  <2> QED BY <2>1, <2>2, <1>1 DEF Vertices
<1>3. \A i \in DOMAIN flows : flows[i] \in Flow
  BY <1>1
<1>4. \A i \in DOMAIN form : form[i] \in (1 .. MaxIds) \X (1 .. Width)
  <2>1. form \in Seq(Fields)
    BY DEF TypedInv
  <2>2. \A i \in DOMAIN form : form[i] \in Fields
    BY <2>1
  <2> QED BY <2>2 DEF Fields
<1>5. nodes \in Seq([op : Operations, id : 1 .. MaxIds])
  BY <1>1 DEF Node
<1> QED BY <1>1, <1>2, <1>3, <1>4, <1>5 DEF TypeOK, TypedInv

(* The types: after any edits no assignment is kept for a vertex or a      *)
(* parameter that is not there, and the form has fields of instances only. *)
THEOREM GraphIsTyped == GSpec => []TypeOK
<1>1. GInit => TypedInv
  BY TypedInit
<1>2. TypedInv /\ [Edit]_gvars => TypedInv'
  BY TypedStep
<1>3. TypedInv => TypeOK
  BY TypedGives
<1> QED BY <1>1, <1>2, <1>3, PTL DEF GSpec

-----------------------------------------------------------------------------
(* Runs.  A path is the list of commands of a run, Nodes the nodes in it.  *)

Entry == [node : Vertices, found : Seq(Results)]
Follow == [Runs -> [Vertices -> Runs]]
Followed == [run : Runs, found : Seq(Results)]
Nodes(path) == {path[i].node : i \in 1 .. Len(path)}

(* Each node once, and after those that its flows come from.               *)
InOrder(path) ==
    /\ \A i, j \in 1 .. Len(path) : path[i].node = path[j].node => i = j
    /\ \A i \in 1 .. Len(path) : \A w \in Sources(path[i].node) :
          \E j \in 1 .. Len(path) : j < i /\ path[j].node = w

(* Sets of nodes with all those that their flows come from.                *)
Closed == {C \in SUBSET Vertices : \A v \in C : Sources(v) \subseteq C}

(* What following the flows back from v makes of the run r.                *)
Reached(r, s, v) ==
    /\ InOrder(s.calls)
    /\ v \in Nodes(s.calls) /\ Nodes(r.calls) \subseteq Nodes(s.calls)
    /\ \A C \in Closed : v \in C => Nodes(s.calls) \subseteq Nodes(r.calls) \cup C

LEMMA InFlows ==
  ASSUME GraphInv, NEW v \in Vertices
  PROVE  /\ InEdges(flows, v) \in Seq(Flow)
         /\ \A k \in 1 .. Len(InEdges(flows, v)) : InEdges(flows, v)[k].from \in Vertices
         /\ Sources(v) = {InEdges(flows, v)[k].from : k \in 1 .. Len(InEdges(flows, v))}
         /\ Sources(v) \subseteq Vertices
<1> DEFINE ins == InEdges(flows, v)
<1>1. flows \in Seq(Flow) /\ nodes \in Seq(Node)
      /\ \A i \in 1 .. Len(flows) : flows[i].from \in 1 .. Len(nodes)
  BY DEF GraphInv, Sound, Fits
<1>2. ins \in Seq(Flow) /\ ToSet(ins) = ToSet(flows) \cap {e \in ToSet(flows) : e.to = v}
  BY <1>1, AmongElements, Zenon DEF InEdges
<1>3. Vertices = 1 .. Len(nodes) /\ DOMAIN flows = 1 .. Len(flows) /\ DOMAIN ins = 1 .. Len(ins)
  BY <1>1, <1>2 DEF Vertices
<1> HIDE DEF ins
<1>4. ASSUME NEW k \in 1 .. Len(ins)
      PROVE  \E i \in 1 .. Len(flows) : flows[i] = ins[k] /\ flows[i].to = v
  <2>1. ins[k] \in ToSet(ins)
    BY <1>3 DEF ToSet
  <2> QED BY <2>1, <1>2, <1>3 DEF ToSet
<1>5. ASSUME NEW i \in 1 .. Len(flows), flows[i].to = v
      PROVE  \E k \in 1 .. Len(ins) : ins[k] = flows[i]
  <2>1. flows[i] \in ToSet(ins)
    BY <1>2, <1>3, <1>5 DEF ToSet
  <2> QED BY <2>1, <1>3 DEF ToSet
<1>6. Sources(v) = {flows[i].from : i \in {j \in 1 .. Len(flows) : flows[j].to = v}}
  BY <1>3 DEF Sources
<1>7. \A k \in 1 .. Len(ins) : ins[k].from \in Vertices
  BY <1>1, <1>3, <1>4
<1>8. Sources(v) = {ins[k].from : k \in 1 .. Len(ins)}
  <2>1. ASSUME NEW w \in Sources(v) PROVE w \in {ins[k].from : k \in 1 .. Len(ins)}
    BY <1>5, <1>6
  <2>2. ASSUME NEW k \in 1 .. Len(ins) PROVE ins[k].from \in Sources(v)
    <3>1. PICK i \in 1 .. Len(flows) : flows[i] = ins[k] /\ flows[i].to = v
      BY <1>4
    <3> QED BY <3>1, <1>6
  <2> QED BY <2>1, <2>2
<1> QED BY <1>2, <1>7, <1>8 DEF ins

(* The flows of a node are followed one after the other.                   *)
LEMMA FollowFlowsIs ==
  ASSUME GraphInv, NEW follow \in Follow, NEW r \in Runs, NEW v \in Vertices
  PROVE  LET ins == InEdges(flows, v)
         IN  \E f \in [0 .. Len(ins) -> Followed] :
               /\ f[0] = [run |-> [calls |-> r.calls, ctx |-> 0], found |-> <<>>]
               /\ \A k \in 1 .. Len(ins) :
                     /\ f[k].run = follow[f[k - 1].run][ins[k].from]
                     /\ f[k].found = Append(f[k - 1].found, f[k].run.ctx)
               /\ followFlows(follow, r, v) = f[Len(ins)]
<1> DEFINE ins == InEdges(flows, v)
           N == Len(ins)
           base == [run |-> [calls |-> r.calls, ctx |-> 0], found |-> <<>>]
           Next1(t, k) == [run |-> follow[t.run][ins[k].from],
                           found |-> Append(t.found, follow[t.run][ins[k].from].ctx)]
           step == [k \in 1 .. N |-> [t \in Followed |-> Next1(t, k)]]
           Eq(F) == F = [k \in 0 .. N |->
                           IF k = 0 THEN base
                           ELSE LET run == follow[F[k - 1].run][ins[k].from]
                                IN  [run |-> run, found |-> Append(F[k - 1].found, run.ctx)]]
           upTo == CHOOSE F : Eq(F)
<1>1. followFlows(follow, r, v) = upTo[N]
  BY DEF followFlows
<1>2. N \in Nat /\ \A k \in 1 .. N : ins[k].from \in Vertices
  BY InFlows
<1>3. base \in Followed
  BY DEF Followed, Runs, Results
<1>4. ASSUME NEW t \in Followed, NEW k \in 1 .. N PROVE Next1(t, k) \in Followed
  <2>1. t.run \in Runs /\ t.found \in Seq(Results) /\ ins[k].from \in Vertices
    BY <1>2, <1>4 DEF Followed
  <2>2. follow[t.run][ins[k].from] \in Runs
    BY <2>1 DEF Follow
  <2>3. follow[t.run][ins[k].from].ctx \in Results
    BY <2>2 DEF Runs
  <2> QED BY <2>1, <2>2, <2>3 DEF Followed
<1>5. step \in [1 .. N -> [Followed -> Followed]]
  <2> HIDE DEF Next1, N
  <2> QED BY <1>4
<1>6. PICK f \in [0 .. N -> Followed] : Recursive(f, N, base, step)
  <2> HIDE DEF N, base, step
  <2> QED BY <1>2, <1>3, <1>5, Recursion
<1>7. f[0] = base /\ \A k \in 1 .. N : f[k] = Next1(f[k - 1], k) /\ f[k - 1] \in Followed
  <2> HIDE DEF base, Next1, N
  <2>1. \A k \in 1 .. N : k - 1 \in 0 .. N
    BY <1>2
  <2> QED BY <2>1, <1>6 DEF Recursive
<1>8. Eq([k \in 0 .. N |-> f[k]])
  <2> DEFINE h == [k \in 0 .. N |-> f[k]]
  <2>1. ASSUME NEW k \in 0 .. N
        PROVE  f[k] = IF k = 0 THEN base ELSE Next1(h[k - 1], k)
    <3> HIDE DEF base, Next1, N
    <3>1. CASE k = 0
      BY <3>1, <1>7
    <3>2. CASE k # 0
      <4>1. k \in 1 .. N /\ k - 1 \in 0 .. N
        BY <3>2, <1>2
      <4> QED BY <4>1, <3>2, <1>7
    <3> QED BY <3>1, <3>2
  <2> HIDE DEF N, base
  <2> QED BY <2>1, Zenon DEF Next1
<1>9. Eq(f)
  <2>1. f = [k \in 0 .. N |-> f[k]]
    BY <1>6
  <2> HIDE DEF Eq
  <2> QED BY <2>1, <1>8
<1>10. Eq(upTo)
  <2> HIDE DEF Eq
  <2> QED BY <1>9
<1>11. upTo = [k \in 0 .. N |-> IF k = 0 THEN base ELSE Next1(upTo[k - 1], k)]
  <2> HIDE DEF upTo
  <2> QED BY <1>10 DEF Eq
<1> HIDE DEF upTo
<1> DEFINE Kept == {k \in 0 .. N : upTo[k] = f[k]}
<1>12. upTo[0] = base /\ \A k \in 1 .. N : upTo[k] = Next1(upTo[k - 1], k)
  <2> HIDE DEF base, Next1, N
  <2>1. \A k \in 0 .. N : upTo[k] = IF k = 0 THEN base ELSE Next1(upTo[k - 1], k)
    BY <1>11
  <2>2. 0 \in 0 .. N /\ \A k \in 1 .. N : k \in 0 .. N /\ k # 0
    BY <1>2
  <2> QED BY <2>1, <2>2
<1>13. Kept = 0 .. N
  <2> HIDE DEF base, Next1, N
  <2>1. 0 \in Kept
    BY <1>2, <1>7, <1>12
  <2>2. \A k \in 1 .. N : k - 1 \in Kept => k \in Kept
    <3>1. ASSUME NEW k \in 1 .. N, k - 1 \in Kept PROVE k \in Kept
      <4>1. upTo[k - 1] = f[k - 1] /\ k \in 0 .. N
        BY <3>1, <1>2
      <4> QED BY <4>1, <1>7, <1>12
    <3> QED BY <3>1
  <2>3. Kept \in SUBSET (0 .. N)
    OBVIOUS
  <2> HIDE DEF Kept
  <2> QED BY <1>2, <2>1, <2>2, <2>3, RecursionKeeps
<1>14. upTo[N] = f[N]
  <2> HIDE DEF N
  <2>1. N \in 0 .. N
    BY <1>2
  <2> QED BY <2>1, <1>13
<1>15. \A k \in 1 .. N : /\ f[k].run = follow[f[k - 1].run][ins[k].from]
                         /\ f[k].found = Append(f[k - 1].found, f[k].run.ctx)
  <2>1. ASSUME NEW t, NEW k PROVE /\ Next1(t, k).run = follow[t.run][ins[k].from]
                                 /\ Next1(t, k).found = Append(t.found, Next1(t, k).run.ctx)
    OBVIOUS
  <2> HIDE DEF N, Next1, ins, base
  <2> QED BY <2>1, <1>7
<1>16. \E g \in [0 .. N -> Followed] :
         /\ g[0] = base
         /\ \A k \in 1 .. N : /\ g[k].run = follow[g[k - 1].run][ins[k].from]
                             /\ g[k].found = Append(g[k - 1].found, g[k].run.ctx)
         /\ followFlows(follow, r, v) = g[N]
  <2>1. followFlows(follow, r, v) = f[N] /\ f[0] = base
    BY <1>1, <1>7, <1>14
  <2> HIDE DEF N, ins, base
  <2> QED BY <2>1, <1>6, <1>15
<1> QED BY <1>16

LEMMA RunIs ==
  ASSUME NEW r \in Runs
  PROVE  /\ r.calls \in Seq(Entry) /\ r.ctx \in Results
         /\ \A i \in 1 .. Len(r.calls) : r.calls[i].node \in Vertices
         /\ Nodes(r.calls) \subseteq Vertices
         /\ [calls |-> r.calls, ctx |-> 0] \in Runs
<1>1. r.calls \in Seq(Entry) /\ r.ctx \in Results
  BY DEF Runs, Entry
<1>2. \A i \in 1 .. Len(r.calls) : r.calls[i].node \in Vertices
  <2>1. \A i \in 1 .. Len(r.calls) : r.calls[i] \in Entry
    BY <1>1
  <2> QED BY <2>1 DEF Entry
<1>3. [calls |-> r.calls, ctx |-> 0] \in Runs
  BY <1>1 DEF Runs, Entry, Results
<1> QED BY <1>1, <1>2, <1>3 DEF Nodes

(* The flows of a node are followed in order, when those to its sources    *)
(* are.                                                                    *)
LEMMA FollowedInOrder ==
  ASSUME GraphInv, NEW follow \in Follow, NEW v \in Vertices,
         \A r \in Runs, w \in Sources(v) : InOrder(r.calls) => Reached(r, follow[r][w], w),
         NEW r \in Runs, InOrder(r.calls)
  PROVE  LET s == followFlows(follow, r, v)
         IN  /\ s \in Followed
             /\ InOrder(s.run.calls)
             /\ Nodes(r.calls) \cup Sources(v) \subseteq Nodes(s.run.calls)
             /\ \A C \in Closed : Sources(v) \subseteq C => Nodes(s.run.calls) \subseteq Nodes(r.calls) \cup C
<1> DEFINE ins == InEdges(flows, v)
           N == Len(ins)
           At(k) == ins[k].from
<1>1. PICK f \in [0 .. N -> Followed] :
         /\ f[0] = [run |-> [calls |-> r.calls, ctx |-> 0], found |-> <<>>]
         /\ \A k \in 1 .. N : /\ f[k].run = follow[f[k - 1].run][At(k)]
                             /\ f[k].found = Append(f[k - 1].found, f[k].run.ctx)
         /\ followFlows(follow, r, v) = f[N]
  BY FollowFlowsIs
<1>2. /\ N \in Nat /\ \A k \in 1 .. N : At(k) \in Sources(v)
      /\ Sources(v) = {At(k) : k \in 1 .. N}
  BY InFlows
<1> HIDE DEF N, At
<1> DEFINE Base == Nodes(r.calls)
           Seen(k) == {At(j) : j \in 1 .. k}
           Good(s, k) == /\ InOrder(s.calls)
                         /\ Base \cup Seen(k) \subseteq Nodes(s.calls)
                         /\ \A C \in Closed : Sources(v) \subseteq C => Nodes(s.calls) \subseteq Base \cup C
           Kept == {k \in 0 .. N : Good(f[k].run, k)}
<1>3. 0 \in Kept
  <2>1. f[0].run.calls = r.calls
    BY <1>1
  <2>2. Seen(0) = {}
    OBVIOUS
  <2>3. Good(f[0].run, 0)
    BY <2>1, <2>2
  <2> QED BY <2>3, <1>2
<1>4. ASSUME NEW k \in 1 .. N, k - 1 \in Kept PROVE k \in Kept
  <2> DEFINE s == f[k - 1].run
             t == f[k].run
  <2>1. Good(s, k - 1) /\ k \in 0 .. N /\ k - 1 \in 0 .. N
    BY <1>4, <1>2
  <2>2. s \in Runs
    <3>1. f[k - 1] \in Followed
      BY <2>1, <1>1
    <3> QED BY <3>1 DEF Followed
  <2>3. t = follow[s][At(k)]
    BY <1>1
  <2> HIDE DEF s, t
  <2>4. Reached(s, t, At(k))
    BY <2>1, <2>2, <2>3, <1>2
  <2>5. Base \cup Seen(k) \subseteq Nodes(t.calls)
    <3>1. ASSUME NEW j \in 1 .. k PROVE At(j) \in Nodes(t.calls)
      <4>1. CASE j = k
        BY <4>1, <2>4 DEF Reached
      <4>2. CASE j # k
        <5>1. j \in 1 .. k - 1
          BY <4>2, <1>2
        <5>2. At(j) \in Seen(k - 1)
          BY <5>1
        <5> QED BY <5>2, <2>1, <2>4 DEF Reached
      <4> QED BY <4>1, <4>2
    <3>2. Base \subseteq Nodes(t.calls)
      BY <2>1, <2>4 DEF Reached
    <3> QED BY <3>1, <3>2
  <2>6. ASSUME NEW C \in Closed, Sources(v) \subseteq C PROVE Nodes(t.calls) \subseteq Base \cup C
    <3>1. At(k) \in C
      BY <1>2, <2>6
    <3>2. Nodes(t.calls) \subseteq Nodes(s.calls) \cup C
      BY <3>1, <2>4 DEF Reached
    <3>3. Nodes(s.calls) \subseteq Base \cup C
      BY <2>1, <2>6
    <3> QED BY <3>2, <3>3
  <2>7. Good(t, k)
    BY <2>4, <2>5, <2>6 DEF Reached
  <2> HIDE DEF Good
  <2> QED BY <2>1, <2>7 DEF t
<1>5. Kept = 0 .. N
  <2>1. Kept \in SUBSET (0 .. N)
    OBVIOUS
  <2> HIDE DEF Kept
  <2> QED BY <1>2, <1>3, <1>4, <2>1, RecursionKeeps
<1>6. Good(f[N].run, N) /\ f[N] \in Followed
  <2>1. N \in 0 .. N
    BY <1>2
  <2>2. N \in Kept
    BY <2>1, <1>5
  <2> HIDE DEF Good
  <2> QED BY <2>1, <2>2, <1>1
<1>7. Seen(N) = Sources(v)
  BY <1>2
<1> QED BY <1>1, <1>6, <1>7

LEMMA NodesAppended ==
  ASSUME NEW path \in Seq(Entry), NEW c \in Entry
  PROVE  /\ Append(path, c) \in Seq(Entry)
         /\ Nodes(Append(path, c)) = Nodes(path) \cup {c.node}
<1> DEFINE q == Append(path, c)
           n == Len(path)
<1>1. /\ q \in Seq(Entry) /\ Len(q) = n + 1 /\ n \in Nat
      /\ q[n + 1] = c /\ \A i \in 1 .. n : q[i] = path[i]
  OBVIOUS
<1> HIDE DEF q
<1>2. \A i \in 1 .. n + 1 : i \in 1 .. n \/ i = n + 1
  BY <1>1
<1>3. \A i \in 1 .. n : i \in 1 .. n + 1
  BY <1>1
<1>4. n + 1 \in 1 .. n + 1
  BY <1>1
<1> HIDE DEF n
<1>5. {q[i].node : i \in 1 .. n + 1} = {path[i].node : i \in 1 .. n} \cup {c.node}
  <2>1. ASSUME NEW i \in 1 .. n + 1 PROVE q[i].node \in {path[j].node : j \in 1 .. n} \cup {c.node}
    BY <1>1, <1>2
  <2>2. ASSUME NEW i \in 1 .. n PROVE path[i].node \in {q[j].node : j \in 1 .. n + 1}
    BY <1>1, <1>3
  <2>3. c.node \in {q[j].node : j \in 1 .. n + 1}
    BY <1>1, <1>4
  <2> QED BY <2>1, <2>2, <2>3
<1> QED BY <1>1, <1>5 DEF Nodes, q, n

LEMMA AppendInOrder ==
  ASSUME NEW path \in Seq(Entry), NEW c \in Entry, InOrder(path),
         c.node \notin Nodes(path), Sources(c.node) \subseteq Nodes(path)
  PROVE  InOrder(Append(path, c))
<1> DEFINE q == Append(path, c)
           n == Len(path)
<1>1. /\ q \in Seq(Entry) /\ Len(q) = n + 1 /\ n \in Nat
      /\ q[n + 1] = c /\ \A i \in 1 .. n : q[i] = path[i]
  OBVIOUS
<1> HIDE DEF q
<1>2. \A i \in 1 .. n + 1 : i \in 1 .. n \/ i = n + 1
  BY <1>1
<1>3. \A i \in 1 .. n : i \in 1 .. n + 1 /\ i < n + 1
  BY <1>1
<1>4. \A i \in 1 .. n : path[i].node # c.node
  BY DEF Nodes
<1>5. \A i, j \in 1 .. n + 1 : q[i].node = q[j].node => i = j
  <2>1. ASSUME NEW i \in 1 .. n + 1, NEW j \in 1 .. n + 1, q[i].node = q[j].node PROVE i = j
    <3> HIDE DEF n
    <3>1. CASE i \in 1 .. n /\ j \in 1 .. n
      BY <3>1, <2>1, <1>1 DEF InOrder, n
    <3>2. CASE i \in 1 .. n /\ j = n + 1
      BY <3>2, <2>1, <1>1, <1>4
    <3>3. CASE i = n + 1 /\ j \in 1 .. n
      BY <3>3, <2>1, <1>1, <1>4
    <3>4. CASE i = n + 1 /\ j = n + 1
      BY <3>4
    <3> QED BY <3>1, <3>2, <3>3, <3>4, <1>2
  <2> QED BY <2>1
<1>6. ASSUME NEW i \in 1 .. n + 1, NEW w \in Sources(q[i].node)
      PROVE  \E j \in 1 .. n + 1 : j < i /\ q[j].node = w
  <2>1. CASE i \in 1 .. n
    <3>0. w \in Sources(path[i].node)
      BY <2>1, <1>1, <1>6
    <3>1. PICK j \in 1 .. n : j < i /\ path[j].node = w
      BY <3>0, <2>1 DEF InOrder
    <3>2. j \in 1 .. n + 1 /\ q[j] = path[j]
      BY <1>1, <1>3
    <3> QED BY <3>1, <3>2
  <2>2. CASE i = n + 1
    <3>1. w \in Nodes(path)
      BY <2>2, <1>1, <1>6
    <3>2. PICK j \in 1 .. n : path[j].node = w
      BY <3>1 DEF Nodes
    <3> QED BY <3>2, <2>2, <1>1, <1>3
  <2> QED BY <2>1, <2>2, <1>2
<1>7. InOrder(q)
  <2> HIDE DEF n
  <2>1. Len(q) = n + 1
    BY <1>1
  <2>2. \A i \in 1 .. n + 1 : \A w \in Sources(q[i].node) : \E j \in 1 .. n + 1 : j < i /\ q[j].node = w
    BY <1>6
  <2> QED BY <2>1, <2>2, <1>5 DEF InOrder
<1> QED BY <1>7 DEF q

LEMMA CalledIs ==
  ASSUME NEW r \in Runs, NEW v
  PROVE  Called(r, v) <=> v \in Nodes(r.calls)
<1>1. DOMAIN r.calls = 1 .. Len(r.calls)
  BY RunIs
<1> QED BY <1>1 DEF Called, Nodes

LEMMA ExecuteTyped ==
  ASSUME GraphInv, NEW follow \in Follow, NEW r \in Runs, NEW v \in Vertices
  PROVE  executeNode(follow, r, v) \in Runs
<1> DEFINE s == followFlows(follow, r, v)
           c == [node |-> v, found |-> s.found]
           ins == InEdges(flows, v)
           N == Len(ins)
<1>1. s \in Followed
  <2>1. PICK f \in [0 .. N -> Followed] : s = f[N]
    BY FollowFlowsIs
  <2>2. N \in 0 .. N
    BY InFlows
  <2> HIDE DEF N, s
  <2> QED BY <2>1, <2>2
<1> HIDE DEF s
<1>2. s.run \in Runs /\ s.found \in Seq(Results)
  BY <1>1 DEF Followed
<1>3. c \in Entry /\ s.run.calls \in Seq(Entry)
  BY <1>2, RunIs DEF Entry
<1>4. Append(s.run.calls, c) \in Seq(Entry)
  <2> HIDE DEF c
  <2> QED BY <1>3
<1>5. [calls |-> Append(s.run.calls, c), ctx |-> v] \in Runs
  <2> HIDE DEF c
  <2> QED BY <1>4 DEF Runs, Entry, Results
<1>6. executeNode(follow, r, v) = IF Called(r, v) THEN r ELSE [calls |-> Append(s.run.calls, c), ctx |-> v]
  BY DEF executeNode, s
<1> HIDE DEF c
<1> QED BY <1>5, <1>6

(* A node is executed in order, when what its flows come from is.          *)
LEMMA ExecutedInOrder ==
  ASSUME GraphInv, NEW follow \in Follow, NEW v \in Vertices,
         \A r \in Runs, w \in Sources(v) : InOrder(r.calls) => Reached(r, follow[r][w], w),
         \E C \in Closed : Sources(v) \subseteq C /\ v \notin C,
         NEW r \in Runs, InOrder(r.calls)
  PROVE  Reached(r, executeNode(follow, r, v), v)
<1> DEFINE s == followFlows(follow, r, v)
           c == [node |-> v, found |-> s.found]
           path == s.run.calls
           t == [calls |-> Append(path, c), ctx |-> v]
<1>1. executeNode(follow, r, v) = IF Called(r, v) THEN r ELSE t
  BY DEF executeNode
<1>2. CASE v \in Nodes(r.calls)
  <2>1. executeNode(follow, r, v) = r
    BY <1>1, <1>2, CalledIs
  <2> QED BY <2>1, <1>2 DEF Reached
<1>3. CASE v \notin Nodes(r.calls)
  <2>1. executeNode(follow, r, v) = t
    BY <1>1, <1>3, CalledIs
  <2>2. /\ s \in Followed /\ InOrder(path)
        /\ Nodes(r.calls) \cup Sources(v) \subseteq Nodes(path)
        /\ \A C \in Closed : Sources(v) \subseteq C => Nodes(path) \subseteq Nodes(r.calls) \cup C
    BY FollowedInOrder
  <2>3. path \in Seq(Entry) /\ c \in Entry /\ c.node = v
    <3> HIDE DEF s
    <3>1. s.run \in Runs /\ s.found \in Seq(Results)
      BY <2>2 DEF Followed
    <3> QED BY <3>1, RunIs DEF Entry
  <2>4. t.calls = Append(path, c)
    OBVIOUS
  <2> HIDE DEF path, c, s, t
  <2>5. v \notin Nodes(path)
    BY <2>2, <1>3
  <2>6. InOrder(Append(path, c))
    BY <2>2, <2>3, <2>5, AppendInOrder
  <2>7. Nodes(Append(path, c)) = Nodes(path) \cup {v}
    BY <2>3, NodesAppended
  <2>8. ASSUME NEW C \in Closed, v \in C PROVE Nodes(t.calls) \subseteq Nodes(r.calls) \cup C
    <3>1. Sources(v) \subseteq C
      BY <2>8 DEF Closed
    <3> QED BY <3>1, <2>2, <2>4, <2>7, <2>8
  <2>9. Reached(r, t, v)
    BY <2>2, <2>4, <2>6, <2>7, <2>8 DEF Reached
  <2> QED BY <2>1, <2>9
<1> QED BY <1>2, <1>3

(* The function of the nodes by the depth of its calls.                    *)
LEMMA PathsAre ==
  ASSUME GraphInv
  PROVE  LET R == reverseFollowExecutionPath
         IN  /\ \A n \in 0 .. Len(nodes) : R[n] \in Follow
             /\ \A n \in 1 .. Len(nodes) : \A r \in Runs, v \in Vertices :
                   R[n][r][v] = executeNode(R[n - 1], r, v)
<1> DEFINE N == Len(nodes)
           R == reverseFollowExecutionPath
           base == [r \in Runs |-> [v \in Vertices |-> r]]
           deeper(g) == [r \in Runs |-> [v \in Vertices |-> executeNode(g, r, v)]]
           step == [n \in 1 .. N |-> [g \in Follow |-> deeper(g)]]
           At(F, n) == [r \in Runs |-> [v \in Vertices |->
                          IF n = 0 THEN r ELSE executeNode(F[n - 1], r, v)]]
           Eq(F) == F = [n \in 0 .. N |-> At(F, n)]
<1>1. R = CHOOSE F : Eq(F)
  BY DEF reverseFollowExecutionPath
<1>2. N \in Nat
  BY DEF GraphInv, Sound
<1>3. base \in Follow
  BY DEF Follow
<1>4. \A g \in Follow : deeper(g) \in Follow
  BY ExecuteTyped DEF Follow
<1>5. step \in [1 .. N -> [Follow -> Follow]]
  <2> HIDE DEF deeper, N
  <2> QED BY <1>4
<1> HIDE DEF N, base, deeper, At
<1>6. PICK f \in [0 .. N -> Follow] : Recursive(f, N, base, step)
  <2> HIDE DEF step
  <2> QED BY <1>2, <1>3, <1>5, Recursion
<1>7. f[0] = base /\ \A n \in 1 .. N : f[n] = deeper(f[n - 1]) /\ f[n - 1] \in Follow
  <2>1. \A n \in 1 .. N : n - 1 \in 0 .. N
    BY <1>2
  <2> QED BY <2>1, <1>6 DEF Recursive
<1>8. \A F, n : n = 0 => At(F, n) = base
  BY DEF At, base
<1>9. \A F, n : n # 0 => At(F, n) = deeper(F[n - 1])
  BY DEF At, deeper
<1>10. Eq(f)
  <2>1. \A n \in 0 .. N : f[n] = At(f, n)
    <3>1. ASSUME NEW n \in 0 .. N PROVE f[n] = At(f, n)
      <4>1. CASE n = 0
        BY <4>1, <1>7, <1>8
      <4>2. CASE n # 0
        <5>1. n \in 1 .. N
          BY <4>2, <1>2
        <5> QED BY <5>1, <4>2, <1>7, <1>9
      <4> QED BY <4>1, <4>2
    <3> QED BY <3>1
  <2>2. f = [n \in 0 .. N |-> f[n]]
    BY <1>6
  <2> QED BY <2>1, <2>2
<1>11. Eq(R)
  <2> HIDE DEF Eq, R
  <2> QED BY <1>1, <1>10
<1> HIDE DEF R
<1>12. \A n \in 0 .. N : R[n] = At(R, n)
  BY <1>11
<1>13. R[0] = base /\ \A n \in 1 .. N : R[n] = deeper(R[n - 1])
  <2>1. 0 \in 0 .. N /\ \A n \in 1 .. N : n \in 0 .. N /\ n # 0
    BY <1>2
  <2> HIDE DEF Eq
  <2> QED BY <2>1, <1>8, <1>9, <1>12
<1> DEFINE Kept == {n \in 0 .. N : R[n] \in Follow}
<1>14. Kept = 0 .. N
  <2>1. 0 \in Kept
    BY <1>2, <1>3, <1>13
  <2>2. \A n \in 1 .. N : n - 1 \in Kept => n \in Kept
    BY <1>2, <1>4, <1>13
  <2>3. Kept \in SUBSET (0 .. N)
    OBVIOUS
  <2> HIDE DEF Kept
  <2> QED BY <1>2, <2>1, <2>2, <2>3, RecursionKeeps
<1>15. ASSUME NEW n \in 1 .. N, NEW r \in Runs, NEW v \in Vertices
       PROVE  R[n][r][v] = executeNode(R[n - 1], r, v)
  <2>1. R[n] = deeper(R[n - 1])
    BY <1>13
  <2> QED BY <2>1 DEF deeper
<1> QED BY <1>14, <1>15 DEF N, R

(* Without a cycle the nodes come in levels: the sources of a node are in  *)
(* the level before its own.                                               *)
Levels(L) ==
    /\ L \in [0 .. Len(nodes) -> SUBSET Vertices]
    /\ L[0] = {}
    /\ \A n \in 1 .. Len(nodes) : L[n] = {v \in Vertices : Sources(v) \subseteq L[n - 1]}
    /\ \A n \in 1 .. Len(nodes) : L[n - 1] \subseteq L[n]
    /\ L[Len(nodes)] = Vertices

LEMMA SmallerSubset ==
  ASSUME NEW S, IsFiniteSet(S), NEW U \in SUBSET S, U # S
  PROVE  Cardinality(U) < Cardinality(S)
<1>1. IsFiniteSet(U) /\ Cardinality(U) <= Cardinality(S) /\ Cardinality(U) # Cardinality(S)
  BY FS_Subset
<1>2. Cardinality(U) \in Nat /\ Cardinality(S) \in Nat
  BY <1>1, FS_CardinalityType
<1> QED BY <1>1, <1>2

LEMMA LevelsAre ==
  ASSUME GraphInv, Acyclic
  PROVE  \E L : Levels(L)
<1> DEFINE N == Len(nodes)
           T == SUBSET Vertices
           up(S) == {v \in Vertices : Sources(v) \subseteq S}
           step == [n \in 1 .. N |-> [S \in T |-> up(S)]]
<1>1. N \in Nat /\ Vertices = 1 .. N /\ {} \in T
  BY DEF GraphInv, Sound, Vertices
<1>2. \A v \in Vertices : Sources(v) \subseteq Vertices
  BY InFlows
<1>3. step \in [1 .. N -> [T -> T]]
  OBVIOUS
<1> HIDE DEF N, T, up
<1>4. PICK L \in [0 .. N -> T] : Recursive(L, N, {}, step)
  <2> HIDE DEF step
  <2> QED BY <1>1, <1>3, Recursion
<1>5. L[0] = {} /\ \A n \in 1 .. N : L[n] = up(L[n - 1]) /\ L[n - 1] \in T /\ L[n] \in T
  <2>1. \A n \in 1 .. N : n - 1 \in 0 .. N /\ n \in 0 .. N
    BY <1>1
  <2> QED BY <2>1, <1>4 DEF Recursive
<1>6. \A n \in 0 .. N : L[n] \in T
  BY <1>4
<1>7. \A A, B \in T : A \subseteq B => up(A) \subseteq up(B)
  BY DEF up
<1> DEFINE Rises == {n \in 0 .. N : n = N \/ L[n] \subseteq L[n + 1]}
<1>8. Rises = 0 .. N
  <2>1. 0 \in Rises
    BY <1>1, <1>5
  <2>2. ASSUME NEW n \in 1 .. N, n - 1 \in Rises PROVE n \in Rises
    <3>1. CASE n = N
      BY <3>1, <1>1
    <3>2. CASE n # N
      <4>1. n \in 0 .. N /\ n + 1 \in 1 .. N /\ (n + 1) - 1 = n /\ n - 1 # N /\ (n - 1) + 1 = n
        BY <3>2, <1>1
      <4>2. L[n - 1] \subseteq L[n]
        BY <2>2, <4>1
      <4>3. L[n] = up(L[n - 1]) /\ L[n + 1] = up(L[n]) /\ L[n - 1] \in T /\ L[n] \in T
        BY <4>1, <1>5
      <4>4. L[n] \subseteq L[n + 1]
        BY <4>2, <4>3, <1>7
      <4> QED BY <4>1, <4>4
    <3> QED BY <3>1, <3>2
  <2>3. Rises \in SUBSET (0 .. N)
    OBVIOUS
  <2> HIDE DEF Rises
  <2> QED BY <1>1, <2>1, <2>2, <2>3, RecursionKeeps
<1>9. ASSUME NEW n \in 1 .. N PROVE L[n - 1] \subseteq L[n]
  <2>1. n - 1 \in 0 .. N /\ n - 1 # N /\ (n - 1) + 1 = n
    BY <1>1
  <2> QED BY <2>1, <1>8
<1>10. IsFiniteSet(Vertices) /\ Cardinality(Vertices) = N
  BY <1>1, FS_Interval
<1>11. \A n \in 0 .. N : IsFiniteSet(L[n]) /\ Cardinality(L[n]) \in Nat
  BY <1>6, <1>10, FS_Subset, FS_CardinalityType DEF T
<1> DEFINE Grown == {n \in 0 .. N : L[n] = Vertices \/ Cardinality(L[n]) >= n}
<1>12. Grown = 0 .. N
  <2>1. 0 \in Grown
    BY <1>1, <1>5, FS_EmptySet
  <2>2. ASSUME NEW n \in 1 .. N, n - 1 \in Grown PROVE n \in Grown
    <3>1. n \in 0 .. N /\ n - 1 \in 0 .. N /\ L[n] = up(L[n - 1]) /\ L[n - 1] \in T
      BY <1>1, <1>5
    <3>2. CASE L[n - 1] = Vertices
      <4>1. L[n] = Vertices
        BY <3>1, <3>2, <1>2 DEF up
      <4> QED BY <4>1, <3>1
    <3>3. CASE L[n - 1] # Vertices
      <4> DEFINE S == Vertices \ L[n - 1]
      <4>1. S \in (SUBSET Vertices) \ {{}}
        BY <3>1, <3>3 DEF T
      <4>2. PICK v \in S : Sources(v) \cap S = {}
        <5> HIDE DEF S
        <5> QED BY <4>1 DEF Acyclic
      <4>3. v \in Vertices /\ v \notin L[n - 1] /\ Sources(v) \subseteq L[n - 1]
        BY <4>2, <1>2
      <4>4. v \in L[n]
        BY <4>3, <3>1 DEF up
      <4>5. L[n - 1] \subseteq L[n] /\ L[n - 1] # L[n]
        BY <4>3, <4>4, <1>9
      <4>6. Cardinality(L[n - 1]) < Cardinality(L[n])
        <5>1. L[n - 1] \in SUBSET L[n]
          BY <4>5
        <5> QED BY <5>1, <4>5, <3>1, <1>11, SmallerSubset
      <4>7. Cardinality(L[n - 1]) >= n - 1
        BY <2>2, <3>3
      <4>8. Cardinality(L[n]) >= n
        <5>1. Cardinality(L[n]) \in Nat /\ Cardinality(L[n - 1]) \in Nat
          BY <3>1, <1>11
        <5> QED BY <5>1, <4>6, <4>7, <1>1
      <4> QED BY <4>8, <3>1
    <3> QED BY <3>2, <3>3
  <2>3. Grown \in SUBSET (0 .. N)
    OBVIOUS
  <2> HIDE DEF Grown
  <2> QED BY <1>1, <2>1, <2>2, <2>3, RecursionKeeps
<1>13. L[N] = Vertices
  <2>1. N \in 0 .. N
    BY <1>1
  <2>2. SUFFICES ASSUME Cardinality(L[N]) >= N PROVE L[N] = Vertices
    BY <2>1, <1>12
  <2>3. L[N] \subseteq Vertices
    BY <2>1, <1>6 DEF T
  <2>4. L[N] # Vertices => Cardinality(L[N]) < N
    BY <2>3, <1>10, SmallerSubset
  <2>5. Cardinality(L[N]) \in Nat
    BY <2>1, <1>11
  <2> QED BY <2>2, <2>4, <2>5, <1>1
<1> QED BY <1>4, <1>5, <1>9, <1>13 DEF Levels, N, T, up

LEMMA LevelClosed ==
  ASSUME GraphInv, NEW L, Levels(L), NEW n \in 0 .. Len(nodes)
  PROVE  L[n] \in Closed
<1>1. Len(nodes) \in Nat /\ L[n] \in SUBSET Vertices
  BY DEF GraphInv, Sound, Levels
<1>2. CASE n = 0
  BY <1>2, <1>1 DEF Levels, Closed
<1>3. CASE n # 0
  <2>1. n \in 1 .. Len(nodes)
    BY <1>3, <1>1
  <2>2. L[n] = {v \in Vertices : Sources(v) \subseteq L[n - 1]} /\ L[n - 1] \subseteq L[n]
    BY <2>1 DEF Levels
  <2>3. \A v \in L[n] : Sources(v) \subseteq L[n]
    BY <2>2
  <2> QED BY <2>3, <1>1 DEF Closed
<1> QED BY <1>2, <1>3

(* What a node uses does not use the node.                                 *)
LEMMA SourcesApart ==
  ASSUME GraphInv, NEW L, Levels(L), NEW v \in Vertices
  PROVE  \E C \in Closed : Sources(v) \subseteq C /\ v \notin C
<1> DEFINE N == Len(nodes)
           With == {n \in 0 .. N : v \in L[n]}
<1>1. N \in Nat
  BY DEF GraphInv, Sound
<1>2. With # {} /\ With \in SUBSET Nat
  <2>1. N \in 0 .. N /\ v \in L[N]
    BY <1>1 DEF Levels
  <2> QED BY <2>1, <1>1
<1>3. PICK n \in With : \A m \in With : n <= m
  <2> HIDE DEF With
  <2> QED BY <1>2, LeastNumber
<1>4. n \in 1 .. N
  <2>1. n # 0
    BY <1>3 DEF Levels
  <2> QED BY <2>1, <1>1, <1>3
<1>5. n - 1 \in 0 .. N /\ ~(n <= n - 1)
  BY <1>1, <1>4
<1>6. v \notin L[n - 1]
  BY <1>3, <1>5
<1>7. v \in L[n] /\ L[n] = {u \in Vertices : Sources(u) \subseteq L[n - 1]}
  BY <1>3, <1>4 DEF Levels
<1>8. L[n - 1] \in Closed
  BY <1>5, LevelClosed
<1> QED BY <1>6, <1>7, <1>8

(* In each level the nodes are reached in order.                           *)
LEMMA LevelsInOrder ==
  ASSUME GraphInv, NEW L, Levels(L)
  PROVE  \A n \in 0 .. Len(nodes) : \A r \in Runs, v \in L[n] :
            InOrder(r.calls) => Reached(r, reverseFollowExecutionPath[n][r][v], v)
<1> DEFINE N == Len(nodes)
           R == reverseFollowExecutionPath
<1>2. /\ \A n \in 0 .. N : R[n] \in Follow
      /\ \A n \in 1 .. N : \A q \in Runs, w \in Vertices : R[n][q][w] = executeNode(R[n - 1], q, w)
  BY PathsAre
<1>3. N \in Nat
  BY DEF GraphInv, Sound
<1> HIDE DEF R
<1> DEFINE Good(n) == \A q \in Runs, w \in L[n] : InOrder(q.calls) => Reached(q, R[n][q][w], w)
           Kept == {n \in 0 .. N : Good(n)}
<1>4. 0 \in Kept
  BY <1>3 DEF Levels
<1>5. ASSUME NEW n \in 1 .. N, n - 1 \in Kept PROVE n \in Kept
  <2>1. n \in 0 .. N /\ n - 1 \in 0 .. N /\ Good(n - 1)
    BY <1>3, <1>5
  <2>2. ASSUME NEW q \in Runs, NEW w \in L[n], InOrder(q.calls)
        PROVE  Reached(q, R[n][q][w], w)
    <3>1. w \in Vertices /\ Sources(w) \subseteq L[n - 1]
      BY <2>2 DEF Levels
    <3>2. R[n - 1] \in Follow /\ R[n][q][w] = executeNode(R[n - 1], q, w)
      BY <1>2, <2>1, <3>1
    <3>3. \A p \in Runs, u \in Sources(w) : InOrder(p.calls) => Reached(p, R[n - 1][p][u], u)
      BY <2>1, <3>1
    <3>4. \E C \in Closed : Sources(w) \subseteq C /\ w \notin C
      BY <3>1, SourcesApart
    <3> DEFINE g == R[n - 1]
    <3>5. \A p \in Runs, u \in Sources(w) : InOrder(p.calls) => Reached(p, g[p][u], u)
      BY <3>3
    <3>6. g \in Follow /\ R[n][q][w] = executeNode(g, q, w)
      BY <3>2
    <3> HIDE DEF g
    <3>7. Reached(q, executeNode(g, q, w), w)
      BY <2>2, <3>1, <3>4, <3>5, <3>6, ExecutedInOrder
    <3> QED BY <3>6, <3>7
  <2> QED BY <2>1, <2>2
<1>6. Kept = 0 .. N
  <2>1. Kept \in SUBSET (0 .. N)
    OBVIOUS
  <2> HIDE DEF Kept, N
  <2> QED BY <1>3, <1>4, <1>5, <2>1, RecursionKeeps
<1> QED BY <1>6 DEF R

(* Every node is reached in order, with the depth that is given.           *)
LEMMA PathsInOrder ==
  ASSUME GraphInv, Acyclic, NEW r \in Runs, NEW v \in Vertices, InOrder(r.calls)
  PROVE  LET s == reverseFollowExecutionPath[Len(nodes)][r][v]
         IN  s \in Runs /\ Reached(r, s, v)
<1> DEFINE N == Len(nodes)
           R == reverseFollowExecutionPath
<1>1. PICK L : Levels(L)
  BY LevelsAre
<1>2. N \in 0 .. N
  BY DEF GraphInv, Sound
<1>3. R[N] \in Follow /\ L[N] = Vertices
  BY <1>1, <1>2, PathsAre DEF Levels
<1>4. \A q \in Runs, w \in L[N] : InOrder(q.calls) => Reached(q, R[N][q][w], w)
  BY <1>1, <1>2, LevelsInOrder
<1> HIDE DEF R
<1>5. R[N][r][v] \in Runs
  BY <1>3 DEF Follow
<1> QED BY <1>3, <1>4, <1>5 DEF R

LEMMA EndsAre ==
  ASSUME GraphInv
  PROVE  LET ends == getNodesWithExternalOutputs
         IN  /\ ends \in Seq(Nat) /\ \A k \in 1 .. Len(ends) : ends[k] \in Vertices
             /\ \A v \in Vertices : OutEdges(flows, v) = <<>> => \E k \in 1 .. Len(ends) : ends[k] = v
<1> DEFINE E == {v \in Vertices : Len(OutEdges(flows, v)) < Outputs[nodes[v].op]
                                  \/ OutEdges(flows, v) = <<>>}
           N == Len(nodes) + Width
           all == [i \in 1 .. N |-> i]
           ends == getNodesWithExternalOutputs
<1>1. Len(nodes) \in Nat /\ Vertices = 1 .. Len(nodes) /\ N \in Nat
  BY WidthIs DEF GraphInv, Sound, Vertices
<1>2. ends = Among(all, E)
  BY DEF getNodesWithExternalOutputs, Ascending
<1>3. Vertices \subseteq 1 .. N
  BY <1>1, WidthIs
<1> HIDE DEF E, N, ends
<1>4. all \in Seq(Nat) /\ Len(all) = N /\ ToSet(all) = 1 .. N
  BY <1>1 DEF ToSet
<1> HIDE DEF all
<1>5. ends \in Seq(Nat) /\ ToSet(ends) = ToSet(all) \cap E
  BY <1>2, <1>4, AmongElements
<1>6. ToSet(ends) = E /\ E \subseteq Vertices
  BY <1>3, <1>4, <1>5 DEF E
<1>7. DOMAIN ends = 1 .. Len(ends)
  BY <1>5
<1>8. \A k \in 1 .. Len(ends) : ends[k] \in Vertices
  BY <1>6, <1>7 DEF ToSet
<1>9. ASSUME NEW v \in Vertices, OutEdges(flows, v) = <<>> PROVE \E k \in 1 .. Len(ends) : ends[k] = v
  <2>1. v \in ToSet(ends)
    BY <1>6, <1>9 DEF E
  <2> QED BY <2>1, <1>7 DEF ToSet
<1> QED BY <1>5, <1>8, <1>9 DEF ends

(* A node that no flow leaves is one of the ends; a flow leads to a node   *)
(* that has it among its sources.                                          *)
LEMMA OutFlows ==
  ASSUME GraphInv, NEW v \in Vertices, OutEdges(flows, v) # <<>>
  PROVE  \E u \in Vertices : v \in Sources(u)
<1> DEFINE outs == OutEdges(flows, v)
<1>1. flows \in Seq(Flow) /\ \A i \in 1 .. Len(flows) : flows[i].to \in 1 .. Len(nodes)
  BY DEF GraphInv, Sound, Fits
<1>2. nodes \in Seq(Node)
  BY DEF GraphInv, Sound
<1>3. outs \in Seq(Flow) /\ ToSet(outs) = ToSet(flows) \cap {e \in ToSet(flows) : e.from = v}
  BY <1>1, AmongElements, Zenon DEF OutEdges
<1>4. Vertices = 1 .. Len(nodes) /\ DOMAIN flows = 1 .. Len(flows) /\ DOMAIN outs = 1 .. Len(outs)
  BY <1>1, <1>2, <1>3 DEF Vertices
<1>5. outs # <<>>
  OBVIOUS
<1> HIDE DEF outs
<1>6. 1 \in 1 .. Len(outs)
  BY <1>3, <1>5
<1>7. outs[1] \in ToSet(outs)
  BY <1>4, <1>6 DEF ToSet
<1>8. PICK i \in 1 .. Len(flows) : flows[i].from = v
  BY <1>3, <1>4, <1>7 DEF ToSet
<1>9. flows[i].to \in Vertices /\ v \in Sources(flows[i].to)
  BY <1>1, <1>4, <1>8 DEF Sources
<1> QED BY <1>9

(* What the caller is given, end by end.                                   *)
Done == [calls : Seq(Entry), results : Seq(Results)]
Start(path) == [calls |-> path, ctx |-> 0]
From(path, v) == reverseFollowExecutionPath[Len(nodes)][Start(path)][v]

LEMMA FromTyped ==
  ASSUME GraphInv, NEW path \in Seq(Entry), NEW v \in Vertices
  PROVE  Start(path) \in Runs /\ Start(path).calls = path /\ From(path, v) \in Runs
<1> DEFINE R == reverseFollowExecutionPath[Len(nodes)]
<1>1. Start(path) \in Runs /\ Start(path).calls = path
  BY DEF Start, Runs, Entry, Results
<1>2. Len(nodes) \in 0 .. Len(nodes)
  BY DEF GraphInv, Sound
<1>3. R \in Follow
  BY <1>2, PathsAre
<1> HIDE DEF R
<1>4. R[Start(path)][v] \in Runs
  BY <1>1, <1>3 DEF Follow
<1> QED BY <1>1, <1>4 DEF From, R

LEMMA ExecuteFollows ==
  ASSUME GraphInv
  PROVE  LET ends == getNodesWithExternalOutputs
         IN  \E f \in [0 .. Len(ends) -> Done] :
               /\ f[0] = [calls |-> <<>>, results |-> <<>>]
               /\ \A k \in 1 .. Len(ends) :
                     /\ f[k].calls = From(f[k - 1].calls, ends[k]).calls
                     /\ f[k].results = Append(f[k - 1].results, From(f[k - 1].calls, ends[k]).ctx)
               /\ execute = f[Len(ends)]
<1> DEFINE ends == getNodesWithExternalOutputs
           N == Len(ends)
           base == [calls |-> <<>>, results |-> <<>>]
           next(t, k) == [calls |-> From(t.calls, ends[k]).calls,
                          results |-> Append(t.results, From(t.calls, ends[k]).ctx)]
           step == [k \in 1 .. N |-> [t \in Done |-> next(t, k)]]
           R == reverseFollowExecutionPath[Len(nodes)]
           Eq(F) == F = [k \in 0 .. N |->
                           IF k = 0 THEN base
                           ELSE LET run == R[[calls |-> F[k - 1].calls, ctx |-> 0]][ends[k]]
                                IN  [calls |-> run.calls, results |-> Append(F[k - 1].results, run.ctx)]]
           upTo == CHOOSE F : Eq(F)
<1>1. execute = upTo[N]
  BY DEF execute
<1>2. N \in Nat /\ \A k \in 1 .. N : ends[k] \in Vertices
  BY EndsAre
<1> HIDE DEF ends
<1>3. base \in Done
  BY DEF Done
<1>4. ASSUME NEW t \in Done, NEW k \in 1 .. N PROVE next(t, k) \in Done
  <2>1. t.calls \in Seq(Entry) /\ t.results \in Seq(Results)
    BY DEF Done
  <2>2. From(t.calls, ends[k]) \in Runs
    BY <1>2, <2>1, FromTyped
  <2>3. From(t.calls, ends[k]).calls \in Seq(Entry) /\ From(t.calls, ends[k]).ctx \in Results
    BY <2>2, RunIs
  <2> QED BY <2>1, <2>3 DEF Done
<1>5. step \in [1 .. N -> [Done -> Done]]
  <2> HIDE DEF next, N
  <2> QED BY <1>4
<1> HIDE DEF N, base
<1>6. PICK f \in [0 .. N -> Done] : Recursive(f, N, base, step)
  <2> HIDE DEF step
  <2> QED BY <1>2, <1>3, <1>5, Recursion
<1>7. f[0] = base /\ \A k \in 1 .. N : f[k] = next(f[k - 1], k) /\ f[k - 1] \in Done
  <2> HIDE DEF next
  <2>1. \A k \in 1 .. N : k - 1 \in 0 .. N
    BY <1>2
  <2> QED BY <2>1, <1>6 DEF Recursive
<1> DEFINE At(F, k) == IF k = 0 THEN base ELSE next(F[k - 1], k)
<1>8. ASSUME NEW F PROVE Eq(F) <=> F = [k \in 0 .. N |-> At(F, k)]
  BY Zenon DEF From, Start
<1> HIDE DEF Eq
<1>9. Eq(f)
  <2>1. ASSUME NEW k \in 0 .. N PROVE f[k] = At(f, k)
    <3> HIDE DEF next
    <3>1. CASE k = 0
      BY <3>1, <1>7
    <3>2. CASE k # 0
      <4>1. k \in 1 .. N
        BY <3>2, <1>2
      <4> QED BY <4>1, <3>2, <1>7
    <3> QED BY <3>1, <3>2
  <2>2. f = [k \in 0 .. N |-> f[k]]
    BY <1>6
  <2> HIDE DEF At
  <2>3. f = [k \in 0 .. N |-> At(f, k)]
    BY <2>1, <2>2
  <2> QED BY <2>3, <1>8
<1>10. Eq(upTo)
  BY <1>9
<1> HIDE DEF upTo, next
<1>11. upTo[0] = base /\ \A k \in 1 .. N : upTo[k] = next(upTo[k - 1], k)
  <2> HIDE DEF At
  <2>1. upTo = [k \in 0 .. N |-> At(upTo, k)]
    BY <1>8, <1>10
  <2>2. \A k \in 0 .. N : upTo[k] = At(upTo, k)
    BY <2>1
  <2>3. 0 \in 0 .. N /\ \A k \in 1 .. N : k \in 0 .. N /\ k # 0
    BY <1>2
  <2> QED BY <2>2, <2>3 DEF At
<1> DEFINE Kept == {k \in 0 .. N : upTo[k] = f[k]}
<1>12. Kept = 0 .. N
  <2>1. 0 \in Kept
    BY <1>2, <1>7, <1>11
  <2>2. \A k \in 1 .. N : k - 1 \in Kept => k \in Kept
    BY <1>2, <1>7, <1>11
  <2>3. Kept \in SUBSET (0 .. N)
    OBVIOUS
  <2> HIDE DEF Kept
  <2> QED BY <1>2, <2>1, <2>2, <2>3, RecursionKeeps
<1>13. execute = f[N]
  <2>1. N \in 0 .. N
    BY <1>2
  <2> QED BY <2>1, <1>1, <1>12
<1>14. \A k \in 1 .. N : /\ f[k].calls = From(f[k - 1].calls, ends[k]).calls
                         /\ f[k].results = Append(f[k - 1].results, From(f[k - 1].calls, ends[k]).ctx)
  <2>1. ASSUME NEW t, NEW k PROVE /\ next(t, k).calls = From(t.calls, ends[k]).calls
                                 /\ next(t, k).results = Append(t.results, From(t.calls, ends[k]).ctx)
    BY DEF next
  <2>2. ASSUME NEW k \in 1 .. N
        PROVE  /\ f[k].calls = From(f[k - 1].calls, ends[k]).calls
               /\ f[k].results = Append(f[k - 1].results, From(f[k - 1].calls, ends[k]).ctx)
    <3>1. f[k] = next(f[k - 1], k)
      BY <1>7
    <3> QED BY ONLY <2>1, <3>1
  <2> QED BY <2>2
<1>15. \E g \in [0 .. N -> Done] :
         /\ g[0] = base
         /\ \A k \in 1 .. N : /\ g[k].calls = From(g[k - 1].calls, ends[k]).calls
                             /\ g[k].results = Append(g[k - 1].results, From(g[k - 1].calls, ends[k]).ctx)
         /\ execute = g[N]
  BY <1>6, <1>7, <1>13, <1>14
<1> QED BY <1>15 DEF N, base, ends

LEMMA ExecuteIs ==
  ASSUME GraphInv, Acyclic
  PROVE  /\ execute.calls \in Seq(Entry)
         /\ InOrder(execute.calls)
         /\ \A k \in 1 .. Len(getNodesWithExternalOutputs) :
               getNodesWithExternalOutputs[k] \in Nodes(execute.calls)
<1> DEFINE ends == getNodesWithExternalOutputs
           N == Len(ends)
<1>1. PICK f \in [0 .. N -> Done] :
         /\ f[0] = [calls |-> <<>>, results |-> <<>>]
         /\ \A k \in 1 .. N : f[k].calls = From(f[k - 1].calls, ends[k]).calls
         /\ execute = f[N]
  BY ExecuteFollows
<1>2. N \in Nat /\ \A k \in 1 .. N : ends[k] \in Vertices
  BY EndsAre
<1> HIDE DEF ends, N
<1> DEFINE Good(path, k) == /\ path \in Seq(Entry) /\ InOrder(path)
                            /\ \A j \in 1 .. k : ends[j] \in Nodes(path)
           Kept == {k \in 0 .. N : Good(f[k].calls, k)}
<1>3. 0 \in Kept
  <2>1. InOrder(<<>>)
    BY DEF InOrder
  <2>2. <<>> \in Seq(Entry) /\ \A j \in 1 .. 0 : ends[j] \in Nodes(<<>>)
    OBVIOUS
  <2>3. f[0].calls = <<>> /\ 0 \in 0 .. N
    BY <1>1, <1>2
  <2>4. Good(f[0].calls, 0)
    BY <2>1, <2>2, <2>3
  <2> QED BY <2>3, <2>4
<1>4. ASSUME NEW k \in 1 .. N, k - 1 \in Kept PROVE k \in Kept
  <2> DEFINE path == f[k - 1].calls
             v == ends[k]
             s == From(path, v)
  <2>1. k \in 0 .. N /\ Good(path, k - 1)
    <3> HIDE DEF Good
    <3> QED BY <1>2, <1>4
  <2>2. f[k].calls = s.calls /\ v \in Vertices
    BY <1>1, <1>2
  <2>3. Start(path) \in Runs /\ Start(path).calls = path /\ s \in Runs
    BY <2>1, <2>2, FromTyped
  <2>4. Reached(Start(path), s, v)
    <3> HIDE DEF path, v
    <3> QED BY <2>1, <2>2, <2>3, PathsInOrder DEF From
  <2> HIDE DEF path, v, s
  <2>5. InOrder(s.calls) /\ v \in Nodes(s.calls) /\ Nodes(path) \subseteq Nodes(s.calls)
    BY <2>3, <2>4 DEF Reached
  <2>6. ASSUME NEW j \in 1 .. k PROVE ends[j] \in Nodes(s.calls)
    <3>1. j = k \/ j \in 1 .. k - 1
      BY <1>2
    <3> QED BY <3>1, <2>1, <2>5 DEF v
  <2>7. s.calls \in Seq(Entry)
    BY <2>3, RunIs
  <2>8. Good(f[k].calls, k)
    BY <2>2, <2>5, <2>6, <2>7
  <2> HIDE DEF Good
  <2> QED BY <2>1, <2>8
<1>5. Kept = 0 .. N
  <2>1. Kept \in SUBSET (0 .. N)
    OBVIOUS
  <2> HIDE DEF Kept
  <2> QED BY <1>2, <1>3, <1>4, <2>1, RecursionKeeps
<1>6. Good(f[N].calls, N)
  <2>1. N \in 0 .. N
    BY <1>2
  <2> HIDE DEF Good
  <2> QED BY <2>1, <1>5
<1> QED BY <1>1, <1>6 DEF N, ends

LEMMA AllCalled ==
  ASSUME GraphInv, Acyclic
  PROVE  Vertices \subseteq Nodes(execute.calls)
<1> DEFINE path == execute.calls
           U == Vertices \ Nodes(path)
           N == Len(nodes)
<1>1. SUFFICES ASSUME U # {} PROVE FALSE
  OBVIOUS
<1>2. PICK L : Levels(L)
  BY LevelsAre
<1>3. /\ path \in Seq(Entry) /\ InOrder(path)
      /\ \A v \in Vertices : OutEdges(flows, v) = <<>> => v \in Nodes(path)
  BY ExecuteIs, EndsAre
<1> HIDE DEF path
<1> DEFINE With == {n \in 0 .. N : U \subseteq L[n]}
<1>4. N \in Nat
  BY DEF GraphInv, Sound
<1>5. With # {} /\ With \in SUBSET Nat
  <2>1. N \in With
    BY <1>2, <1>4 DEF Levels
  <2> QED BY <2>1, <1>4
<1>6. PICK n \in With : \A m \in With : n <= m
  <2> HIDE DEF With
  <2> QED BY <1>5, LeastNumber
<1>7. n \in 1 .. N /\ n - 1 \in 0 .. N /\ ~(n <= n - 1)
  <2>1. n # 0
    BY <1>1, <1>2, <1>6 DEF Levels
  <2> QED BY <2>1, <1>4, <1>6
<1>8. PICK v \in U : v \notin L[n - 1]
  BY <1>6, <1>7
<1>9. PICK u \in Vertices : v \in Sources(u)
  BY <1>3, <1>8, OutFlows
<1>10. u \in U
  <2>1. SUFFICES ASSUME u \in Nodes(path) PROVE v \in Nodes(path)
    BY <1>8
  <2>2. PICK i \in 1 .. Len(path) : path[i].node = u
    BY <2>1 DEF Nodes
  <2>3. PICK j \in 1 .. Len(path) : path[j].node = v
    BY <2>2, <1>3, <1>9 DEF InOrder
  <2> QED BY <2>3 DEF Nodes
<1>11. u \in L[n] /\ L[n] = {w \in Vertices : Sources(w) \subseteq L[n - 1]}
  BY <1>2, <1>6, <1>7, <1>10 DEF Levels
<1> QED BY <1>8, <1>9, <1>11

LEMMA InvGivesOrder == GraphInv => CallsInOrder
<1> DEFINE path == execute.calls
           place(v) == {i \in DOMAIN path : path[i].node = v}
<1>1. SUFFICES ASSUME GraphInv, Acyclic, NEW v \in Vertices
               PROVE  /\ Cardinality(place(v)) = 1
                      /\ \A w \in Sources(v) : \A i \in place(v), j \in place(w) : j < i
  <2>1. SUFFICES ASSUME GraphInv, Acyclic
                 PROVE  \A v \in Vertices :
                           /\ Cardinality({i \in DOMAIN path : path[i].node = v}) = 1
                           /\ \A w \in Sources(v) :
                                \A i \in {k \in DOMAIN path : path[k].node = v},
                                   j \in {k \in DOMAIN path : path[k].node = w} : j < i
    BY DEF CallsInOrder
  <2> QED BY <2>1
<1>2. path \in Seq(Entry) /\ InOrder(path)
  BY <1>1, ExecuteIs
<1>3. v \in Nodes(path)
  BY <1>1, AllCalled
<1> HIDE DEF path
<1>4. DOMAIN path = 1 .. Len(path)
  BY <1>2
<1>5. PICK i \in 1 .. Len(path) : path[i].node = v
  BY <1>3 DEF Nodes
<1>6. place(v) = {i}
  BY <1>2, <1>4, <1>5 DEF InOrder
<1>7. Cardinality(place(v)) = 1
  BY <1>6, FS_Singleton
<1>8. ASSUME NEW w \in Sources(v), NEW k \in place(w) PROVE k < i
  <2>1. PICK j \in 1 .. Len(path) : j < i /\ path[j].node = w
    BY <1>2, <1>5, <1>8 DEF InOrder
  <2>2. k = j
    BY <2>1, <1>2, <1>4, <1>8 DEF InOrder
  <2> QED BY <2>1, <2>2
<1> QED BY <1>1, <1>6, <1>7, <1>8

(* A workflow without a cycle, whatever its edits, calls each of its       *)
(* operations once and after those whose results it uses                   *)
(* (reverseFollowExecutionPath): no part is executed twice or left out,    *)
(* however the flows share it.                                             *)
THEOREM OperationsRunInOrder == GSpec => []CallsInOrder
<1>1. GInit => GraphInv
  BY GraphInit
<1>2. GraphInv /\ [Edit]_gvars => GraphInv'
  BY GraphStep
<1>3. GraphInv => CallsInOrder
  BY InvGivesOrder
<1> QED BY <1>1, <1>2, <1>3, PTL DEF GSpec

-----------------------------------------------------------------------------
(* Lists of arguments.  X gives the argument of each input, MapOf(X, s)    *)
(* the list of those of the inputs in s.                                   *)

MapOf(X, s) == [i \in 1 .. Len(s) |-> X[s[i]]]
ImageOf(X) == {X[a] : a \in Pair}
Row(v) == {<<v, p>> : p \in Nat \ {0}}
RowUpTo(v, n) == {<<v, p>> : p \in 1 .. n}

LEMMA MapIs ==
  ASSUME NEW X, NEW s \in Seq(Pair)
  PROVE  /\ MapOf(X, s) \in Seq(ImageOf(X)) /\ Len(MapOf(X, s)) = Len(s)
         /\ DOMAIN MapOf(X, s) = 1 .. Len(s)
         /\ \A i \in 1 .. Len(s) : MapOf(X, s)[i] = X[s[i]]
<1>1. Len(s) \in Nat /\ \A i \in 1 .. Len(s) : X[s[i]] \in ImageOf(X)
  BY DEF ImageOf
<1> QED BY <1>1 DEF MapOf

LEMMA MapRemoved ==
  ASSUME NEW X, NEW s \in Seq(Pair), NEW i \in 1 .. Len(s)
  PROVE  RemoveAt(MapOf(X, s), i) = MapOf(X, RemoveAt(s, i))
<1> DEFINE N == ImageOf(X)
           f == MapOf(X, s)
           r == RemoveAt(s, i)
           lhs == RemoveAt(f, i)
           rhs == MapOf(X, r)
<1>1. /\ f \in Seq(N) /\ Len(f) = Len(s) /\ \A j \in 1 .. Len(s) : f[j] = X[s[j]]
  BY MapIs
<1>2. /\ r \in Seq(Pair) /\ Len(r) = Len(s) - 1
      /\ \A j \in 1 .. Len(s) - 1 : r[j] = s[Up(i, j)]
  BY RemoveAtIs
<1>3. /\ rhs \in Seq(N) /\ Len(rhs) = Len(r) /\ \A j \in 1 .. Len(r) : rhs[j] = X[r[j]]
  BY <1>2, MapIs
<1> HIDE DEF f, r, N
<1>4. /\ lhs \in Seq(N) /\ Len(lhs) = Len(f) - 1
      /\ \A j \in 1 .. Len(f) - 1 : lhs[j] = f[Up(i, j)]
  BY <1>1, RemoveAtIs
<1> HIDE DEF lhs, rhs
<1>5. \A j \in 1 .. Len(s) - 1 : Up(i, j) \in 1 .. Len(s)
  BY DEF Up
<1>6. ASSUME NEW j \in 1 .. Len(lhs) PROVE lhs[j] = rhs[j]
  <2>1. j \in 1 .. Len(s) - 1 /\ j \in 1 .. Len(r) /\ j \in 1 .. Len(f) - 1
    BY <1>1, <1>2, <1>4
  <2>2. lhs[j] = f[Up(i, j)] /\ rhs[j] = X[r[j]] /\ r[j] = s[Up(i, j)]
    BY <2>1, <1>2, <1>3, <1>4
  <2>3. f[Up(i, j)] = X[s[Up(i, j)]]
    BY <2>1, <1>1, <1>5
  <2> QED BY <2>2, <2>3
<1>7. Len(lhs) = Len(rhs)
  BY <1>1, <1>2, <1>3, <1>4
<1>8. lhs = rhs
  BY <1>3, <1>4, <1>6, <1>7, SeqEqual
<1>9. lhs = RemoveAt(MapOf(X, s), i) /\ rhs = MapOf(X, RemoveAt(s, i))
  BY DEF lhs, rhs, f, r
<1> QED BY <1>8, <1>9

(* An argument that is inserted at the place of its input.                 *)
LEMMA MapInserted ==
  ASSUME NEW X, NEW s, NEW S, Sorted(s, S), NEW a, a \notin S,
         NEW t, Sorted(t, S \cup {a}), NEW i \in 1 .. Len(t), t[i] = a
  PROVE  /\ i \in 1 .. Len(s) + 1 /\ Len(t) = Len(s) + 1
         /\ InsertAt(MapOf(X, s), i, X[a]) = MapOf(X, t)
<1> DEFINE N == ImageOf(X)
           f == MapOf(X, t)
           e == X[a]
<1>1. t \in Seq(Pair)
  BY DEF Sorted
<1>2. Sorted(RemoveAt(t, i), S)
  <2>1. Sorted(RemoveAt(t, i), (S \cup {a}) \ {a})
    BY RemoveSorted
  <2>2. (S \cup {a}) \ {a} = S
    OBVIOUS
  <2> QED BY <2>1, <2>2
<1>3. RemoveAt(t, i) = s
  BY <1>2, SortedOnce
<1>4. MapOf(X, s) = RemoveAt(f, i)
  BY <1>1, <1>3, MapRemoved
<1>5. f \in Seq(N) /\ i \in 1 .. Len(f) /\ f[i] = e /\ Len(f) = Len(t)
  BY <1>1, MapIs
<1>6. Len(s) = Len(t) - 1 /\ Len(t) \in Nat
  BY <1>1, <1>3, RemoveAtIs
<1> HIDE DEF f, N, e
<1>7. InsertAt(RemoveAt(f, i), i, f[i]) = f
  BY <1>5, InsertRemoved
<1>8. InsertAt(MapOf(X, s), i, e) = f
  BY <1>4, <1>5, <1>7
<1>9. i \in 1 .. Len(s) + 1 /\ Len(t) = Len(s) + 1
  BY <1>6
<1> QED BY <1>8, <1>9 DEF e, f

LEMMA InsertAtEnd ==
  ASSUME NEW E, NEW s \in Seq(E), NEW e \in E
  PROVE  InsertAt(s, Len(s) + 1, e) = Append(s, e)
<1> DEFINE n == Len(s)
           f == InsertAt(s, n + 1, e)
           g == Append(s, e)
<1>1. n \in Nat /\ n + 1 \in 1 .. n + 1
  OBVIOUS
<1>2. /\ f \in Seq(E) /\ Len(f) = n + 1
      /\ \A j \in 1 .. n + 1 : f[j] = IF j < n + 1 THEN s[j] ELSE IF j = n + 1 THEN e ELSE s[j - 1]
  BY <1>1, InsertAtIs
<1>3. g \in Seq(E) /\ Len(g) = n + 1 /\ g[n + 1] = e /\ \A j \in 1 .. n : g[j] = s[j]
  OBVIOUS
<1> HIDE DEF f, g
<1>4. ASSUME NEW j \in 1 .. n + 1 PROVE f[j] = g[j]
  <2>1. CASE j = n + 1
    BY <2>1, <1>1, <1>2, <1>3
  <2>2. CASE j # n + 1
    <3>1. j \in 1 .. n /\ j < n + 1
      BY <2>2, <1>1
    <3> QED BY <3>1, <1>2, <1>3
  <2> QED BY <2>1, <2>2
<1>5. f = g
  BY <1>2, <1>3, <1>4, SeqEqual
<1> QED BY <1>5 DEF f, g, n

LEMMA RowSorted ==
  ASSUME NEW v \in Nat, NEW n \in Nat
  PROVE  Sorted([p \in 1 .. n |-> <<v, p>>], RowUpTo(v, n))
<1> DEFINE r == [p \in 1 .. n |-> <<v, p>>]
<1>1. r \in Seq(Pair) /\ Len(r) = n /\ DOMAIN r = 1 .. n
  BY DEF Pair
<1>2. \A p \in 1 .. n : r[p] = <<v, p>>
  OBVIOUS
<1> HIDE DEF r
<1>3. ToSet(r) = RowUpTo(v, n)
  BY <1>1, <1>2 DEF ToSet, RowUpTo
<1>4. Rising(r)
  BY <1>1, <1>2 DEF Rising, Before
<1> QED BY <1>1, <1>3, <1>4 DEF Sorted, r

(* The inputs of one node: each stands at its number or before.            *)
LEMMA RowRank ==
  ASSUME NEW v \in Nat, NEW S \in SUBSET Row(v), NEW s, Sorted(s, S)
  PROVE  \A i \in 1 .. Len(s) : s[i] = <<v, s[i][2]>> /\ s[i][2] \in Nat /\ s[i][2] >= i
<1> DEFINE N == Len(s)
           Kept == {i \in 0 .. N : i = 0 \/ s[i][2] >= i}
<1>1. /\ s \in Seq(Pair) /\ N \in Nat /\ \A i \in 1 .. N : s[i] \in S
  BY SortedHas
<1>2. ASSUME NEW i \in 1 .. N PROVE s[i] = <<v, s[i][2]>> /\ s[i][1] = v /\ s[i][2] \in Nat \ {0}
  BY <1>1 DEF Row
<1> HIDE DEF N
<1>3. ASSUME NEW i \in 1 .. N, i - 1 \in Kept PROVE i \in Kept
  <2>1. CASE i = 1
    BY <2>1, <1>1, <1>2
  <2>2. CASE i # 1
    <3>1. i - 1 \in 1 .. N /\ i - 1 < i /\ i \in 0 .. N /\ i - 1 # 0
      BY <2>2, <1>1
    <3>2. s[i - 1][2] >= i - 1
      BY <3>1, <1>3
    <3>3. Before(s[i - 1], s[i])
      BY <3>1 DEF Sorted, Rising, N
    <3>4. s[i - 1][2] < s[i][2]
      BY <3>1, <3>3, <1>2 DEF Before
    <3>5. s[i][2] \in Nat /\ s[i - 1][2] \in Nat
      BY <3>1, <1>2
    <3> QED BY <3>1, <3>2, <3>4, <3>5, <1>1
  <2> QED BY <2>1, <2>2
<1>4. Kept = 0 .. N
  <2>1. 0 \in Kept /\ Kept \in SUBSET (0 .. N)
    BY <1>1
  <2> HIDE DEF Kept
  <2> QED BY <1>1, <1>3, <2>1, RecursionKeeps
<1>5. \A i \in 1 .. N : i \in 0 .. N /\ i # 0
  BY <1>1
<1> QED BY <1>2, <1>4, <1>5 DEF N

(* An argument is put in its place when those of all inputs before it are  *)
(* there, or those of no input behind it.                                  *)
LEMMA PutInPlace ==
  ASSUME NEW X, NEW v \in Nat, NEW S \in SUBSET Row(v), NEW s, Sorted(s, S),
         NEW a \in Row(v), a \notin S, NEW t, Sorted(t, S \cup {a}),
         (\A b \in S : b[2] < a[2]) \/ (\A q \in 1 .. a[2] - 1 : <<v, q>> \in S)
  PROVE  insertArgument(MapOf(X, s), a[2], X[a]) = MapOf(X, t)
<1> DEFINE T == S \cup {a}
<1>0. PICK p \in Nat \ {0} : a = <<v, p>> /\ a[2] = p
  BY DEF Row
<1>1. T \in SUBSET Row(v) /\ a \in T
  OBVIOUS
<1>a. (\A b \in S : b[2] < p) \/ (\A q \in 1 .. p - 1 : <<v, q>> \in S)
  BY <1>0
<1>2. PICK i \in 1 .. Len(t) : t[i] = a
  BY <1>1, SortedHas
<1>3. t[i][2] = p /\ p >= i /\ Len(t) \in Nat /\ i \in Nat
  <2>1. p >= i
    <3>1. t[i] = <<v, t[i][2]>> /\ t[i][2] \in Nat /\ t[i][2] >= i
      BY <1>1, RowRank
    <3> QED BY <3>1, <1>0, <1>2
  <2> QED BY <2>1, <1>0, <1>2, SortedHas
<1>4. /\ i \in 1 .. Len(s) + 1 /\ Len(t) = Len(s) + 1
      /\ InsertAt(MapOf(X, s), i, X[a]) = MapOf(X, t)
  <2> HIDE DEF T
  <2>1. Sorted(s, S) /\ Sorted(t, S \cup {a}) /\ a \notin S /\ t[i] = a /\ i \in 1 .. Len(t)
    BY <1>2
  <2> QED BY ONLY <2>1, MapInserted
<1>5. s \in Seq(Pair) /\ Len(s) \in Nat /\ a \in Pair
  BY SortedHas DEF Pair
<1>6. /\ MapOf(X, s) \in Seq(ImageOf(X)) /\ Len(MapOf(X, s)) = Len(s) /\ X[a] \in ImageOf(X)
  BY <1>5, MapIs DEF ImageOf
<1>7. i = p \/ (i = Len(s) + 1 /\ p > Len(s))
  <2>1. CASE \A b \in S : b[2] < p
    <3>1. SUFFICES ASSUME i # Len(t) PROVE FALSE
      BY <3>1, <1>3, <1>4, <1>5
    <3>2. Len(t) \in 1 .. Len(t) /\ i < Len(t)
      BY <3>1, <1>2, <1>3
    <3>3. Before(t[i], t[Len(t)])
      BY <3>2 DEF Sorted, Rising
    <3>4. t[Len(t)] \in T
      BY <3>2, SortedHas
    <3>5. t[Len(t)] # a
      BY <3>3, <1>2, <1>5, BeforeOrder
    <3>6. t[Len(t)][2] < p /\ t[Len(t)][1] = v /\ t[Len(t)][2] \in Nat
      BY <3>4, <3>5, <2>1, <1>0 DEF Row
    <3> QED BY <3>3, <3>6, <1>0, <1>2 DEF Before
  <2>2. CASE \A q \in 1 .. p - 1 : <<v, q>> \in S
    <3> DEFINE r == [q \in 1 .. p |-> <<v, q>>]
               R == RowUpTo(v, p)
    <3>1. Sorted(r, R) /\ Len(r) = p /\ r[p] = a /\ p \in 1 .. Len(r)
      BY <1>0, RowSorted
    <3>2. UpTo(T, t[i]) = UpTo(R, r[p])
      <4>1. ASSUME NEW b \in UpTo(T, a) PROVE b \in UpTo(R, a)
        <5>1. b \in T /\ (b = a \/ Before(b, a))
          BY DEF UpTo
        <5>2. PICK q \in Nat \ {0} : b = <<v, q>>
          BY <5>1, <1>1 DEF Row
        <5>3. q \in 1 .. p
          BY <5>1, <5>2, <1>0 DEF Before
        <5> QED BY <5>1, <5>2, <5>3 DEF UpTo, RowUpTo
      <4>2. ASSUME NEW b \in UpTo(R, a) PROVE b \in UpTo(T, a)
        <5>1. b \in R /\ (b = a \/ Before(b, a))
          BY DEF UpTo
        <5>2. PICK q \in 1 .. p : b = <<v, q>>
          BY <5>1 DEF RowUpTo
        <5>3. b = a \/ q \in 1 .. p - 1
          BY <5>2, <1>0
        <5> QED BY <5>1, <5>2, <5>3, <2>2 DEF UpTo
      <4>3. UpTo(T, a) = UpTo(R, a)
        <5> HIDE DEF T, R
        <5>1. UpTo(T, a) \subseteq UpTo(R, a) /\ UpTo(R, a) \subseteq UpTo(T, a)
          BY <4>1, <4>2
        <5> QED BY <5>1
      <4> HIDE DEF T, R, r
      <4> QED BY <4>3, <3>1, <1>2
    <3>3. t[i] = r[p]
      BY <3>1, <1>2
    <3> HIDE DEF r, R, T
    <3>4. i = p
      BY <3>1, <3>2, <3>3, <1>2, SamePlace DEF T
    <3> QED BY <3>4
  <2> QED BY <2>1, <2>2, <1>a
<1>8. CASE p > Len(s)
  <2>1. i = Len(s) + 1
    BY <1>3, <1>4, <1>5, <1>7, <1>8
  <2>2. insertArgument(MapOf(X, s), p, X[a]) = Append(MapOf(X, s), X[a])
    BY <1>0, <1>6, <1>8 DEF insertArgument
  <2>3. InsertAt(MapOf(X, s), Len(MapOf(X, s)) + 1, X[a]) = Append(MapOf(X, s), X[a])
    BY <1>6, InsertAtEnd
  <2> QED BY <2>1, <2>2, <2>3, <1>0, <1>4, <1>6
<1>9. CASE ~(p > Len(s))
  <2>1. i = p
    BY <1>7, <1>9
  <2>2. insertArgument(MapOf(X, s), p, X[a]) = InsertAt(MapOf(X, s), p, X[a])
    BY <1>0, <1>6, <1>9 DEF insertArgument
  <2> QED BY <2>1, <2>2, <1>0, <1>4
<1> QED BY <1>8, <1>9

-----------------------------------------------------------------------------
(* Arguments that are put into a list one after the other, followed by     *)
(* what the list is after each of them.                                    *)
Inserts(g, N, args, puts) ==
    g[0] = args /\ \A i \in 1 .. N : g[i] = insertArgument(g[i - 1], puts[i].at, puts[i].arg)

LEMMA InsertedIs ==
  ASSUME NEW args, NEW puts, Len(puts) \in Nat, NEW g, Inserts(g, Len(puts), args, puts)
  PROVE  inserted(args, puts) = g[Len(puts)]
<1> DEFINE N == Len(puts)
           next(x, i) == insertArgument(x, puts[i].at, puts[i].arg)
           Eq(F) == F = [k \in 0 .. N |->
                           IF k = 0 THEN args ELSE insertArgument(F[k - 1], puts[k].at, puts[k].arg)]
           upTo == CHOOSE F : Eq(F)
<1>1. inserted(args, puts) = upTo[N]
  BY DEF inserted
<1>2. Eq([i \in 0 .. N |-> g[i]])
  <2> DEFINE h == [i \in 0 .. N |-> g[i]]
  <2>1. ASSUME NEW i \in 0 .. N
        PROVE  g[i] = IF i = 0 THEN args ELSE next(h[i - 1], i)
    <3>1. CASE i = 0
      BY <3>1 DEF Inserts
    <3>2. CASE i # 0
      <4>1. i \in 1 .. N /\ i - 1 \in 0 .. N
        BY <3>2
      <4>2. h[i - 1] = g[i - 1]
        BY <4>1
      <4>3. g[i] = next(g[i - 1], i)
        BY <4>1 DEF Inserts
      <4> QED BY <3>2, <4>2, <4>3
    <3> QED BY <3>1, <3>2
  <2> QED BY <2>1, Zenon
<1>3. Eq(upTo)
  <2> HIDE DEF Eq
  <2> QED BY <1>2
<1>4. upTo = [i \in 0 .. N |-> IF i = 0 THEN args ELSE next(upTo[i - 1], i)]
  BY <1>3
<1> HIDE DEF upTo, next
<1> DEFINE Kept == {i \in 0 .. N : upTo[i] = g[i]}
<1>5. upTo[0] = args /\ \A i \in 1 .. N : upTo[i] = next(upTo[i - 1], i)
  <2>1. \A i \in 0 .. N : upTo[i] = IF i = 0 THEN args ELSE next(upTo[i - 1], i)
    BY <1>4
  <2>2. 0 \in 0 .. N /\ \A i \in 1 .. N : i \in 0 .. N /\ i # 0
    OBVIOUS
  <2> QED BY <2>1, <2>2
<1>6. 0 \in Kept
  BY <1>5 DEF Inserts
<1>7. ASSUME NEW i \in 1 .. N, i - 1 \in Kept PROVE i \in Kept
  <2>1. upTo[i - 1] = g[i - 1] /\ i \in 0 .. N
    BY <1>7
  <2>2. g[i] = next(g[i - 1], i)
    BY DEF Inserts, next
  <2> QED BY <1>5, <2>1, <2>2
<1>8. Kept = 0 .. N
  <2>1. Kept \in SUBSET (0 .. N) /\ N \in Nat
    OBVIOUS
  <2> HIDE DEF Kept, N
  <2> QED BY <1>6, <1>7, <2>1, RecursionKeeps
<1>9. upTo[N] = g[N]
  <2>1. N \in 0 .. N
    OBVIOUS
  <2> QED BY <1>8, <2>1
<1> QED BY <1>1, <1>9

PutsOf(X, q) == [i \in 1 .. Len(q) |-> put(q[i][2], X[q[i]])]

(* Different inputs of one node, each of which comes behind those that are *)
(* there, or finds all inputs before it.                                   *)
Placed(q, v) ==
    /\ \A i \in 1 .. Len(q) : q[i] \in Row(v) /\ q[i] \in AllPins
    /\ \A i, j \in 1 .. Len(q) : q[i] = q[j] => i = j
    /\ \A i \in 1 .. Len(q) : \/ \A j \in 1 .. i - 1 : q[j][2] < q[i][2]
                              \/ \A p \in 1 .. q[i][2] - 1 : \E j \in 1 .. i - 1 : q[j] = <<v, p>>

LEMMA PutsInPlace ==
  ASSUME NEW X, NEW v \in Nat, NEW q \in Seq(Pair), Placed(q, v)
  PROVE  inserted(<<>>, PutsOf(X, q)) = MapOf(X, Ordered(ToSet(q)))
<1> DEFINE N == Len(q)
           puts == PutsOf(X, q)
           seen(i) == {q[j] : j \in 1 .. i}
           g == [i \in 0 .. N |-> MapOf(X, Ordered(seen(i)))]
<1>0. N \in Nat
  OBVIOUS
<1>1. /\ Len(puts) = N
      /\ \A i \in 1 .. N : puts[i].at = q[i][2] /\ puts[i].arg = X[q[i]]
  BY DEF PutsOf, put
<1>2. g[0] = <<>>
  <2>1. seen(0) = {} /\ 0 \in 0 .. N
    OBVIOUS
  <2>2. Sorted(Ordered({}), {})
    BY OrderedIs
  <2>3. Ordered({}) \in Seq(Pair) /\ ~(1 \in 1 .. Len(Ordered({})))
    BY <2>2, SortedHas
  <2>4. MapOf(X, Ordered({})) = <<>>
    BY <2>3 DEF MapOf
  <2> HIDE DEF seen
  <2> QED BY <2>1, <2>4
<1>3. ASSUME NEW i \in 1 .. N PROVE g[i] = insertArgument(g[i - 1], puts[i].at, puts[i].arg)
  <2> DEFINE a == q[i]
             S == seen(i - 1)
             T == seen(i)
  <2>1. i \in 0 .. N /\ i - 1 \in 0 .. N
    OBVIOUS
  <2>2. S \in SUBSET Row(v) /\ S \in SUBSET AllPins /\ a \in Row(v) /\ a \in AllPins
    BY DEF Placed
  <2>3. a \notin S
    <3>1. ASSUME NEW j \in 1 .. i - 1 PROVE q[j] # a
      BY DEF Placed
    <3> QED BY <3>1
  <2>4. T = S \cup {a}
    <3>1. \A j : j \in 1 .. i <=> j \in 1 .. i - 1 \/ j = i
      OBVIOUS
    <3> QED BY <3>1
  <2>5. (\A b \in S : b[2] < a[2]) \/ (\A p \in 1 .. a[2] - 1 : <<v, p>> \in S)
    <3>1. CASE \A j \in 1 .. i - 1 : q[j][2] < q[i][2]
      BY <3>1
    <3>2. CASE \A p \in 1 .. q[i][2] - 1 : \E j \in 1 .. i - 1 : q[j] = <<v, p>>
      BY <3>2
    <3> QED BY <3>1, <3>2 DEF Placed
  <2>6. g[i] = MapOf(X, Ordered(T)) /\ g[i - 1] = MapOf(X, Ordered(S))
    BY <2>1
  <2>7. puts[i].at = a[2] /\ puts[i].arg = X[a]
    BY <1>1
  <2> HIDE DEF g, S, T, a, seen, puts
  <2>8. S \cup {a} \in SUBSET AllPins
    BY <2>2
  <2>9. Sorted(Ordered(S), S) /\ Sorted(Ordered(T), S \cup {a})
    BY <2>2, <2>4, <2>8, OrderedIs
  <2>10. insertArgument(MapOf(X, Ordered(S)), a[2], X[a]) = MapOf(X, Ordered(T))
    BY <2>2, <2>3, <2>5, <2>9, PutInPlace
  <2> QED BY <2>6, <2>7, <2>10
<1>4. inserted(<<>>, puts) = g[N]
  <2> HIDE DEF g, puts, N
  <2>1. Inserts(g, N, <<>>, puts)
    BY <1>2, <1>3 DEF Inserts
  <2>2. Len(puts) \in Nat
    BY <1>1 DEF N
  <2> QED BY <1>1, <2>1, <2>2, InsertedIs
<1>5. g[N] = MapOf(X, Ordered(ToSet(q)))
  <2>1. seen(N) = ToSet(q)
    BY DEF ToSet
  <2>2. g[N] = MapOf(X, Ordered(seen(N)))
    OBVIOUS
  <2> HIDE DEF g, seen
  <2> QED BY <2>1, <2>2
<1> QED BY <1>4, <1>5

LEMMA JoinedIs ==
  ASSUME NEW T, NEW A \in Seq(T), NEW B \in Seq(T)
  PROVE  /\ A \o B \in Seq(T) /\ Len(A \o B) = Len(A) + Len(B)
         /\ Len(A) \in Nat /\ Len(B) \in Nat
         /\ \A i \in 1 .. Len(A) : (A \o B)[i] = A[i]
         /\ \A i \in 1 .. Len(B) : (A \o B)[Len(A) + i] = B[i]
         /\ \A i \in 1 .. Len(A) + Len(B) : i \in 1 .. Len(A) \/ \E k \in 1 .. Len(B) : i = Len(A) + k
<1>1. ASSUME NEW i \in 1 .. Len(A) + Len(B), i \notin 1 .. Len(A)
      PROVE  i - Len(A) \in 1 .. Len(B) /\ i = Len(A) + (i - Len(A))
  BY <1>1
<1>2. \A i \in 1 .. Len(B) : (A \o B)[Len(A) + i] = B[i]
  OBVIOUS
<1>3. \A i \in 1 .. Len(A) : (A \o B)[i] = A[i]
  OBVIOUS
<1>4. /\ A \o B \in Seq(T) /\ Len(A \o B) = Len(A) + Len(B)
      /\ Len(A) \in Nat /\ Len(B) \in Nat
  OBVIOUS
<1>5. \A i \in 1 .. Len(A) + Len(B) : i \in 1 .. Len(A) \/ \E k \in 1 .. Len(B) : i = Len(A) + k
  BY <1>1
<1> QED BY <1>2, <1>3, <1>4, <1>5

LEMMA PutsJoined ==
  ASSUME NEW X, NEW A \in Seq(Pair), NEW B \in Seq(Pair)
  PROVE  PutsOf(X, A \o B) = PutsOf(X, A) \o PutsOf(X, B)
<1> DEFINE q == A \o B
           a == Len(A)
           b == Len(B)
           pa == PutsOf(X, A)
           pb == PutsOf(X, B)
           pq == PutsOf(X, q)
           T == {put(c[2], X[c]) : c \in Pair}
<1>1. /\ q \in Seq(Pair) /\ Len(q) = a + b /\ a \in Nat /\ b \in Nat
      /\ \A i \in 1 .. a : q[i] = A[i]
      /\ \A i \in 1 .. b : q[a + i] = B[i]
  BY JoinedIs
<1> HIDE DEF q
<1>2. ASSUME NEW s \in Seq(Pair)
      PROVE  /\ PutsOf(X, s) \in Seq(T) /\ Len(PutsOf(X, s)) = Len(s)
             /\ \A i \in 1 .. Len(s) : PutsOf(X, s)[i] = put(s[i][2], X[s[i]])
  <2>1. Len(s) \in Nat /\ \A i \in 1 .. Len(s) : put(s[i][2], X[s[i]]) \in T
    OBVIOUS
  <2> HIDE DEF T
  <2> QED BY <2>1 DEF PutsOf
<1>3. /\ pa \in Seq(T) /\ Len(pa) = a /\ \A i \in 1 .. a : pa[i] = put(A[i][2], X[A[i]])
      /\ pb \in Seq(T) /\ Len(pb) = b /\ \A i \in 1 .. b : pb[i] = put(B[i][2], X[B[i]])
      /\ pq \in Seq(T) /\ Len(pq) = a + b /\ \A i \in 1 .. a + b : pq[i] = put(q[i][2], X[q[i]])
  BY <1>1, <1>2
<1> HIDE DEF T, pa, pb, pq, a, b
<1> DEFINE pj == pa \o pb
<1>4. /\ pj \in Seq(T) /\ Len(pj) = a + b
      /\ \A i \in 1 .. a : pj[i] = pa[i]
      /\ \A i \in 1 .. b : pj[a + i] = pb[i]
  <2>1. /\ pj \in Seq(T) /\ Len(pj) = Len(pa) + Len(pb)
        /\ \A i \in 1 .. Len(pa) : pj[i] = pa[i]
        /\ \A i \in 1 .. Len(pb) : pj[Len(pa) + i] = pb[i]
    <3>1. pa \in Seq(T) /\ pb \in Seq(T)
      BY <1>3
    <3> QED BY ONLY <3>1, JoinedIs DEF pj
  <2> QED BY ONLY <2>1, <1>3
<1> HIDE DEF pj
<1>5. ASSUME NEW i \in 1 .. a + b PROVE pq[i] = pj[i]
  <2>1. CASE i \in 1 .. a
    <3>1. i \in 1 .. a + b /\ pq[i] = put(q[i][2], X[q[i]]) /\ q[i] = A[i]
      BY <2>1, <1>1, <1>3
    <3>2. pj[i] = put(A[i][2], X[A[i]])
      BY <2>1, <1>3, <1>4
    <3> QED BY <3>1, <3>2
  <2>2. CASE i \notin 1 .. a
    <3>1. PICK k \in 1 .. b : i = a + k
      <4>1. i - a \in 1 .. b /\ i = a + (i - a)
        BY <2>2, <1>1
      <4> QED BY <4>1
    <3>2. pq[i] = put(q[i][2], X[q[i]]) /\ q[i] = B[k]
      BY <3>1, <1>1, <1>3
    <3>3. pj[i] = put(B[k][2], X[B[k]])
      BY <3>1, <1>3, <1>4
    <3> QED BY <3>2, <3>3
  <2> QED BY <2>1, <2>2
<1>6. pq = pj
  BY <1>1, <1>3, <1>4, <1>5, SeqEqual
<1>7. pq = PutsOf(X, A \o B) /\ pa = PutsOf(X, A) /\ pb = PutsOf(X, B)
  BY DEF pq, pa, pb, q
<1> QED BY <1>6, <1>7 DEF pj

LEMMA RowRises ==
  ASSUME NEW v \in Nat, NEW S \in SUBSET Row(v), NEW s, Sorted(s, S)
  PROVE  \A i, j \in 1 .. Len(s) : s[i][2] < s[j][2] <=> i < j
<1>1. ASSUME NEW i \in 1 .. Len(s), NEW j \in 1 .. Len(s) PROVE s[i][2] < s[j][2] <=> i < j
  <2>1. Before(s[i], s[j]) <=> i < j
    BY SortedPlace
  <2>2. s[i] = <<v, s[i][2]>> /\ s[j] = <<v, s[j][2]>>
    BY RowRank
  <2>3. s[i][1] = v /\ s[j][1] = v
    BY <2>2
  <2> QED BY <2>1, <2>3 DEF Before
<1> QED BY <1>1

(* Three lists of inputs that make up the row of a node, the first or the  *)
(* last of them empty.                                                     *)
LEMMA JoinPlaced ==
  ASSUME NEW v \in Nat, NEW n \in Nat, RowUpTo(v, n) \subseteq AllPins,
         NEW SA, NEW SB, NEW SE, SA \cup SB \cup SE = RowUpTo(v, n),
         SA \cap SB = {}, SA \cap SE = {}, SB \cap SE = {}, SA = {} \/ SE = {},
         NEW A, NEW B, NEW E, Sorted(A, SA), Sorted(B, SB), Sorted(E, SE)
  PROVE  /\ A \o B \o E \in Seq(Pair) /\ Placed(A \o B \o E, v)
         /\ ToSet(A \o B \o E) = RowUpTo(v, n)
<1> DEFINE AB == A \o B
           q == AB \o E
           a == Len(A)
           b == Len(B)
           e == Len(E)
           R == RowUpTo(v, n)
<1>1. A \in Seq(Pair) /\ B \in Seq(Pair) /\ E \in Seq(Pair)
  BY SortedHas
<1>2. /\ AB \in Seq(Pair) /\ Len(AB) = a + b /\ a \in Nat /\ b \in Nat
      /\ \A i \in 1 .. a : AB[i] = A[i]
      /\ \A i \in 1 .. b : AB[a + i] = B[i]
      /\ \A i \in 1 .. a + b : i \in 1 .. a \/ \E k \in 1 .. b : i = a + k
  BY <1>1, JoinedIs
<1> HIDE DEF AB
<1>3. /\ q \in Seq(Pair) /\ Len(q) = a + b + e /\ e \in Nat
      /\ \A i \in 1 .. a + b : q[i] = AB[i]
      /\ \A i \in 1 .. e : q[a + b + i] = E[i]
      /\ \A i \in 1 .. a + b + e : i \in 1 .. a + b \/ \E k \in 1 .. e : i = a + b + k
  <2> DEFINE ab == Len(AB)
  <2>1. /\ q \in Seq(Pair) /\ Len(q) = ab + e /\ e \in Nat
        /\ \A i \in 1 .. ab : q[i] = AB[i]
        /\ \A i \in 1 .. e : q[ab + i] = E[i]
        /\ \A i \in 1 .. ab + e : i \in 1 .. ab \/ \E k \in 1 .. e : i = ab + k
    <3>1. AB \in Seq(Pair) /\ E \in Seq(Pair)
      BY <1>1, <1>2
    <3> QED BY ONLY <3>1, JoinedIs DEF q, ab, e
  <2>2. ab = a + b
    BY <1>2
  <2> HIDE DEF ab, a, b, e, q
  <2> QED BY <2>1, <2>2
<1> HIDE DEF q
<1>4. /\ \A i \in 1 .. a : i \in 1 .. a + b + e /\ q[i] = A[i]
      /\ \A i \in 1 .. b : a + i \in 1 .. a + b + e /\ q[a + i] = B[i]
      /\ \A i \in 1 .. e : a + b + i \in 1 .. a + b + e /\ q[a + b + i] = E[i]
  <2>1. \A i \in 1 .. a : i \in 1 .. a + b /\ i \in 1 .. a + b + e
    BY <1>2, <1>3
  <2>2. \A i \in 1 .. b : a + i \in 1 .. a + b /\ a + i \in 1 .. a + b + e
    BY <1>2, <1>3
  <2>3. \A i \in 1 .. e : a + b + i \in 1 .. a + b + e
    BY <1>2, <1>3
  <2> HIDE DEF a, b, e
  <2> QED BY <2>1, <2>2, <2>3, <1>2, <1>3
<1>5. ASSUME NEW i \in 1 .. a + b + e
      PROVE  i \in 1 .. a \/ (\E k \in 1 .. b : i = a + k) \/ (\E k \in 1 .. e : i = a + b + k)
  BY <1>2, <1>3
<1>6. /\ \A i \in 1 .. a : A[i] \in SA
      /\ \A i \in 1 .. b : B[i] \in SB
      /\ \A i \in 1 .. e : E[i] \in SE
      /\ \A c \in SA : \E i \in 1 .. a : A[i] = c
      /\ \A c \in SB : \E i \in 1 .. b : B[i] = c
      /\ \A c \in SE : \E i \in 1 .. e : E[i] = c
  BY SortedHas
<1>7. R \in SUBSET Row(v) /\ SA \in SUBSET Row(v) /\ SB \in SUBSET Row(v) /\ SE \in SUBSET Row(v)
  BY DEF Row, RowUpTo
<1>8. /\ \A i, j \in 1 .. a : (A[i][2] < A[j][2] <=> i < j) /\ (A[i] = A[j] => i = j)
      /\ \A i, j \in 1 .. b : (B[i][2] < B[j][2] <=> i < j) /\ (B[i] = B[j] => i = j)
      /\ \A i, j \in 1 .. e : (E[i][2] < E[j][2] <=> i < j) /\ (E[i] = E[j] => i = j)
  <2>1. /\ \A i, j \in 1 .. a : A[i][2] < A[j][2] <=> i < j
        /\ \A i, j \in 1 .. b : B[i][2] < B[j][2] <=> i < j
        /\ \A i, j \in 1 .. e : E[i][2] < E[j][2] <=> i < j
    BY <1>7, RowRises
  <2>2. /\ \A i, j \in 1 .. a : A[i] = A[j] => i = j
        /\ \A i, j \in 1 .. b : B[i] = B[j] => i = j
        /\ \A i, j \in 1 .. e : E[i] = E[j] => i = j
    BY SortedPlace
  <2> QED BY <2>1, <2>2
<1>9. {q[i] : i \in 1 .. a + b + e} = R
  <2> HIDE DEF a, b, e, R
  <2>1. ASSUME NEW i \in 1 .. a + b + e PROVE q[i] \in SA \cup SB \cup SE
    BY <1>4, <1>5, <1>6
  <2>2. ASSUME NEW c \in SA \cup SB \cup SE PROVE \E i \in 1 .. a + b + e : q[i] = c
    <3>1. CASE c \in SA
      BY <3>1, <1>4, <1>6
    <3>2. CASE c \in SB
      BY <3>2, <1>4, <1>6
    <3>3. CASE c \in SE
      BY <3>3, <1>4, <1>6
    <3> QED BY <3>1, <3>2, <3>3
  <2>3. SA \cup SB \cup SE = R
    BY DEF R
  <2> QED BY <2>1, <2>2, <2>3
<1>10. ASSUME NEW i \in 1 .. a + b + e, NEW j \in 1 .. a + b + e, q[i] = q[j] PROVE i = j
  <2> HIDE DEF a, b, e, R
  <2>1. CASE i \in 1 .. a
    <3>1. q[i] \in SA /\ q[j] \notin SB /\ q[j] \notin SE
      BY <2>1, <1>4, <1>6, <1>10
    <3>2. j \in 1 .. a
      BY <3>1, <1>4, <1>5, <1>6
    <3> QED BY <3>2, <2>1, <1>4, <1>8, <1>10
  <2>2. ASSUME NEW k \in 1 .. b, i = a + k PROVE i = j
    <3>1. q[i] \in SB /\ q[j] \notin SA /\ q[j] \notin SE
      BY <2>2, <1>4, <1>6, <1>10
    <3>2. PICK l \in 1 .. b : j = a + l
      BY <3>1, <1>4, <1>5, <1>6
    <3> QED BY <3>2, <2>2, <1>4, <1>8, <1>10
  <2>3. ASSUME NEW k \in 1 .. e, i = a + b + k PROVE i = j
    <3>1. q[i] \in SE /\ q[j] \notin SA /\ q[j] \notin SB
      BY <2>3, <1>4, <1>6, <1>10
    <3>2. PICK l \in 1 .. e : j = a + b + l
      BY <3>1, <1>4, <1>5, <1>6
    <3> QED BY <3>2, <2>3, <1>4, <1>8, <1>10
  <2> QED BY <2>1, <2>2, <2>3, <1>5
<1>11. ASSUME NEW i \in 1 .. a + b + e
       PROVE  \/ \A j \in 1 .. i - 1 : q[j][2] < q[i][2]
              \/ \A p \in 1 .. q[i][2] - 1 : \E j \in 1 .. i - 1 : q[j] = <<v, p>>
  <2>1. ASSUME NEW p \in 1 .. q[i][2] - 1
        PROVE  <<v, p>> \in SA \cup SB \cup SE /\ p < q[i][2] /\ <<v, p>>[2] = p
    <3>1. q[i] \in R
      BY <1>9
    <3>2. PICK m \in 1 .. n : q[i] = <<v, m>>
      BY <3>1 DEF RowUpTo
    <3>3. p \in 1 .. n /\ p < q[i][2]
      BY <3>2
    <3>4. <<v, p>> \in R
      BY <3>3 DEF RowUpTo
    <3> QED BY <3>3, <3>4
  <2> HIDE DEF a, b, e, R
  <2>2. CASE i \in 1 .. a
    <3>1. \A j \in 1 .. i - 1 : j \in 1 .. a /\ j < i
      BY <2>2, <1>2
    <3> QED BY <3>1, <2>2, <1>4, <1>8
  <2>3. ASSUME NEW k \in 1 .. b, i = a + k
        PROVE  \/ \A j \in 1 .. i - 1 : q[j][2] < q[i][2]
               \/ \A p \in 1 .. q[i][2] - 1 : \E j \in 1 .. i - 1 : q[j] = <<v, p>>
    <3>1. CASE SA = {}
      <4>1. a = 0
        BY <3>1, <1>2, <1>6
      <4>2. i = k /\ \A j \in 1 .. i - 1 : j \in 1 .. b /\ j < k /\ a + j = j
        BY <4>1, <2>3, <1>2
      <4> QED BY <4>2, <2>3, <1>4, <1>8
    <3>2. CASE SE = {}
      <4>1. ASSUME NEW p \in 1 .. q[i][2] - 1 PROVE \E j \in 1 .. i - 1 : q[j] = <<v, p>>
        <5>1. CASE <<v, p>> \in SA
          <6>1. PICK j \in 1 .. a : A[j] = <<v, p>>
            BY <5>1, <1>6
          <6>2. j \in 1 .. i - 1
            BY <2>3, <1>2
          <6> QED BY <6>1, <6>2, <1>4
        <5>2. CASE <<v, p>> \in SB
          <6>1. PICK l \in 1 .. b : B[l] = <<v, p>>
            BY <5>2, <1>6
          <6>2. B[l][2] < B[k][2]
            BY <6>1, <2>1, <2>3, <1>4
          <6>3. l < k
            BY <6>2, <1>8
          <6>4. a + l \in 1 .. i - 1
            BY <6>3, <2>3, <1>2
          <6> QED BY <6>1, <6>4, <1>4
        <5> QED BY <5>1, <5>2, <3>2, <2>1
      <4> QED BY <4>1
    <3> QED BY <3>1, <3>2
  <2>4. ASSUME NEW k \in 1 .. e, i = a + b + k, NEW p \in 1 .. q[i][2] - 1
        PROVE  \E j \in 1 .. i - 1 : q[j] = <<v, p>>
    <3>1. CASE <<v, p>> \in SA
      <4>1. PICK j \in 1 .. a : A[j] = <<v, p>>
        BY <3>1, <1>6
      <4>2. j \in 1 .. i - 1
        BY <2>4, <1>2, <1>3
      <4> QED BY <4>1, <4>2, <1>4
    <3>2. CASE <<v, p>> \in SB
      <4>1. PICK l \in 1 .. b : B[l] = <<v, p>>
        BY <3>2, <1>6
      <4>2. a + l \in 1 .. i - 1
        BY <2>4, <1>2, <1>3
      <4> QED BY <4>1, <4>2, <1>4
    <3>3. CASE <<v, p>> \in SE
      <4>1. PICK l \in 1 .. e : E[l] = <<v, p>>
        BY <3>3, <1>6
      <4>2. E[l][2] < E[k][2]
        BY <4>1, <2>1, <2>4, <1>4
      <4>3. l < k
        BY <4>2, <1>8
      <4>4. a + b + l \in 1 .. i - 1
        BY <4>3, <2>4, <1>2, <1>3
      <4> QED BY <4>1, <4>4, <1>4
    <3> QED BY <3>1, <3>2, <3>3, <2>1
  <2> QED BY <2>2, <2>3, <2>4, <1>5
<1>12. Placed(q, v)
  <2>1. \A i \in 1 .. Len(q) : q[i] \in Row(v) /\ q[i] \in AllPins
    BY <1>3, <1>7, <1>9
  <2> HIDE DEF a, b, e
  <2> QED BY <2>1, <1>3, <1>10, <1>11 DEF Placed
<1>13. ToSet(q) = R
  <2>1. DOMAIN q = 1 .. a + b + e
    BY <1>3
  <2> QED BY <2>1, <1>9 DEF ToSet
<1> QED BY <1>3, <1>12, <1>13 DEF q, AB

(* The list that they make.                                                *)
RowOf(X, v, n) == [p \in 1 .. n |-> X[<<v, p>>]]

LEMMA JoinInPlace ==
  ASSUME NEW X, NEW v \in Nat, NEW n \in Nat, RowUpTo(v, n) \subseteq AllPins,
         NEW SA, NEW SB, NEW SE, SA \cup SB \cup SE = RowUpTo(v, n),
         SA \cap SB = {}, SA \cap SE = {}, SB \cap SE = {}, SA = {} \/ SE = {},
         NEW A, NEW B, NEW E, Sorted(A, SA), Sorted(B, SB), Sorted(E, SE)
  PROVE  inserted(<<>>, PutsOf(X, A) \o PutsOf(X, B) \o PutsOf(X, E)) = RowOf(X, v, n)
<1> DEFINE q == A \o B \o E
           R == RowUpTo(v, n)
           r == [p \in 1 .. n |-> <<v, p>>]
<1>1. q \in Seq(Pair) /\ Placed(q, v) /\ ToSet(q) = R
  <2>1. /\ v \in Nat /\ n \in Nat /\ RowUpTo(v, n) \subseteq AllPins
        /\ SA \cup SB \cup SE = RowUpTo(v, n)
        /\ SA \cap SB = {} /\ SA \cap SE = {} /\ SB \cap SE = {} /\ (SA = {} \/ SE = {})
        /\ Sorted(A, SA) /\ Sorted(B, SB) /\ Sorted(E, SE)
    OBVIOUS
  <2> QED BY ONLY <2>1, JoinPlaced
<1>2. PutsOf(X, q) = PutsOf(X, A) \o PutsOf(X, B) \o PutsOf(X, E)
  <2>1. A \in Seq(Pair) /\ B \in Seq(Pair) /\ E \in Seq(Pair) /\ A \o B \in Seq(Pair)
    <3>1. A \in Seq(Pair) /\ B \in Seq(Pair) /\ E \in Seq(Pair)
      BY SortedHas
    <3> QED BY <3>1, JoinedIs
  <2>2. PutsOf(X, A \o B) = PutsOf(X, A) \o PutsOf(X, B)
    BY <2>1, PutsJoined
  <2>3. PutsOf(X, (A \o B) \o E) = PutsOf(X, A \o B) \o PutsOf(X, E)
    BY <2>1, PutsJoined
  <2> QED BY <2>2, <2>3
<1> HIDE DEF q
<1>4. inserted(<<>>, PutsOf(X, q)) = MapOf(X, Ordered(ToSet(q)))
  BY <1>1, PutsInPlace
<1>5. Ordered(R) = r
  <2>1. Sorted(Ordered(R), R) /\ Sorted(r, R)
    BY OrderedIs, RowSorted
  <2> HIDE DEF r, R
  <2> QED BY <2>1, SortedOnce
<1>6. MapOf(X, r) = RowOf(X, v, n)
  BY DEF MapOf, RowOf
<1> QED BY <1>1, <1>2, <1>4, <1>5, <1>6

(* What is given in front of empty arguments.                              *)
Pin(v, r) == <<v, r>>
Spread(X, v, D, m) == [r \in 1 .. m |-> IF Pin(v, r) \in D THEN X[Pin(v, r)] ELSE Empty]

LEMMA SpreadTyped ==
  ASSUME NEW X, NEW v \in Nat, NEW S, NEW m \in Nat
  PROVE  /\ Spread(X, v, S, m) \in Seq(ImageOf(X) \cup {Empty})
         /\ Len(Spread(X, v, S, m)) = m /\ DOMAIN Spread(X, v, S, m) = 1 .. m
<1>1. \A r \in 1 .. m : (IF Pin(v, r) \in S THEN X[Pin(v, r)] ELSE Empty) \in ImageOf(X) \cup {Empty}
  BY DEF ImageOf, Pair, Pin
<1> QED BY <1>1 DEF Spread

LEMMA SpreadAt ==
  ASSUME NEW X, NEW v, NEW S, NEW m \in Nat, NEW r \in 1 .. m
  PROVE  /\ Pin(v, r) \in S => Spread(X, v, S, m)[r] = X[Pin(v, r)]
         /\ Pin(v, r) \notin S => Spread(X, v, S, m)[r] = Empty
BY DEF Spread

LEMMA SpreadInserts ==
  ASSUME NEW X, NEW v \in Nat, NEW D, NEW m \in Nat, NEW p \in 1 .. m,
         \A q \in Nat : Pin(v, q) \in D => q < p
  PROVE  insertArgument(Spread(X, v, D, m), p, X[Pin(v, p)]) = Spread(X, v, D \cup {Pin(v, p)}, m + 1)
<1> DEFINE T == ImageOf(X) \cup {Empty}
           e == X[Pin(v, p)]
           f == Spread(X, v, D, m)
           F == D \cup {Pin(v, p)}
           g == Spread(X, v, F, m + 1)
           h == InsertAt(f, p, e)
<1>1. /\ f \in Seq(T) /\ Len(f) = m
      /\ \A r \in 1 .. m : Pin(v, r) \in D => f[r] = X[Pin(v, r)]
      /\ \A r \in 1 .. m : Pin(v, r) \notin D => f[r] = Empty
  <2>1. f \in Seq(T) /\ Len(f) = m
    BY SpreadTyped
  <2>2. ASSUME NEW r \in 1 .. m PROVE /\ Pin(v, r) \in D => f[r] = X[Pin(v, r)]
                                      /\ Pin(v, r) \notin D => f[r] = Empty
    BY SpreadAt
  <2> QED BY <2>1, <2>2
<1>2. /\ g \in Seq(T) /\ Len(g) = m + 1
      /\ \A r \in 1 .. m + 1 : Pin(v, r) \in F => g[r] = X[Pin(v, r)]
      /\ \A r \in 1 .. m + 1 : Pin(v, r) \notin F => g[r] = Empty
  BY SpreadTyped, SpreadAt
<1>3. e \in T
  BY DEF ImageOf, Pair, Pin
<1>4. \A r \in Nat : Pin(v, r) \in F <=> Pin(v, r) \in D \/ r = p
  BY DEF Pin
<1> HIDE DEF T, f, g, F
<1>5. /\ h \in Seq(T) /\ Len(h) = m + 1
      /\ \A r \in 1 .. m + 1 : h[r] = IF r < p THEN f[r] ELSE IF r = p THEN e ELSE f[r - 1]
  <2>1. p \in 1 .. Len(f) + 1 /\ f \in Seq(T)
    BY <1>1
  <2>2. /\ h \in Seq(T) /\ Len(h) = Len(f) + 1
        /\ \A r \in 1 .. Len(f) + 1 : h[r] = IF r < p THEN f[r] ELSE IF r = p THEN e ELSE f[r - 1]
    <3> HIDE DEF e
    <3>1. ASSUME NEW s \in Seq(T), NEW k \in 1 .. Len(s) + 1
          PROVE  /\ InsertAt(s, k, e) \in Seq(T) /\ Len(InsertAt(s, k, e)) = Len(s) + 1
                 /\ \A r \in 1 .. Len(s) + 1 :
                      InsertAt(s, k, e)[r] = IF r < k THEN s[r] ELSE IF r = k THEN e ELSE s[r - 1]
      BY <1>3, InsertAtIs
    <3> QED BY <2>1, <3>1
  <2> QED BY <2>2, <1>1
<1> HIDE DEF h
<1>6. ASSUME NEW r \in 1 .. m + 1 PROVE h[r] = g[r]
  <2>1. CASE r < p
    <3>1. r \in 1 .. m /\ r # p
      BY <2>1
    <3>2. h[r] = f[r]
      BY <3>1, <2>1, <1>5
    <3> QED BY <3>1, <3>2, <1>1, <1>2, <1>4
  <2>2. CASE r = p
    <3>1. h[r] = e /\ Pin(v, r) \in F
      BY <2>2, <1>4, <1>5
    <3>2. g[r] = X[Pin(v, r)]
      BY <3>1, <1>2
    <3> QED BY <3>1, <3>2, <2>2
  <2>3. CASE r > p
    <3>1. r - 1 \in 1 .. m /\ ~(r - 1 < p) /\ ~(r < p) /\ r # p
      BY <2>3
    <3>2. h[r] = f[r - 1]
      BY <3>1, <1>5
    <3>3. Pin(v, r - 1) \notin D /\ Pin(v, r) \notin D
      BY <3>1
    <3>4. Pin(v, r) \notin F
      BY <3>1, <3>3, <1>4
    <3>5. f[r - 1] = Empty
      BY <3>1, <3>3, <1>1
    <3>6. g[r] = Empty
      BY <3>4, <1>2
    <3> QED BY <3>2, <3>5, <3>6
  <2> QED BY <2>1, <2>2, <2>3
<1>7. h = g
  BY <1>2, <1>5, <1>6, SeqEqual
<1>8. insertArgument(f, p, e) = h
  <2>1. ~(p > Len(f))
    BY <1>1
  <2> QED BY <2>1 DEF insertArgument, h
<1> QED BY <1>7, <1>8 DEF f, g, F

LEMMA GivenIs ==
  ASSUME NEW X, NEW v \in Nat, NEW n \in Nat, NEW D \in SUBSET RowUpTo(v, n), NEW own, Sorted(own, D)
  PROVE  /\ Len(own) \in Nat
         /\ inserted([p \in 1 .. n |-> Empty], PutsOf(X, own)) = Spread(X, v, D, n + Len(own))
<1> DEFINE N == Len(own)
           puts == PutsOf(X, own)
           seen(i) == {own[j] : j \in 1 .. i}
           g == [i \in 0 .. N |-> Spread(X, v, seen(i), n + i)]
<1>1. N \in Nat /\ own \in Seq(Pair)
  BY SortedHas
<1>2. /\ Len(puts) = N
      /\ \A i \in 1 .. N : puts[i].at = own[i][2] /\ puts[i].arg = X[own[i]]
  BY <1>1 DEF PutsOf, put
<1>3. g[0] = [p \in 1 .. n |-> Empty]
  <2>1. seen(0) = {} /\ 0 \in 0 .. N /\ n + 0 = n
    BY <1>1
  <2>2. Spread(X, v, {}, n) = [p \in 1 .. n |-> Empty]
    BY DEF Spread
  <2> HIDE DEF seen
  <2> QED BY <2>1, <2>2
<1>4. ASSUME NEW i \in 1 .. N PROVE g[i] = insertArgument(g[i - 1], puts[i].at, puts[i].arg)
  <2> DEFINE S == seen(i - 1)
             m == n + (i - 1)
  <2>1. i \in 0 .. N /\ i - 1 \in 0 .. N /\ m \in Nat /\ m + 1 = n + i
    BY <1>1
  <2>2. PICK p \in 1 .. n : own[i] = <<v, p>>
    <3>1. own[i] \in RowUpTo(v, n)
      BY SortedHas
    <3> QED BY <3>1 DEF RowUpTo
  <2>3. p \in 1 .. m
    BY <2>1, <2>2, <1>1
  <2>4. seen(i) = S \cup {<<v, p>>}
    <3>1. \A j : j \in 1 .. i <=> j \in 1 .. i - 1 \/ j = i
      BY <1>1
    <3> QED BY <3>1, <2>2
  <2>5. ASSUME NEW q \in Nat, <<v, q>> \in S PROVE q < p
    <3>1. PICK j \in 1 .. i - 1 : own[j] = <<v, q>>
      BY <2>5
    <3>2. j \in 1 .. N /\ j < i
      BY <1>1
    <3>3. D \in SUBSET Row(v)
      BY DEF Row, RowUpTo
    <3>4. own[j][2] < own[i][2]
      BY <3>2, <3>3, RowRises
    <3> QED BY <3>1, <3>4, <2>2
  <2>6. g[i] = Spread(X, v, seen(i), m + 1) /\ g[i - 1] = Spread(X, v, S, m)
    BY <2>1
  <2>7. puts[i].at = p /\ puts[i].arg = X[<<v, p>>]
    BY <1>2, <2>2
  <2> HIDE DEF g, S, m, seen, puts
  <2>8. insertArgument(Spread(X, v, S, m), p, X[<<v, p>>]) = Spread(X, v, S \cup {<<v, p>>}, m + 1)
    <3>1. \A q \in Nat : Pin(v, q) \in S => q < p
      BY <2>5 DEF Pin
    <3>2. insertArgument(Spread(X, v, S, m), p, X[Pin(v, p)]) = Spread(X, v, S \cup {Pin(v, p)}, m + 1)
      BY <2>1, <2>3, <3>1, SpreadInserts
    <3> QED BY <3>2 DEF Pin
  <2> QED BY <2>4, <2>6, <2>7, <2>8
<1>5. inserted([p \in 1 .. n |-> Empty], puts) = g[N]
  <2> DEFINE args == [p \in 1 .. n |-> Empty]
  <2>0. g[0] = args
    BY <1>3
  <2> HIDE DEF g, puts, N, args
  <2>1. Inserts(g, N, args, puts)
    BY <2>0, <1>4 DEF Inserts
  <2>2. Len(puts) = N /\ Len(puts) \in Nat
    BY <1>1, <1>2
  <2>3. inserted(args, puts) = g[N]
    BY <2>1, <2>2, InsertedIs
  <2> QED BY <2>3 DEF args
<1>6. g[N] = Spread(X, v, D, n + N)
  <2>1. seen(N) = D
    <3>1. ToSet(own) = seen(N)
      BY <1>1 DEF ToSet
    <3> HIDE DEF seen
    <3> QED BY <3>1 DEF Sorted
  <2>2. g[N] = Spread(X, v, seen(N), n + N)
    BY <1>1
  <2> HIDE DEF g, seen
  <2> QED BY <2>1, <2>2
<1> QED BY <1>1, <1>5, <1>6

LEMMA TrimmedIs ==
  ASSUME NEW T, NEW args \in Seq(T), NEW n \in 0 .. Len(args), n # 0 => args[n] # Empty,
         \A i \in 1 .. Len(args) : i > n => args[i] = Empty
  PROVE  Trimmed(args) = [i \in 1 .. n |-> args[i]]
<1> DEFINE filled == {i \in DOMAIN args : args[i] # Empty}
           last == CHOOSE i \in filled : \A j \in filled : j <= i
<1>1. DOMAIN args = 1 .. Len(args) /\ Len(args) \in Nat
  OBVIOUS
<1>2. \A i \in filled : i \in 1 .. n
  BY <1>1
<1>3. CASE n = 0
  <2>1. filled = {}
    BY <1>2, <1>3
  <2>2. [i \in 1 .. n |-> args[i]] = <<>>
    BY <1>3
  <2> QED BY <2>1, <2>2 DEF Trimmed
<1>4. CASE n # 0
  <2>1. n \in filled
    BY <1>1, <1>4
  <2>2. \A i \in filled : (\A j \in filled : j <= i) => i = n
    BY <1>2, <2>1
  <2>3. \A j \in filled : j <= n
    BY <1>2
  <2> HIDE DEF filled
  <2>4. last = n
    BY <2>1, <2>2, <2>3
  <2> HIDE DEF last
  <2>5. SubSeq(args, 1, n) = [i \in 1 .. n |-> args[i]]
    BY <1>1, <1>4
  <2>6. Trimmed(args) = SubSeq(args, 1, last)
    BY <2>1 DEF Trimmed, filled, last
  <2> QED BY <2>4, <2>5, <2>6
<1> QED BY <1>3, <1>4

(* The places in it that are filled.                                       *)
FilledPlaces(given) == Among([i \in DOMAIN given |-> i], {i \in DOMAIN given : given[i] # Empty})
PutsFilled(given) == LET filled == FilledPlaces(given)
                     IN  [i \in 1 .. Len(filled) |-> put(filled[i], given[filled[i]])]

LEMMA FilledIs ==
  ASSUME NEW X, NEW v \in Nat, NEW D, NEW m \in Nat, D \in SUBSET RowUpTo(v, m),
         \A a \in D : X[a] # Empty
  PROVE  \E s : Sorted(s, D) /\ PutsFilled(Spread(X, v, D, m)) = PutsOf(X, s)
<1> DEFINE given == Spread(X, v, D, m)
           all == [i \in DOMAIN given |-> i]
           There == {i \in DOMAIN given : given[i] # Empty}
           filled == Among(all, There)
           s == [i \in 1 .. Len(filled) |-> <<v, filled[i]>>]
<1>1. /\ DOMAIN given = 1 .. m
      /\ \A r \in 1 .. m : Pin(v, r) \in D => given[r] = X[Pin(v, r)]
      /\ \A r \in 1 .. m : Pin(v, r) \notin D => given[r] = Empty
  <2>1. DOMAIN given = 1 .. m
    BY DEF Spread
  <2>2. ASSUME NEW r \in 1 .. m PROVE /\ Pin(v, r) \in D => given[r] = X[Pin(v, r)]
                                      /\ Pin(v, r) \notin D => given[r] = Empty
    BY SpreadAt
  <2> QED BY <2>1, <2>2
<1> HIDE DEF given
<1>2. There = {r \in 1 .. m : <<v, r>> \in D}
  BY <1>1 DEF Pin
<1>3. all \in Seq(Nat) /\ Len(all) = m /\ \A i \in 1 .. m : all[i] = i
  BY <1>1
<1> HIDE DEF all, There
<1>4. filled \in Seq(Nat)
  BY <1>3, AmongIs
<1>5. PICK h : Picked(filled, h, all, There, m)
  BY <1>3, AmongIs
<1> HIDE DEF filled
<1> DEFINE N == Len(filled)
<1>6. /\ N \in Nat
      /\ \A k \in 1 .. N : filled[k] \in There /\ filled[k] \in 1 .. m /\ filled[k] = h[k]
      /\ \A k, l \in 1 .. N : k < l => filled[k] < filled[l]
      /\ \A i \in There : \E k \in 1 .. N : filled[k] = i
  <2>1. N \in Nat
    BY <1>4
  <2>2. \A k \in 1 .. N : h[k] \in 1 .. m /\ filled[k] = all[h[k]] /\ all[h[k]] \in There
    BY <1>5 DEF Picked
  <2>3. \A k \in 1 .. N : filled[k] = h[k]
    BY <2>2, <1>3
  <2>4. \A k, l \in 1 .. N : k < l => h[k] < h[l]
    BY <1>5 DEF Picked
  <2>5. \A i \in There : i \in 1 .. m /\ all[i] \in There
    BY <1>2, <1>3
  <2>6. \A i \in There : \E k \in 1 .. N : h[k] = i
    BY <2>5, <1>5 DEF Picked
  <2> QED BY <2>1, <2>2, <2>3, <2>4, <2>6
<1>7. s \in Seq(Pair) /\ Len(s) = N /\ DOMAIN s = 1 .. N /\ \A i \in 1 .. N : s[i] = <<v, filled[i]>>
  BY <1>6 DEF Pair
<1> HIDE DEF s, N
<1>8. ToSet(s) = D
  <2>1. ASSUME NEW i \in 1 .. N PROVE s[i] \in D
    BY <1>2, <1>6, <1>7
  <2>2. ASSUME NEW a \in D PROVE \E i \in 1 .. N : s[i] = a
    <3>1. PICK r \in 1 .. m : a = <<v, r>>
      BY DEF RowUpTo
    <3>2. r \in There
      BY <3>1, <1>2
    <3>3. PICK i \in 1 .. N : filled[i] = r
      BY <3>2, <1>6
    <3>4. s[i] = <<v, filled[i]>>
      BY <1>7
    <3> QED BY <3>1, <3>3, <3>4
  <2> QED BY <2>1, <2>2, <1>7 DEF ToSet
<1>9. Rising(s)
  BY <1>6, <1>7 DEF Rising, Before
<1>10. [i \in 1 .. N |-> put(filled[i], given[filled[i]])] = PutsOf(X, s)
  <2>1. ASSUME NEW i \in 1 .. N PROVE s[i][2] = filled[i] /\ X[s[i]] = given[filled[i]]
    <3>1. filled[i] \in 1 .. m /\ <<v, filled[i]>> \in D
      BY <1>2, <1>6
    <3>2. given[filled[i]] = X[<<v, filled[i]>>]
      BY <3>1, <1>1 DEF Pin
    <3>3. s[i] = <<v, filled[i]>>
      BY <1>7
    <3>4. s[i][2] = filled[i]
      BY <3>3
    <3> QED BY <3>2, <3>3, <3>4
  <2>2. PutsOf(X, s) = [i \in 1 .. N |-> put(s[i][2], X[s[i]])]
    BY <1>7 DEF PutsOf
  <2> QED BY <2>1, <2>2
<1>11. \E t : Sorted(t, D) /\ [i \in 1 .. N |-> put(filled[i], given[filled[i]])] = PutsOf(X, t)
  BY <1>7, <1>8, <1>9, <1>10 DEF Sorted
<1>12. PutsFilled(given) = [i \in 1 .. N |-> put(filled[i], given[filled[i]])]
  BY DEF PutsFilled, FilledPlaces, N, filled, all, There
<1> QED BY <1>11, <1>12 DEF given

-----------------------------------------------------------------------------
(* The inputs of a node are shared among its flows, constants and what is  *)
(* open.                                                                   *)
InputsFrom(ins, v) == [k \in 1 .. Len(ins) |-> <<v, ins[k].in>>]
NodeRow(v) == RowUpTo(v, Inputs[nodes[v].op])

LEMMA Counted ==
  ASSUME NEW s \in Seq(Pair), \A i, j \in 1 .. Len(s) : s[i] = s[j] => i = j
  PROVE  IsFiniteSet(ToSet(s)) /\ Cardinality(ToSet(s)) = Len(s)
<1> DEFINE I == 1 .. Len(s)
           T == ToSet(s)
           f == [i \in I |-> s[i]]
<1>1. Len(s) \in Nat /\ DOMAIN s = I
  OBVIOUS
<1>2. f \in Surjection(I, T) /\ f \in Injection(I, T)
  <2>1. \A i \in I : f[i] = s[i] /\ s[i] \in T
    BY <1>1 DEF ToSet
  <2>2. \A t \in T : \E i \in I : s[i] = t
    BY <1>1 DEF ToSet
  <2>3. f \in [I -> T]
    BY <2>1
  <2> HIDE DEF f, T, I
  <2>4. f \in Surjection(I, T)
    BY <2>1, <2>2, <2>3 DEF Surjection
  <2>5. \A i, j \in I : f[i] = f[j] => i = j
    BY <2>1 DEF I
  <2>6. f \in Injection(I, T)
    BY <2>3, <2>5 DEF Injection, IsInjective
  <2> QED BY <2>4, <2>6
<1>3. IsFiniteSet(I) /\ Cardinality(I) = Len(s)
  BY <1>1, FS_Interval
<1> HIDE DEF f, T, I
<1>4. IsFiniteSet(T) /\ Cardinality(T) = Cardinality(I)
  BY <1>2, <1>3, FS_Surjection
<1> QED BY <1>3, <1>4 DEF T

LEMMA InEdgesAre ==
  ASSUME GraphInv, NEW v \in Vertices
  PROVE  /\ InEdges(flows, v) \in Seq(Flow) /\ Inputs[nodes[v].op] \in Nat
         /\ \A k \in 1 .. Len(InEdges(flows, v)) :
               /\ InEdges(flows, v)[k] \in ToSet(flows) /\ InEdges(flows, v)[k].to = v
               /\ <<v, InEdges(flows, v)[k].in>> \in NodeRow(v) \ DOMAIN assigned
         /\ \A k, l \in 1 .. Len(InEdges(flows, v)) :
               <<v, InEdges(flows, v)[k].in>> = <<v, InEdges(flows, v)[l].in>> => k = l
         /\ \A a \in NodeRow(v) : a \notin DOMAIN assigned =>
               \E k \in 1 .. Len(InEdges(flows, v)) : <<v, InEdges(flows, v)[k].in>> = a
<1> DEFINE ins == InEdges(flows, v)
           es == {e \in ToSet(flows) : e.to = v}
           n == Inputs[nodes[v].op]
<1>1. /\ Sound(nodes, flows, DOMAIN assigned) /\ nodes \in Seq(Node) /\ flows \in Seq(Flow)
      /\ v \in 1 .. Len(nodes)
      /\ \A i \in 1 .. Len(flows) : Fits(nodes, flows[i])
      /\ \A a \in PinsOf(nodes) : a \notin DOMAIN assigned => \E i \in 1 .. Len(flows) : Target(flows[i]) = a
  BY DEF GraphInv, Sound, Vertices
<1>2. ins = Among(flows, es)
  BY Zenon DEF InEdges
<1>3. n \in Nat
  <2>1. nodes[v] \in Node
    BY <1>1
  <2>2. nodes[v].op \in Operations
    BY <2>1 DEF Node
  <2> QED BY <2>2, SizesAssumption
<1> HIDE DEF es
<1>4. /\ ins \in Seq(Flow)
      /\ \A i, j \in 1 .. Len(ins) : Target(ins[i]) = Target(ins[j]) => i = j
      /\ \A i \in 1 .. Len(ins) : Target(ins[i]) \in PinsOf(nodes) \ DOMAIN assigned
  BY <1>1, <1>2, TargetsApart
<1>5. ToSet(ins) = ToSet(flows) \cap es
  BY <1>1, <1>2, AmongElements
<1> HIDE DEF ins
<1>6. DOMAIN ins = 1 .. Len(ins) /\ DOMAIN flows = 1 .. Len(flows)
  BY <1>1, <1>4
<1>7. ASSUME NEW k \in 1 .. Len(ins)
      PROVE  ins[k] \in ToSet(flows) /\ ins[k].to = v /\ Target(ins[k]) = <<v, ins[k].in>>
  <2>1. ins[k] \in ToSet(ins)
    BY <1>6 DEF ToSet
  <2> QED BY <2>1, <1>5 DEF es, Target
<1>8. ASSUME NEW a \in NodeRow(v) PROVE a \in PinsOf(nodes) /\ a[1] = v
  <2>1. PICK p \in 1 .. n : a = <<v, p>>
    BY DEF NodeRow, RowUpTo
  <2> QED BY <2>1, <1>1, PinIs
<1>9. ASSUME NEW k \in 1 .. Len(ins) PROVE <<v, ins[k].in>> \in NodeRow(v) \ DOMAIN assigned
  <2>1. <<v, ins[k].in>> \in PinsOf(nodes) \ DOMAIN assigned
    BY <1>4, <1>7
  <2>2. ins[k].in \in 1 .. n
    BY <2>1, <1>1, PinIs
  <2> QED BY <2>1, <2>2 DEF NodeRow, RowUpTo
<1>10. ASSUME NEW a \in NodeRow(v), a \notin DOMAIN assigned
       PROVE  \E k \in 1 .. Len(ins) : <<v, ins[k].in>> = a
  <2>1. PICK i \in 1 .. Len(flows) : Target(flows[i]) = a
    BY <1>1, <1>8, <1>10
  <2>2. flows[i].to = v /\ flows[i] \in ToSet(flows)
    BY <2>1, <1>6, <1>8 DEF Target, ToSet
  <2>3. flows[i] \in ToSet(ins)
    BY <2>2, <1>5 DEF es
  <2>4. PICK k \in 1 .. Len(ins) : ins[k] = flows[i]
    BY <2>3, <1>6 DEF ToSet
  <2> QED BY <2>1, <2>4, <1>7
<1>11. \A k, l \in 1 .. Len(ins) : <<v, ins[k].in>> = <<v, ins[l].in>> => k = l
  BY <1>4, <1>7
<1> QED BY <1>3, <1>4, <1>7, <1>9, <1>10, <1>11 DEF ins

LEMMA RowIsShared ==
  ASSUME RoomInv, NEW v \in Vertices
  PROVE  /\ v \in Nat /\ Inputs[nodes[v].op] \in Nat /\ NodeRow(v) \subseteq AllPins
         /\ InputsFrom(InEdges(flows, v), v) \in Seq(Pair)
         /\ ToSet(InputsFrom(InEdges(flows, v), v)) \cap DOMAIN assigned = {}
         /\ OpenOf(v) \cap ConstantsOf(v) = {}
         /\ OpenOf(v) \cup ConstantsOf(v) = NodeRow(v) \cap DOMAIN assigned
         /\ ConstantsOf(v) \cup ToSet(InputsFrom(InEdges(flows, v), v)) \cup OpenOf(v) = NodeRow(v)
         /\ Len(InEdges(flows, v)) \in Nat
         /\ Len(InEdges(flows, v)) + Cardinality(ConstantsOf(v)) < Inputs[nodes[v].op] <=> OpenOf(v) # {}
<1> DEFINE ins == InEdges(flows, v)
           n == Inputs[nodes[v].op]
           s == InputsFrom(ins, v)
           T == ToSet(s)
           C == ConstantsOf(v)
           O == OpenOf(v)
           R == NodeRow(v)
<1>1. GraphInv /\ nodes \in Seq(Node) /\ v \in 1 .. Len(nodes) /\ v \in Nat
  <2>1. GraphInv
    BY DEF RoomInv
  <2>2. nodes \in Seq(Node)
    BY <2>1 DEF GraphInv, Sound
  <2> QED BY <2>1, <2>2 DEF Vertices
<1>2. /\ ins \in Seq(Flow) /\ n \in Nat
      /\ \A k \in 1 .. Len(ins) : <<v, ins[k].in>> \in R \ DOMAIN assigned
      /\ \A k, l \in 1 .. Len(ins) : <<v, ins[k].in>> = <<v, ins[l].in>> => k = l
      /\ \A a \in R : a \notin DOMAIN assigned => \E k \in 1 .. Len(ins) : <<v, ins[k].in>> = a
  BY <1>1, InEdgesAre
<1> HIDE DEF ins, n, R
<1>3. R \subseteq AllPins /\ R \subseteq Pair
  <2>1. R \subseteq PinsOf(nodes)
    <3>1. ASSUME NEW a \in R PROVE a \in PinsOf(nodes)
      <4>1. PICK p \in 1 .. n : a = <<v, p>>
        BY DEF R, NodeRow, RowUpTo, n
      <4> QED BY <4>1, <1>1, PinIs DEF n
    <3> QED BY <3>1
  <2>2. PinsOf(nodes) \subseteq AllPins
    BY RoomGives
  <2>3. PinsOf(nodes) \subseteq Pair
    BY DEF PinsOf, Pair
  <2> QED BY <2>1, <2>2, <2>3
<1>4. Len(ins) \in Nat /\ Len(s) = Len(ins) /\ s \in Seq(Pair) /\ DOMAIN s = 1 .. Len(ins)
      /\ \A k \in 1 .. Len(ins) : s[k] = <<v, ins[k].in>>
  BY <1>2, <1>3 DEF InputsFrom
<1> HIDE DEF s
<1>5. T = R \ DOMAIN assigned
  <2>0. /\ \A k \in 1 .. Len(ins) : s[k] \in R \ DOMAIN assigned
        /\ \A a \in R : a \notin DOMAIN assigned => \E k \in 1 .. Len(ins) : s[k] = a
    BY <1>2, <1>4
  <2>1. ASSUME NEW a \in T PROVE a \in R \ DOMAIN assigned
    BY <2>0, <1>4 DEF ToSet
  <2>2. ASSUME NEW a \in R \ DOMAIN assigned PROVE a \in T
    BY <2>0, <1>4 DEF ToSet
  <2> HIDE DEF T
  <2> QED BY <2>1, <2>2
<1>6. O \cap C = {} /\ O \cup C = R \cap DOMAIN assigned
  <2>1. \A a \in DOMAIN assigned : a \in PinsOf(nodes) /\ a = <<a[1], a[2]>>
    BY <1>1, PinIsPair DEF GraphInv, Sound
  <2>2. ASSUME NEW a \in DOMAIN assigned PROVE a[1] = v <=> a \in R
    <3>1. a = <<a[1], a[2]>> /\ a[2] \in 1 .. Inputs[nodes[a[1]].op]
      BY <2>1 DEF PinsOf
    <3>2. a \in R => a[1] = v
      BY DEF R, NodeRow, RowUpTo
    <3>3. a[1] = v => a \in R
      BY <3>1 DEF R, NodeRow, RowUpTo
    <3> QED BY <3>2, <3>3
  <2> QED BY <2>2 DEF OpenOf, ConstantsOf
<1>7. C \cup T \cup O = R /\ T \cap DOMAIN assigned = {}
  BY <1>5, <1>6
<1>8. IsFiniteSet(R) /\ Cardinality(R) = n
  <2> DEFINE r == [p \in 1 .. n |-> <<v, p>>]
  <2>1. Sorted(r, R) /\ Len(r) = n
    <3>1. R = RowUpTo(v, n)
      BY DEF R, NodeRow, n
    <3>2. Sorted(r, RowUpTo(v, n))
      BY <1>1, <1>2, RowSorted
    <3>3. Len(r) = n
      BY <1>2
    <3> HIDE DEF r
    <3> QED BY <3>1, <3>2, <3>3
  <2> HIDE DEF r
  <2>2. r \in Seq(Pair) /\ ToSet(r) = R
    BY <2>1 DEF Sorted
  <2>3. \A i, j \in 1 .. Len(r) : r[i] = r[j] => i = j
    BY <2>1, SortedPlace
  <2> QED BY <2>1, <2>2, <2>3, Counted
<1>9. IsFiniteSet(T) /\ Cardinality(T) = Len(ins)
  BY <1>2, <1>4, Counted
<1> HIDE DEF T, C, O
<1>10. IsFiniteSet(C) /\ IsFiniteSet(O) /\ Cardinality(O) \in Nat /\ Cardinality(C) \in Nat
  <2>1. C \in SUBSET R /\ O \in SUBSET R
    BY <1>7
  <2> QED BY <2>1, <1>8, FS_Subset, FS_CardinalityType
<1>11. Cardinality(T) + Cardinality(C) + Cardinality(O) = n
  <2>1. T \cap C = {} /\ (T \cup C) \cap O = {} /\ (T \cup C) \cup O = R
    BY <1>6, <1>7
  <2>2. IsFiniteSet(T \cup C) /\ Cardinality(T \cup C) = Cardinality(T) + Cardinality(C) - Cardinality(T \cap C)
    BY <1>9, <1>10, FS_Union
  <2>3. Cardinality((T \cup C) \cup O) = Cardinality(T \cup C) + Cardinality(O) - Cardinality((T \cup C) \cap O)
    BY <2>2, <1>10, FS_Union
  <2>4. Cardinality(T \cap C) = 0 /\ Cardinality((T \cup C) \cap O) = 0
    <3>1. Cardinality({}) = 0
      BY FS_EmptySet
    <3> QED BY <2>1, <3>1
  <2>5. Cardinality(T \cup C) = Cardinality(T) + Cardinality(C)
    BY <2>2, <2>4, <1>4, <1>9, <1>10
  <2>6. Cardinality(R) = Cardinality(T \cup C) + Cardinality(O)
    <3>1. Cardinality(R) = Cardinality((T \cup C) \cup O)
      BY <2>1
    <3> QED BY <3>1, <2>3, <2>4, <2>5, <1>4, <1>9, <1>10
  <2> QED BY <2>5, <2>6, <1>8
<1>12. Cardinality(O) = 0 <=> O = {}
  BY <1>10, FS_EmptySet
<1>13. Len(ins) + Cardinality(C) < n <=> O # {}
  BY <1>2, <1>4, <1>9, <1>10, <1>11, <1>12
<1> QED BY <1>1, <1>2, <1>3, <1>4, <1>6, <1>7, <1>13 DEF ins, n, s, T, C, O, R

-----------------------------------------------------------------------------
(* What an input is given.                                                 *)
LEMMA AscendingIs ==
  ASSUME GraphInv, NEW S \in SUBSET Vertices
  PROVE  /\ Ascending(S) \in Seq(Nat) /\ ToSet(Ascending(S)) = S
         /\ \A i, j \in 1 .. Len(Ascending(S)) : Ascending(S)[i] = Ascending(S)[j] => i = j
<1> DEFINE N == Len(nodes) + Width
           all == [i \in 1 .. N |-> i]
           r == Ascending(S)
<1>1. Len(nodes) \in Nat /\ Vertices = 1 .. Len(nodes) /\ N \in Nat
  BY WidthIs DEF GraphInv, Sound, Vertices
<1>2. r = Among(all, S)
  BY DEF Ascending
<1>3. Vertices \subseteq 1 .. N
  BY <1>1, WidthIs
<1> HIDE DEF N, r
<1>4. /\ all \in Seq(Nat) /\ Len(all) = N /\ ToSet(all) = 1 .. N
      /\ \A i \in 1 .. N : all[i] = i
  BY <1>1 DEF ToSet
<1> HIDE DEF all
<1>5. r \in Seq(Nat) /\ ToSet(r) = ToSet(all) \cap S
  BY <1>2, <1>4, AmongElements
<1>6. PICK h : Picked(r, h, all, S, N)
  BY <1>2, <1>4, AmongIs
<1>7. \A k \in 1 .. Len(r) : h[k] \in 1 .. N /\ r[k] = h[k]
  BY <1>4, <1>6 DEF Picked
<1>8. \A k, l \in 1 .. Len(r) : h[k] = h[l] => k = l
  BY <1>1, <1>5, <1>6, PickedOnce
<1>9. ToSet(r) = S
  BY <1>3, <1>4, <1>5
<1> QED BY <1>5, <1>7, <1>8, <1>9 DEF r

LEMMA ExternalInputsAre ==
  ASSUME RoomInv
  PROVE  \A v \in Vertices : v \in ToSet(getNodesWithExternalInput)
                                <=> InEdges(flows, v) = <<>> \/ OpenOf(v) # {}
<1> DEFINE few(v) == Len(InEdges(flows, v)) + Cardinality(ConstantsOf(v)) < Inputs[nodes[v].op]
           S == {v \in Vertices : InEdges(flows, v) = <<>> \/ few(v)}
<1>1. getNodesWithExternalInput = Ascending(S)
  BY DEF getNodesWithExternalInput
<1>2. \A v \in Vertices : few(v) <=> OpenOf(v) # {}
  BY RowIsShared
<1> HIDE DEF few
<1>3. ToSet(Ascending(S)) = S
  BY AscendingIs DEF RoomInv
<1> QED BY <1>1, <1>2, <1>3

LEMMA OpenOfIs ==
  ASSUME RoomInv, NEW a \in OpenPins(assigned)
  PROVE  a[1] \in Vertices /\ a \in OpenOf(a[1]) /\ a \in Vertices \X (1 .. Width)
<1>1. nodes \in Seq(Node) /\ a \in PinsOf(nodes)
  BY RoomGives DEF RoomInv, GraphInv, Sound
<1>2. a[1] \in 1 .. Len(nodes) /\ a[2] \in 1 .. Inputs[nodes[a[1]].op] /\ a = <<a[1], a[2]>>
  BY <1>1, PinOfVertex
<1>3. nodes[a[1]].op \in Operations
  <2>1. nodes[a[1]] \in Node
    BY <1>1, <1>2
  <2> QED BY <2>1 DEF Node
<1>4. a[2] \in 1 .. Width
  <2>1. Inputs[nodes[a[1]].op] \in Nat /\ Inputs[nodes[a[1]].op] <= Width /\ Width \in Nat
    BY <1>3, WidthIs
  <2> QED BY <2>1, <1>2
<1>5. a[1] \in Vertices
  BY <1>1, <1>2 DEF Vertices
<1>6. a \in OpenOf(a[1])
  BY DEF OpenOf, OpenPins
<1> QED BY <1>2, <1>4, <1>5, <1>6

(* The parameters of the expression are taken in the order of the form.    *)
LEMMA ParameterIs ==
  ASSUME RoomInv, NEW a
  PROVE  parameterOf(a) = getWorkflowParameterIndex(assigned, a)
<1> DEFINE es == ToSet(getNodesWithExternalInput) \X (1 .. Width)
           S == OpenPins(assigned)
           s == openInputs(assigned)
<1>1. Sorted(s, S)
  <2>1. s = Ordered(S)
    BY DEF openInputs, Ordered, OpenPins
  <2> QED BY <2>1, RoomGives, OrderedIs
<1>2. S \subseteq es
  <2>1. ASSUME NEW b \in S PROVE b \in es
    <3>1. b[1] \in Vertices /\ b \in OpenOf(b[1]) /\ b \in Vertices \X (1 .. Width)
      BY <2>1, OpenOfIs
    <3>2. b[1] \in ToSet(getNodesWithExternalInput)
      BY <3>1, ExternalInputsAre
    <3> QED BY <3>1, <3>2
  <2> QED BY <2>1
<1> HIDE DEF S, s, es
<1>3. Sorted(Among(s, es), S)
  <2>1. Sorted(Among(s, es), S \cap es)
    BY <1>1, AmongSorted
  <2>2. S \cap es = S
    BY <1>2
  <2> QED BY <2>1, <2>2
<1>4. Among(s, es) = s
  BY <1>1, <1>3, SortedOnce
<1> QED BY <1>4 DEF parameterOf, getWorkflowParameterIndex, s, es

Wanted(v) == [a \in NodeRow(v) |-> Argument(v, a[2])]

LEMMA WantedIs ==
  ASSUME RoomInv, NEW v \in Vertices
  PROVE  /\ \A a \in ConstantsOf(v) : Wanted(v)[a] = <<"value", assigned[a]>>
         /\ \A a \in OpenOf(v) : Wanted(v)[a] = <<"parm", parameterOf(a)>>
         /\ \A k \in 1 .. Len(InEdges(flows, v)) :
               Wanted(v)[<<v, InEdges(flows, v)[k].in>>]
                  = <<"result", InEdges(flows, v)[k].from, InEdges(flows, v)[k].out>>
<1> DEFINE ins == InEdges(flows, v)
           R == NodeRow(v)
<1>1. /\ OpenOf(v) \cap ConstantsOf(v) = {}
      /\ OpenOf(v) \cup ConstantsOf(v) = R \cap DOMAIN assigned
  BY RowIsShared
<1>2. \A a \in R : a = <<v, a[2]>>
  BY DEF NodeRow, RowUpTo
<1>3. \A k \in 1 .. Len(ins) : /\ ins[k] \in ToSet(flows) /\ ins[k].to = v
                              /\ <<v, ins[k].in>> \in R \ DOMAIN assigned
  BY InEdgesAre DEF RoomInv
<1>4. \A i, j \in 1 .. Len(flows) : Target(flows[i]) = Target(flows[j]) => i = j
  BY DEF RoomInv, GraphInv, Sound
<1>5. DOMAIN flows = 1 .. Len(flows)
  BY DEF RoomInv, GraphInv, Sound
<1> HIDE DEF ins, R
<1>6. \A a \in R : Wanted(v)[a] = Argument(v, a[2])
  BY DEF Wanted, R
<1>7. ASSUME NEW a \in ConstantsOf(v) PROVE Wanted(v)[a] = <<"value", assigned[a]>>
  <2>1. a \in R /\ a \in DOMAIN assigned /\ assigned[a] # Open
    BY <1>1 DEF ConstantsOf
  <2>2. Argument(v, a[2]) = <<"value", assigned[a]>>
    BY <2>1, <1>2 DEF Argument
  <2> QED BY <2>1, <2>2, <1>6
<1>8. ASSUME NEW a \in OpenOf(v) PROVE Wanted(v)[a] = <<"parm", parameterOf(a)>>
  <2>1. a \in R /\ a \in DOMAIN assigned /\ assigned[a] = Open
    BY <1>1 DEF OpenOf
  <2>2. Argument(v, a[2]) = <<"parm", getWorkflowParameterIndex(assigned, a)>>
    BY <2>1, <1>2 DEF Argument
  <2> QED BY <2>1, <2>2, <1>6, ParameterIs
<1>9. ASSUME NEW k \in 1 .. Len(ins)
      PROVE  Wanted(v)[<<v, ins[k].in>>] = <<"result", ins[k].from, ins[k].out>>
  <2> DEFINE p == ins[k].in
             i == CHOOSE j \in DOMAIN flows : flows[j].to = v /\ flows[j].in = p
  <2>1. PICK j \in 1 .. Len(flows) : flows[j] = ins[k]
    BY <1>3, <1>5 DEF ToSet
  <2>2. flows[j].to = v /\ flows[j].in = p
    BY <2>1, <1>3
  <2> HIDE DEF p
  <2>3. i \in DOMAIN flows /\ flows[i].to = v /\ flows[i].in = p
    BY <2>2, <1>5
  <2>4. Argument(v, p) = <<"result", flows[i].from, flows[i].out>>
    <3>1. <<v, p>> \notin DOMAIN assigned
      BY <1>3 DEF p
    <3> QED BY <3>1 DEF Argument
  <2> HIDE DEF i
  <2>5. i = j
    BY <2>2, <2>3, <1>4, <1>5 DEF Target
  <2>6. <<v, p>> \in R /\ <<v, p>>[2] = p
    BY <1>3 DEF p
  <2>7. Wanted(v)[<<v, p>>] = Argument(v, p)
    BY <2>6, <1>6
  <2> QED BY <2>1, <2>4, <2>5, <2>7 DEF p
<1> QED BY <1>7, <1>8, <1>9 DEF ins

LEMMA WantedNotEmpty ==
  ASSUME RoomInv, NEW v \in Vertices, NEW a \in NodeRow(v)
  PROVE  Wanted(v)[a] # Empty
<1> DEFINE ins == InEdges(flows, v)
           s == InputsFrom(ins, v)
<1>1. ConstantsOf(v) \cup ToSet(s) \cup OpenOf(v) = NodeRow(v) /\ Len(ins) \in Nat
  BY RowIsShared
<1>2. \A x, y, z : <<x, y>> # Empty /\ <<x, y, z>> # Empty
  BY DEF Empty
<1>3. CASE a \in ConstantsOf(v)
  BY <1>2, <1>3, WantedIs
<1>4. CASE a \in OpenOf(v)
  BY <1>2, <1>4, WantedIs
<1>5. CASE a \in ToSet(s)
  <2>1. \A k \in 1 .. Len(ins) : Wanted(v)[<<v, ins[k].in>>] = <<"result", ins[k].from, ins[k].out>>
    BY WantedIs
  <2> HIDE DEF ins
  <2>2. PICK k \in 1 .. Len(ins) : a = <<v, ins[k].in>>
    <3>1. DOMAIN s = 1 .. Len(ins) /\ \A k \in 1 .. Len(ins) : s[k] = <<v, ins[k].in>>
      BY <1>1 DEF InputsFrom
    <3> HIDE DEF s
    <3> QED BY <3>1, <1>5 DEF ToSet
  <2> QED BY <2>1, <2>2, <1>2
<1> QED BY <1>1, <1>3, <1>4, <1>5

LEMMA GivenFor ==
  ASSUME RoomInv, NEW v \in Vertices
  PROVE  IF InEdges(flows, v) = <<>> \/ OpenOf(v) # {}
         THEN \E m \in Nat : /\ m >= Inputs[nodes[v].op]
                             /\ parseInputNodeArguments(v) =
                                   Spread(Wanted(v), v, OpenOf(v) \cup ConstantsOf(v), m)
         ELSE parseInputNodeArguments(v) = <<>>
<1> DEFINE D == OpenOf(v) \cup ConstantsOf(v)
           n == Inputs[nodes[v].op]
           X == Wanted(v)
           own == Among(Pins, D)
           argument(a) == IF assigned[a] # Open THEN <<"value", assigned[a]>> ELSE <<"parm", parameterOf(a)>>
           puts == [i \in 1 .. Len(own) |-> put(own[i][2], argument(own[i]))]
           empty == [p \in InputsOf(v) |-> Empty]
<1>1. parseInputNodeArguments(v) =
         IF v \in ToSet(getNodesWithExternalInput) THEN inserted(empty, puts) ELSE <<>>
  BY DEF parseInputNodeArguments
<1>2. v \in Nat /\ n \in Nat /\ NodeRow(v) \subseteq AllPins /\ D = NodeRow(v) \cap DOMAIN assigned
  BY RowIsShared
<1>3. Sorted(own, D)
  <2>1. D \in SUBSET AllPins
    BY <1>2
  <2> HIDE DEF D
  <2> QED BY <2>1, OrderedIs DEF Ordered
<1>4. D \in SUBSET RowUpTo(v, n)
  BY <1>2 DEF NodeRow
<1>5. empty = [p \in 1 .. n |-> Empty]
  BY DEF InputsOf
<1>6. \A a \in D : argument(a) = X[a]
  <2>1. ASSUME NEW a \in OpenOf(v) PROVE argument(a) = X[a]
    <3>1. assigned[a] = Open
      BY DEF OpenOf
    <3> QED BY <3>1, WantedIs
  <2>2. ASSUME NEW a \in ConstantsOf(v) PROVE argument(a) = X[a]
    <3>1. assigned[a] # Open
      BY DEF ConstantsOf
    <3> QED BY <3>1, WantedIs
  <2> QED BY <2>1, <2>2
<1> HIDE DEF D, X, argument, n, own
<1>7. puts = PutsOf(X, own)
  <2>1. \A i \in 1 .. Len(own) : own[i] \in D
    BY <1>3, SortedHas
  <2> QED BY <2>1, <1>6 DEF PutsOf
<1> HIDE DEF puts
<1>8. Len(own) \in Nat /\ inserted(empty, puts) = Spread(X, v, D, n + Len(own))
  <2>1. v \in Nat /\ n \in Nat /\ D \in SUBSET RowUpTo(v, n) /\ Sorted(own, D)
    BY <1>2, <1>3, <1>4
  <2>2. /\ Len(own) \in Nat
        /\ inserted([p \in 1 .. n |-> Empty], PutsOf(X, own)) = Spread(X, v, D, n + Len(own))
    BY ONLY <2>1, GivenIs
  <2> QED BY <2>2, <1>5, <1>7
<1>9. v \in ToSet(getNodesWithExternalInput) <=> InEdges(flows, v) = <<>> \/ OpenOf(v) # {}
  BY ExternalInputsAre
<1>10. n + Len(own) \in Nat /\ n + Len(own) >= n
  BY <1>2, <1>8
<1> QED BY <1>1, <1>8, <1>9, <1>10 DEF D, X, n

(* The list of arguments of a command whose flows found what they lead to. *)
LEMMA WholeRow ==
  ASSUME RoomInv, NEW v \in Vertices, NEW args, Len(args) \in Nat,
         args \in Seq(ImageOf(Wanted(v)) \cup {Empty}), Len(args) >= Inputs[nodes[v].op],
         \A p \in 1 .. Inputs[nodes[v].op] : args[p] = Wanted(v)[Pin(v, p)],
         \A p \in 1 .. Len(args) : p > Inputs[nodes[v].op] => args[p] = Empty
  PROVE  Trimmed(args) = [p \in InputsOf(v) |-> Argument(v, p)]
<1> DEFINE n == Inputs[nodes[v].op]
           X == Wanted(v)
<1>1. v \in Nat /\ n \in Nat
  BY RowIsShared
<1>2. \A p \in 1 .. n : Pin(v, p) \in NodeRow(v) /\ Pin(v, p)[2] = p
  BY DEF Pin, NodeRow, RowUpTo
<1>3. \A p \in 1 .. n : X[Pin(v, p)] # Empty /\ X[Pin(v, p)] = Argument(v, p)
  <2>1. ASSUME NEW p \in 1 .. n PROVE X[Pin(v, p)] # Empty
    BY <1>2, WantedNotEmpty
  <2>2. ASSUME NEW p \in 1 .. n PROVE X[Pin(v, p)] = Argument(v, p)
    BY <1>2 DEF Wanted
  <2> QED BY <2>1, <2>2
<1>4. n \in 0 .. Len(args) /\ (n # 0 => args[n] # Empty)
  BY <1>1, <1>3
<1>5. Trimmed(args) = [i \in 1 .. n |-> args[i]]
  BY <1>4, TrimmedIs
<1> HIDE DEF n, X
<1>6. \A p \in 1 .. n : args[p] = Argument(v, p)
  BY <1>3 DEF n, X
<1> QED BY <1>5, <1>6 DEF InputsOf, n

LEMMA ArgumentsAre ==
  ASSUME RoomInv, NEW c \in Entry, NEW v \in Vertices, c.node = v,
         \A i, j \in 1 .. Len(InEdges(flows, v)) :
            i < j => InEdges(flows, v)[i].in < InEdges(flows, v)[j].in,
         InEdges(flows, v) = <<>> \/ OpenOf(v) = {} \/ ConstantsOf(v) = {},
         \A k \in 1 .. Len(InEdges(flows, v)) : c.found[k] = InEdges(flows, v)[k].from
  PROVE  argumentsOf(c) = [p \in InputsOf(v) |-> Argument(v, p)]
<1> DEFINE ins == InEdges(flows, v)
           n == Inputs[nodes[v].op]
           X == Wanted(v)
           O == OpenOf(v)
           C == ConstantsOf(v)
           s == InputsFrom(ins, v)
           given == parseInputNodeArguments(v)
<1>2. /\ v \in Nat /\ n \in Nat /\ NodeRow(v) \subseteq AllPins /\ s \in Seq(Pair)
      /\ ToSet(s) \cap DOMAIN assigned = {} /\ O \cap C = {} /\ O \cup C = NodeRow(v) \cap DOMAIN assigned
      /\ C \cup ToSet(s) \cup O = NodeRow(v) /\ Len(ins) \in Nat
  BY RowIsShared
<1>3. CASE ins = <<>>
  <2>1. ToSet(s) = {}
    BY <1>3 DEF ToSet, InputsFrom
  <2>2. O \cup C = NodeRow(v)
    BY <2>1, <1>2
  <2>3. PICK m \in Nat : m >= n /\ given = Spread(X, v, NodeRow(v), m)
    BY <1>3, <2>2, GivenFor
  <2>4. argumentsOf(c) = Trimmed(given)
    BY <1>3 DEF argumentsOf
  <2> HIDE DEF given, X
  <2>5. given \in Seq(ImageOf(X) \cup {Empty}) /\ Len(given) = m
    <3> DEFINE R == NodeRow(v)
    <3> HIDE DEF R
    <3>1. v \in Nat /\ m \in Nat /\ given = Spread(X, v, R, m)
      BY <1>2, <2>3 DEF R
    <3>2. /\ Spread(X, v, R, m) \in Seq(ImageOf(X) \cup {Empty})
          /\ Len(Spread(X, v, R, m)) = m
      BY ONLY <3>1, SpreadTyped
    <3> QED BY <3>1, <3>2
  <2>6. \A p \in 1 .. n : given[p] = X[Pin(v, p)]
    <3>1. ASSUME NEW p \in 1 .. n PROVE given[p] = X[Pin(v, p)]
      <4>1. Pin(v, p) \in NodeRow(v) /\ p \in 1 .. m
        BY <1>2, <2>3 DEF Pin, NodeRow, RowUpTo
      <4> QED BY <4>1, <2>3, SpreadAt
    <3> QED BY <3>1
  <2>7. \A p \in 1 .. Len(given) : p > n => given[p] = Empty
    <3>1. ASSUME NEW p \in 1 .. m, p > n PROVE given[p] = Empty
      <4>1. Pin(v, p) \notin NodeRow(v)
        BY <1>2, <3>1 DEF Pin, NodeRow, RowUpTo
      <4> QED BY <4>1, <2>3, SpreadAt
    <3> QED BY <3>1, <2>5
  <2> QED BY <2>3, <2>4, <2>5, <2>6, <2>7, WholeRow DEF X
<1>4. CASE ins # <<>>
  <2> DEFINE A == Among(Pins, C)
             pA == [i \in 1 .. Len(A) |-> put(A[i][2], <<"value", assigned[A[i]]>>)]
             pB == [k \in 1 .. Len(ins) |-> put(ins[k].in, resultOf(c.found[k], ins[k].out))]
             pE == PutsFilled(given)
  <2>1. argumentsOf(c) = Trimmed(inserted(<<>>, pA \o pB \o pE))
    BY <1>4 DEF argumentsOf, PutsFilled, FilledPlaces
  <2>2. PICK m \in Nat : given = Spread(X, v, O, m) /\ O \in SUBSET RowUpTo(v, m)
    <3>1. CASE O # {}
      <4>1. C = {}
        BY <1>4, <3>1
      <4>2. PICK m \in Nat : m >= n /\ given = Spread(X, v, O, m)
        BY <3>1, <4>1, GivenFor
      <4>3. O \in SUBSET RowUpTo(v, m)
        BY <4>2, <1>2 DEF NodeRow, RowUpTo
      <4> QED BY <4>2, <4>3
    <3>2. CASE O = {}
      <4>1. given = <<>>
        BY <1>4, <3>2, GivenFor
      <4>2. Spread(X, v, O, 0) = <<>>
        BY DEF Spread
      <4> QED BY <3>2, <4>1, <4>2
    <3> QED BY <3>1, <3>2
  <2>3. \A a \in NodeRow(v) : X[a] # Empty
    BY WantedNotEmpty
  <2>4. PICK E : Sorted(E, O) /\ pE = PutsOf(X, E)
    <3>1. \A a \in O : X[a] # Empty
      BY <1>2, <2>3
    <3> HIDE DEF X, O, given
    <3>2. v \in Nat /\ m \in Nat /\ O \in SUBSET RowUpTo(v, m)
      BY <1>2, <2>2
    <3>3. \E t : Sorted(t, O) /\ PutsFilled(Spread(X, v, O, m)) = PutsOf(X, t)
      BY ONLY <3>1, <3>2, FilledIs
    <3> QED BY <3>3, <2>2
  <2>5. Sorted(A, C) /\ pA = PutsOf(X, A)
    <3>1. C \in SUBSET AllPins
      BY <1>2
    <3>2. \A a \in C : X[a] = <<"value", assigned[a]>>
      BY WantedIs
    <3> HIDE DEF C, X
    <3>3. Sorted(A, C)
      BY <3>1, OrderedIs DEF Ordered
    <3>4. \A i \in 1 .. Len(A) : A[i] \in C
      BY <3>3, SortedHas
    <3> HIDE DEF A
    <3> QED BY <3>2, <3>3, <3>4 DEF PutsOf
  <2>6. Sorted(s, ToSet(s)) /\ pB = PutsOf(X, s)
    <3>1. Len(s) = Len(ins) /\ \A k \in 1 .. Len(ins) : s[k] = <<v, ins[k].in>>
      BY <1>2 DEF InputsFrom
    <3>2. \A k \in 1 .. Len(ins) : X[<<v, ins[k].in>>] = <<"result", ins[k].from, ins[k].out>>
      BY WantedIs
    <3>3. \A k \in 1 .. Len(ins) : resultOf(c.found[k], ins[k].out) = <<"result", ins[k].from, ins[k].out>>
      <4>1. /\ \A i \in 1 .. Len(flows) : Fits(nodes, flows[i])
            /\ flows \in Seq(Flow) /\ \A k \in 1 .. Len(ins) : ins[k] \in ToSet(flows)
        BY InEdgesAre DEF RoomInv, GraphInv, Sound
      <4>2. \A k \in 1 .. Len(ins) : Fits(nodes, ins[k])
        BY <4>1 DEF ToSet
      <4>3. \A k \in 1 .. Len(ins) : ins[k].from # 0 /\ ins[k].out \in 1 .. Outputs[nodes[ins[k].from].op]
        BY <4>2 DEF Fits
      <4> QED BY <4>3 DEF resultOf
    <3>4. \A i, j \in 1 .. Len(ins) : i < j => ins[i].in < ins[j].in
      OBVIOUS
    <3> HIDE DEF s, X, ins
    <3>5. pB = PutsOf(X, s)
      <4>1. ASSUME NEW k \in 1 .. Len(ins)
            PROVE  put(s[k][2], X[s[k]]) = put(ins[k].in, resultOf(c.found[k], ins[k].out))
        <5>1. s[k] = <<v, ins[k].in>> /\ s[k][2] = ins[k].in
          BY <3>1
        <5>2. X[s[k]] = resultOf(c.found[k], ins[k].out)
          BY <5>1, <3>2, <3>3
        <5> QED BY <5>1, <5>2
      <4> QED BY <3>1, <4>1 DEF PutsOf
    <3>6. Rising(s)
      BY <3>1, <3>4 DEF Rising, Before
    <3> QED BY <3>5, <3>6, <1>2 DEF Sorted
  <2> HIDE DEF pA, pB, pE, A, s, X, O, C
  <2>7. inserted(<<>>, pA \o pB \o pE) = RowOf(X, v, n)
    <3>1. C \cup ToSet(s) \cup O = RowUpTo(v, n) /\ RowUpTo(v, n) \subseteq AllPins
      BY <1>2 DEF NodeRow
    <3>2. C \cap ToSet(s) = {} /\ C \cap O = {} /\ ToSet(s) \cap O = {}
      BY <1>2
    <3>3. C = {} \/ O = {}
      BY <1>4 DEF C, O
    <3>4. v \in Nat /\ n \in Nat /\ Sorted(A, C) /\ Sorted(s, ToSet(s)) /\ Sorted(E, O)
      BY <1>2, <2>4, <2>5, <2>6
    <3>5. inserted(<<>>, PutsOf(X, A) \o PutsOf(X, s) \o PutsOf(X, E)) = RowOf(X, v, n)
      <4> HIDE DEF n
      <4> QED BY ONLY <3>1, <3>2, <3>3, <3>4, JoinInPlace
    <3> QED BY <3>5, <2>4, <2>5, <2>6
  <2> DEFINE args == RowOf(X, v, n)
  <2>8. /\ args \in Seq(ImageOf(X) \cup {Empty}) /\ Len(args) = n
        /\ \A p \in 1 .. n : args[p] = X[Pin(v, p)]
    <3>1. \A p \in 1 .. n : <<v, p>> \in Pair
      BY <1>2 DEF Pair
    <3>2. \A p \in 1 .. n : X[<<v, p>>] \in ImageOf(X)
      BY <3>1 DEF ImageOf
    <3>3. n \in Nat
      BY <1>2
    <3> HIDE DEF n
    <3>4. args \in Seq(ImageOf(X) \cup {Empty}) /\ Len(args) = n
      BY <3>2, <3>3 DEF RowOf
    <3> QED BY <3>4 DEF Pin, RowOf
  <2>9. Trimmed(args) = [p \in InputsOf(v) |-> Argument(v, p)]
    <3>1. \A p \in 1 .. Len(args) : p > n => args[p] = Empty
      BY <2>8, <1>2
    <3> HIDE DEF args
    <3> QED BY <1>2, <2>8, <3>1, WholeRow DEF X
  <2> QED BY <2>1, <2>7, <2>9
<1> QED BY <1>3, <1>4

-----------------------------------------------------------------------------
(* What the flows find.  The results of a node are used by one other, by   *)
(* flows that come next to each other; so they are in the context when     *)
(* they are wanted.                                                        *)
Gathered ==
    /\ \A x, y \in Vertices : \A w \in Sources(x) : w \in Sources(y) => x = y
    /\ \A v \in Vertices : \A i, j, k \in 1 .. Len(InEdges(flows, v)) :
          i < j /\ j < k /\ InEdges(flows, v)[i].from = InEdges(flows, v)[k].from
             => InEdges(flows, v)[j].from = InEdges(flows, v)[i].from

Matched(path) == \A i \in 1 .. Len(path) : \A k \in 1 .. Len(InEdges(flows, path[i].node)) :
                    path[i].found[k] = InEdges(flows, path[i].node)[k].from

(* Of the nodes N, only for those in S what uses them is still to come.    *)
Settled(N, S) == \A y \in N : y \in S \/ \A x \in Vertices : y \in Sources(x) => x \in N

(* Nothing in C uses a node in S.                                          *)
Ready(r, S, C) ==
    /\ InOrder(r.calls) /\ Matched(r.calls) /\ Settled(Nodes(r.calls), S)
    /\ \A x \in C : Sources(x) \cap S = {}

Finds(r, s, w, S) ==
    /\ Matched(s.calls) /\ Settled(Nodes(s.calls), S \cup {w})
    /\ w \in Nodes(r.calls) => s = r
    /\ w \notin Nodes(r.calls) => s.ctx = w

LEMMA ClosedMeet ==
  ASSUME NEW C \in Closed, NEW D \in Closed
  PROVE  C \cap D \in Closed
  BY DEF Closed

LEMMA FollowedFinds ==
  ASSUME GraphInv, Gathered, NEW follow \in Follow, NEW v \in Vertices,
         \A r \in Runs, w \in Sources(v) : InOrder(r.calls) => Reached(r, follow[r][w], w),
         \A r \in Runs, w \in Sources(v), S \in SUBSET Vertices, C \in Closed :
            w \in C /\ Ready(r, S, C) => Finds(r, follow[r][w], w, S),
         NEW D \in Closed, Sources(v) \subseteq D, v \notin D,
         NEW r \in Runs, v \notin Nodes(r.calls),
         NEW S \in SUBSET Vertices, NEW C \in Closed, v \in C, Ready(r, S, C)
  PROVE  LET s == followFlows(follow, r, v)
         IN  /\ Matched(s.run.calls) /\ Settled(Nodes(s.run.calls), S \cup Sources(v))
             /\ \A k \in 1 .. Len(InEdges(flows, v)) : s.found[k] = InEdges(flows, v)[k].from
<1> DEFINE ins == InEdges(flows, v)
           N == Len(ins)
           At(k) == ins[k].from
<1>1. PICK f \in [0 .. N -> Followed] :
         /\ f[0] = [run |-> [calls |-> r.calls, ctx |-> 0], found |-> <<>>]
         /\ \A k \in 1 .. N : /\ f[k].run = follow[f[k - 1].run][At(k)]
                             /\ f[k].found = Append(f[k - 1].found, f[k].run.ctx)
         /\ followFlows(follow, r, v) = f[N]
  BY FollowFlowsIs
<1>2. /\ N \in Nat /\ \A k \in 1 .. N : At(k) \in Sources(v)
      /\ Sources(v) = {At(k) : k \in 1 .. N} /\ Sources(v) \subseteq Vertices
  BY InFlows
<1>3. \A i, j, k \in 1 .. N : i < j /\ j < k /\ At(i) = At(k) => At(j) = At(i)
  BY DEF Gathered
<1>4. Sources(v) \subseteq C \cap D /\ C \cap D \in Closed /\ Sources(v) \cap S = {}
  <2>1. Sources(v) \subseteq C
    BY DEF Closed
  <2>2. Sources(v) \cap S = {}
    BY DEF Ready
  <2> QED BY <2>1, <2>2, ClosedMeet
<1> HIDE DEF N, At
<1> DEFINE Seen(k) == {At(j) : j \in 1 .. k}
           Good(t, k) == /\ InOrder(t.run.calls) /\ Matched(t.run.calls)
                         /\ Settled(Nodes(t.run.calls), S \cup Seen(k))
                         /\ v \notin Nodes(t.run.calls)
                         /\ k # 0 => t.run.ctx = At(k)
                         /\ Len(t.found) = k /\ \A j \in 1 .. k : t.found[j] = At(j)
           Kept == {k \in 0 .. N : Good(f[k], k)}
<1>5. 0 \in Kept
  <2>1. f[0].run.calls = r.calls /\ f[0].found = <<>>
    BY <1>1
  <2>2. Seen(0) = {} /\ S \cup Seen(0) = S
    OBVIOUS
  <2>3. Good(f[0], 0)
    <3>1. /\ InOrder(r.calls) /\ Matched(r.calls) /\ Settled(Nodes(r.calls), S)
          /\ v \notin Nodes(r.calls) /\ Len(<<>>) = 0
      BY DEF Ready
    <3>2. Settled(Nodes(f[0].run.calls), S \cup Seen(0))
      BY <2>1, <2>2, <3>1
    <3>3. \A j \in 1 .. 0 : f[0].found[j] = At(j)
      OBVIOUS
    <3>4. Len(f[0].found) = 0 /\ v \notin Nodes(f[0].run.calls)
      BY <2>1, <3>1
    <3>5. InOrder(f[0].run.calls) /\ Matched(f[0].run.calls)
      BY <2>1, <3>1
    <3> HIDE DEF Seen
    <3> QED BY <3>2, <3>3, <3>4, <3>5
  <2> QED BY <2>3, <1>2
<1>6. ASSUME NEW k \in 1 .. N, k - 1 \in Kept PROVE k \in Kept
  <2> DEFINE s == f[k - 1].run
             t == f[k].run
             w == At(k)
             S1 == S \cup Seen(k - 1)
  <2>0. N \in Nat
    BY <1>2
  <2>1. Good(f[k - 1], k - 1) /\ k \in 0 .. N /\ k - 1 \in 0 .. N
    <3> HIDE DEF Good
    <3> QED BY <1>6, <2>0
  <2>2. s \in Runs /\ f[k - 1].found \in Seq(Results)
    <3>1. f[k - 1] \in Followed
      BY <2>1, <1>1
    <3> QED BY <3>1 DEF Followed
  <2>3. t \in Runs /\ t.ctx \in Results
    <3>1. f[k] \in Followed
      BY <2>1, <1>1
    <3> QED BY <3>1, RunIs DEF Followed
  <2>4. t = follow[s][w] /\ f[k].found = Append(f[k - 1].found, t.ctx)
    BY <1>1
  <2>5. w \in Sources(v) /\ w \in C \cap D
    BY <1>2, <1>4
  <2>6. S1 \in SUBSET Vertices
    <3>1. \A j \in 1 .. k - 1 : At(j) \in Vertices
      BY <1>2
    <3> QED BY <3>1
  <2>7. /\ InOrder(s.calls) /\ Matched(s.calls) /\ Settled(Nodes(s.calls), S1)
        /\ v \notin Nodes(s.calls) /\ (k - 1 # 0 => s.ctx = At(k - 1))
        /\ Len(f[k - 1].found) = k - 1 /\ \A j \in 1 .. k - 1 : f[k - 1].found[j] = At(j)
    BY <2>1
  <2>8. \A x \in C \cap D : Sources(x) \cap S1 = {}
    <3>1. SUFFICES ASSUME NEW x \in C \cap D, NEW y \in Sources(x), y \in S1 PROVE FALSE
      OBVIOUS
    <3>2. y \notin S
      BY DEF Ready
    <3>3. PICK j \in 1 .. k - 1 : y = At(j)
      BY <3>1, <3>2
    <3>4. y \in Sources(v)
      BY <3>3, <1>2
    <3>5. x \in Vertices
      BY DEF Closed
    <3>6. x = v
      BY <3>4, <3>5 DEF Gathered
    <3> QED BY <3>6
  <2> HIDE DEF s, t, w, S1
  <2>9. Ready(s, S1, C \cap D)
    BY <2>7, <2>8 DEF Ready
  <2>10. Finds(s, t, w, S1)
    BY <2>2, <2>4, <2>5, <2>6, <2>9, <1>4
  <2>11. Reached(s, t, w)
    BY <2>2, <2>4, <2>5, <2>7
  <2>12. v \notin Nodes(t.calls)
    <3>1. Nodes(t.calls) \subseteq Nodes(s.calls) \cup (C \cap D)
      BY <2>5, <2>11, <1>4 DEF Reached
    <3> QED BY <3>1, <2>7
  <2>13. t.ctx = w
    <3>1. CASE w \notin Nodes(s.calls)
      BY <3>1, <2>10 DEF Finds
    <3>2. CASE w \in Nodes(s.calls)
      <4>1. t = s
        BY <3>2, <2>10 DEF Finds
      <4>2. w \in S1
        BY <3>2, <2>5, <2>7 DEF Settled
      <4>3. PICK j \in 1 .. k - 1 : w = At(j)
        BY <4>2, <2>5, <1>4 DEF S1
      <4>4. At(k - 1) = w
        <5>1. CASE j = k - 1
          BY <5>1, <4>3
        <5>2. CASE j # k - 1
          <6>1. j \in 1 .. N /\ k - 1 \in 1 .. N /\ j < k - 1 /\ k - 1 < k
            BY <5>2, <2>0
          <6> QED BY <6>1, <4>3, <1>3 DEF w
        <5> QED BY <5>1, <5>2
      <4>5. k - 1 # 0
        BY <4>3
      <4> QED BY <4>1, <4>4, <4>5, <2>7
    <3> QED BY <3>1, <3>2
  <2>14. S1 \cup {w} = S \cup Seen(k)
    <3>1. \A j \in 1 .. k : j \in 1 .. k - 1 \/ j = k
      OBVIOUS
    <3>2. \A j \in 1 .. k - 1 : j \in 1 .. k
      OBVIOUS
    <3>3. k \in 1 .. k
      OBVIOUS
    <3> QED BY <3>1, <3>2, <3>3 DEF S1, w
  <2>15. Settled(Nodes(t.calls), S \cup Seen(k)) /\ Matched(t.calls)
    BY <2>10, <2>14 DEF Finds
  <2>16. Len(f[k].found) = k /\ \A j \in 1 .. k : f[k].found[j] = At(j)
    <3> DEFINE g == f[k - 1].found
    <3>1. g \in Seq(Results) /\ Len(g) = k - 1 /\ f[k].found = Append(g, w) /\ w \in Results
      BY <2>2, <2>3, <2>4, <2>7, <2>13
    <3>2. \A j \in 1 .. k - 1 : g[j] = At(j)
      BY <2>7
    <3> HIDE DEF g
    <3> QED BY <3>1, <3>2 DEF w
  <2>17. Good(f[k], k)
    <3> HIDE DEF Seen
    <3> QED BY <2>11, <2>12, <2>13, <2>15, <2>16 DEF Reached, t, w
  <2> HIDE DEF Good
  <2> QED BY <2>1, <2>17
<1>7. Kept = 0 .. N
  <2>1. Kept \in SUBSET (0 .. N)
    OBVIOUS
  <2> HIDE DEF Kept
  <2> QED BY <1>2, <1>5, <1>6, <2>1, RecursionKeeps
<1>8. Good(f[N], N)
  <2>1. N \in 0 .. N
    BY <1>2
  <2> HIDE DEF Good
  <2> QED BY <2>1, <1>7
<1>9. Seen(N) = Sources(v)
  BY <1>2
<1> QED BY <1>1, <1>8, <1>9 DEF N, At

LEMMA ExecutedFinds ==
  ASSUME GraphInv, Gathered, NEW follow \in Follow, NEW v \in Vertices,
         \A r \in Runs, w \in Sources(v) : InOrder(r.calls) => Reached(r, follow[r][w], w),
         \A r \in Runs, w \in Sources(v), S \in SUBSET Vertices, C \in Closed :
            w \in C /\ Ready(r, S, C) => Finds(r, follow[r][w], w, S),
         NEW D \in Closed, Sources(v) \subseteq D, v \notin D,
         NEW r \in Runs, NEW S \in SUBSET Vertices, NEW C \in Closed, v \in C, Ready(r, S, C)
  PROVE  Finds(r, executeNode(follow, r, v), v, S)
<1> DEFINE s == followFlows(follow, r, v)
           c == [node |-> v, found |-> s.found]
           path == s.run.calls
           t == [calls |-> Append(path, c), ctx |-> v]
<1>1. executeNode(follow, r, v) = IF Called(r, v) THEN r ELSE t
  BY DEF executeNode
<1>2. CASE v \in Nodes(r.calls)
  <2>1. executeNode(follow, r, v) = r
    BY <1>1, <1>2, CalledIs
  <2>2. Settled(Nodes(r.calls), S \cup {v}) /\ Matched(r.calls)
    BY DEF Ready, Settled
  <2> QED BY <2>1, <2>2, <1>2 DEF Finds
<1>3. CASE v \notin Nodes(r.calls)
  <2>1. executeNode(follow, r, v) = t
    BY <1>1, <1>3, CalledIs
  <2>2. /\ Matched(path) /\ Settled(Nodes(path), S \cup Sources(v))
        /\ \A k \in 1 .. Len(InEdges(flows, v)) : s.found[k] = InEdges(flows, v)[k].from
    BY <1>3, FollowedFinds
  <2>3. s \in Followed
    BY FollowedInOrder DEF Ready
  <2>4. path \in Seq(Entry) /\ c \in Entry /\ c.node = v /\ c.found = s.found
    <3> HIDE DEF s
    <3>1. s.run \in Runs /\ s.found \in Seq(Results)
      BY <2>3 DEF Followed
    <3> QED BY <3>1, RunIs DEF Entry
  <2>5. t.calls = Append(path, c) /\ t.ctx = v
    OBVIOUS
  <2> HIDE DEF path, c, s, t
  <2>6. Nodes(Append(path, c)) = Nodes(path) \cup {v}
    BY <2>4, NodesAppended
  <2>7. Settled(Nodes(path) \cup {v}, S \cup {v})
    <3>1. \A x \in Vertices, y \in Sources(v) : y \in Sources(x) => x = v
      BY DEF Gathered
    <3> QED BY <2>2, <3>1 DEF Settled
  <2>8. Matched(Append(path, c))
    <3> DEFINE q == Append(path, c)
               n == Len(path)
    <3>1. Len(q) = n + 1 /\ n \in Nat /\ q[n + 1] = c /\ \A i \in 1 .. n : q[i] = path[i]
      BY <2>4
    <3> HIDE DEF q
    <3>2. ASSUME NEW i \in 1 .. Len(q), NEW k \in 1 .. Len(InEdges(flows, q[i].node))
          PROVE  q[i].found[k] = InEdges(flows, q[i].node)[k].from
      <4>1. CASE i \in 1 .. n
        <5>1. q[i] = path[i]
          BY <4>1, <3>1
        <5> QED BY <5>1, <4>1, <2>2 DEF Matched
      <4>2. CASE i = n + 1
        <5>1. q[i] = c
          BY <4>2, <3>1
        <5> QED BY <5>1, <2>2, <2>4
      <4>3. i \in 1 .. n \/ i = n + 1
        BY <3>1
      <4> QED BY <4>1, <4>2, <4>3
    <3>3. Matched(q)
      BY <3>2 DEF Matched
    <3> QED BY <3>3 DEF q
  <2> QED BY <2>1, <2>5, <2>6, <2>7, <2>8, <1>3 DEF Finds
<1> QED BY <1>2, <1>3

(* Every node finds what its flows lead to, with the depth that is given.  *)
LEMMA PathsFind ==
  ASSUME GraphInv, Acyclic, Gathered, NEW r \in Runs, NEW v \in Vertices,
         NEW S \in SUBSET Vertices, NEW C \in Closed, v \in C, Ready(r, S, C)
  PROVE  Finds(r, reverseFollowExecutionPath[Len(nodes)][r][v], v, S)
<1> DEFINE N == Len(nodes)
           R == reverseFollowExecutionPath
<1>1. PICK L : Levels(L)
  BY LevelsAre
<1>2. /\ \A n \in 0 .. N : R[n] \in Follow
      /\ \A n \in 1 .. N : \A q \in Runs, w \in Vertices : R[n][q][w] = executeNode(R[n - 1], q, w)
  BY PathsAre
<1>3. N \in Nat
  BY DEF GraphInv, Sound
<1>4. \A n \in 0 .. N : \A q \in Runs, w \in L[n] : InOrder(q.calls) => Reached(q, R[n][q][w], w)
  BY <1>1, LevelsInOrder
<1> HIDE DEF R
<1> DEFINE Good(n) == \A q \in Runs, w \in L[n], T \in SUBSET Vertices, D \in Closed :
                         w \in D /\ Ready(q, T, D) => Finds(q, R[n][q][w], w, T)
           Kept == {n \in 0 .. N : Good(n)}
<1>5. 0 \in Kept
  BY <1>1, <1>3 DEF Levels
<1>6. ASSUME NEW n \in 1 .. N, n - 1 \in Kept PROVE n \in Kept
  <2>1. n \in 0 .. N /\ n - 1 \in 0 .. N /\ Good(n - 1)
    BY <1>3, <1>6
  <2>2. ASSUME NEW q \in Runs, NEW w \in L[n], NEW T \in SUBSET Vertices, NEW D \in Closed,
               w \in D, Ready(q, T, D)
        PROVE  Finds(q, R[n][q][w], w, T)
    <3> DEFINE g == R[n - 1]
    <3>1. w \in Vertices /\ Sources(w) \subseteq L[n - 1]
      BY <1>1, <2>2 DEF Levels
    <3>2. g \in Follow /\ R[n][q][w] = executeNode(g, q, w)
      BY <1>2, <2>1, <3>1
    <3>3. \A p \in Runs, u \in Sources(w) : InOrder(p.calls) => Reached(p, g[p][u], u)
      BY <1>4, <2>1, <3>1
    <3>4. PICK E \in Closed : Sources(w) \subseteq E /\ w \notin E
      BY <1>1, <3>1, SourcesApart
    <3>5. \A p \in Runs, u \in Sources(w), U \in SUBSET Vertices, F \in Closed :
             u \in F /\ Ready(p, U, F) => Finds(p, g[p][u], u, U)
      BY <2>1, <3>1
    <3> HIDE DEF g
    <3>6. Finds(q, executeNode(g, q, w), w, T)
      BY <2>2, <3>1, <3>2, <3>3, <3>4, <3>5, ExecutedFinds
    <3> QED BY <3>2, <3>6
  <2> QED BY <2>1, <2>2
<1>7. Kept = 0 .. N
  <2>1. Kept \in SUBSET (0 .. N)
    OBVIOUS
  <2> HIDE DEF Kept, N
  <2> QED BY <1>3, <1>5, <1>6, <2>1, RecursionKeeps
<1>8. Good(N)
  BY <1>3, <1>7
<1>9. L[N] = Vertices
  BY <1>1 DEF Levels
<1> QED BY <1>8, <1>9 DEF R

(* The workflows that run as drawn: a node whose results are used is used  *)
(* by one other, and is none of the ends.                                  *)
LEMMA PlainGives ==
  ASSUME GraphInv, Plain
  PROVE  /\ Acyclic /\ Gathered
         /\ \A v \in ToSet(getNodesWithExternalOutputs), x \in Vertices : v \notin Sources(x)
<1>1. flows \in Seq(Flow) /\ DOMAIN flows = 1 .. Len(flows)
  BY DEF GraphInv, Sound
<1>2. ASSUME NEW v \in Vertices
      PROVE  /\ OutEdges(flows, v) \in Seq(Flow)
             /\ ToSet(OutEdges(flows, v)) = {e \in ToSet(flows) : e.from = v}
             /\ DOMAIN OutEdges(flows, v) = 1 .. Len(OutEdges(flows, v))
  <2> DEFINE outs == OutEdges(flows, v)
             T == {e \in ToSet(flows) : e.from = v}
  <2>1. outs = Among(flows, T)
    BY DEF OutEdges
  <2>2. ToSet(flows) \cap T = T
    OBVIOUS
  <2> HIDE DEF outs, T
  <2>3. outs \in Seq(Flow) /\ ToSet(outs) = ToSet(flows) \cap T
    BY <1>1, <2>1, AmongElements
  <2>4. DOMAIN outs = 1 .. Len(outs)
    BY <2>3
  <2> QED BY <2>2, <2>3, <2>4 DEF outs, T
<1>3. ASSUME NEW w \in Vertices, NEW x \in Vertices, w \in Sources(x)
      PROVE  \E i \in 1 .. Len(OutEdges(flows, w)) : OutEdges(flows, w)[i].to = x
  <2>1. PICK j \in DOMAIN flows : flows[j].to = x /\ flows[j].from = w
    BY <1>3 DEF Sources
  <2>2. flows[j] \in ToSet(OutEdges(flows, w))
    BY <2>1, <1>1, <1>2 DEF ToSet
  <2> QED BY <2>1, <2>2, <1>2 DEF ToSet
<1>4. ASSUME NEW x \in Vertices, NEW y \in Vertices, NEW w \in Sources(x), w \in Sources(y)
      PROVE  x = y
  <2>1. w \in Vertices
    BY InFlows
  <2>2. \A i, j \in 1 .. Len(OutEdges(flows, w)) :
           OutEdges(flows, w)[i].to = OutEdges(flows, w)[j].to
    BY <2>1, <1>2 DEF Plain
  <2>3. PICK i \in 1 .. Len(OutEdges(flows, w)) : OutEdges(flows, w)[i].to = x
    BY <2>1, <1>3
  <2>4. PICK j \in 1 .. Len(OutEdges(flows, w)) : OutEdges(flows, w)[j].to = y
    BY <2>1, <1>3, <1>4
  <2> QED BY <2>2, <2>3, <2>4
<1>5. ASSUME NEW v \in Vertices
      PROVE  \A i, j, k \in 1 .. Len(InEdges(flows, v)) :
                i < j /\ j < k /\ InEdges(flows, v)[i].from = InEdges(flows, v)[k].from
                   => InEdges(flows, v)[j].from = InEdges(flows, v)[i].from
  <2>1. DOMAIN InEdges(flows, v) = 1 .. Len(InEdges(flows, v))
    BY InFlows
  <2> QED BY <2>1 DEF Plain
<1>6. ASSUME NEW v \in ToSet(getNodesWithExternalOutputs), NEW x \in Vertices, v \in Sources(x)
      PROVE  FALSE
  <2>1. v \in Vertices
    BY <1>6, InFlows
  <2>2. OutEdges(flows, v) # <<>>
    <3>1. PICK i \in 1 .. Len(OutEdges(flows, v)) : OutEdges(flows, v)[i].to = x
      BY <1>6, <2>1, <1>3
    <3> QED BY <3>1
  <2> QED BY <2>1, <2>2 DEF Plain
<1>7. Acyclic
  BY DEF Plain
<1> QED BY <1>4, <1>5, <1>6, <1>7 DEF Gathered

LEMMA ExecuteFinds ==
  ASSUME GraphInv, Plain
  PROVE  /\ Matched(execute.calls) /\ execute.calls \in Seq(Entry)
         /\ \A k \in 1 .. Len(getNodesWithExternalOutputs) :
               execute.results[k] = getNodesWithExternalOutputs[k]
<1> DEFINE ends == getNodesWithExternalOutputs
           N == Len(ends)
<1>1. PICK f \in [0 .. N -> Done] :
         /\ f[0] = [calls |-> <<>>, results |-> <<>>]
         /\ \A k \in 1 .. N : /\ f[k].calls = From(f[k - 1].calls, ends[k]).calls
                             /\ f[k].results = Append(f[k - 1].results, From(f[k - 1].calls, ends[k]).ctx)
         /\ execute = f[N]
  BY ExecuteFollows
<1>2. N \in Nat /\ \A k \in 1 .. N : ends[k] \in Vertices
  BY EndsAre
<1>3. \A i, j \in 1 .. N : ends[i] = ends[j] => i = j
  <2> DEFINE E == {v \in Vertices : Len(OutEdges(flows, v)) < Outputs[nodes[v].op]
                                    \/ OutEdges(flows, v) = <<>>}
  <2>1. ends = Ascending(E)
    BY DEF getNodesWithExternalOutputs
  <2>2. E \in SUBSET Vertices
    OBVIOUS
  <2> HIDE DEF E
  <2> QED BY <2>1, <2>2, AscendingIs
<1>4. Acyclic /\ Gathered
  BY PlainGives
<1>5. \A k \in 1 .. N : \A x \in Vertices : ends[k] \notin Sources(x)
  <2>1. \A k \in 1 .. N : ends[k] \in ToSet(ends)
    <3>1. DOMAIN ends = 1 .. N
      BY EndsAre
    <3> QED BY <3>1 DEF ToSet
  <2> QED BY <2>1, PlainGives
<1>6. Vertices \in Closed /\ \A k \in 1 .. N : Vertices \ {ends[k]} \in Closed
  <2>1. \A v \in Vertices : Sources(v) \subseteq Vertices
    BY InFlows
  <2> HIDE DEF ends, N
  <2> QED BY <2>1, <1>5 DEF Closed
<1> HIDE DEF ends, N
<1> DEFINE Gone(k) == {ends[j] : j \in 1 .. k}
           Good(t, k) == /\ t.calls \in Seq(Entry) /\ InOrder(t.calls) /\ Matched(t.calls)
                         /\ Settled(Nodes(t.calls), Gone(k))
                         /\ \A j \in 1 .. N : k < j => ends[j] \notin Nodes(t.calls)
                         /\ t.results \in Seq(Results) /\ Len(t.results) = k
                         /\ \A j \in 1 .. k : t.results[j] = ends[j]
           Kept == {k \in 0 .. N : Good(f[k], k)}
<1>7. 0 \in Kept
  <2>1. f[0].calls = <<>> /\ f[0].results = <<>> /\ 0 \in 0 .. N
    BY <1>1, <1>2
  <2>2. <<>> \in Seq(Entry) /\ InOrder(<<>>) /\ Matched(<<>>) /\ Nodes(<<>>) = {}
    BY DEF InOrder, Matched, Nodes
  <2>3. Settled({}, Gone(0))
    BY DEF Settled
  <2>4. <<>> \in Seq(Results) /\ Len(<<>>) = 0 /\ \A j \in 1 .. 0 : <<>>[j] = ends[j]
    OBVIOUS
  <2>5. Good(f[0], 0)
    <3> HIDE DEF Gone
    <3> QED BY <2>1, <2>2, <2>3, <2>4
  <2> HIDE DEF Good
  <2> QED BY <2>1, <2>5
<1>8. ASSUME NEW k \in 1 .. N, k - 1 \in Kept PROVE k \in Kept
  <2> DEFINE t == f[k - 1]
             path == t.calls
             v == ends[k]
             s == From(path, v)
             r == Start(path)
  <2>1. k \in 0 .. N /\ Good(t, k - 1)
    <3> HIDE DEF Good
    <3> QED BY <1>2, <1>8
  <2>2. f[k].calls = s.calls /\ f[k].results = Append(t.results, s.ctx) /\ v \in Vertices
    BY <1>1, <1>2
  <2>3. path \in Seq(Entry)
    BY <2>1
  <2>4. r \in Runs /\ r.calls = path /\ s \in Runs
    <3> HIDE DEF path, v
    <3> QED BY <2>2, <2>3, FromTyped
  <2>5. Gone(k - 1) \in SUBSET Vertices /\ \A x \in Vertices : Sources(x) \cap Gone(k - 1) = {}
    <3>1. \A j \in 1 .. k - 1 : j \in 1 .. N
      BY <1>2
    <3> QED BY <3>1, <1>2, <1>5
  <2>6. Gone(k - 1) \cup {v} = Gone(k)
    <3>1. \A j \in 1 .. k : j \in 1 .. k - 1 \/ j = k
      OBVIOUS
    <3>2. k \in 1 .. k /\ \A j \in 1 .. k - 1 : j \in 1 .. k
      OBVIOUS
    <3> QED BY <3>1, <3>2
  <2>7. /\ InOrder(path) /\ Matched(path) /\ Settled(Nodes(path), Gone(k - 1))
        /\ v \notin Nodes(path)
    BY <2>1
  <2>8. /\ \A j \in 1 .. N : k - 1 < j => ends[j] \notin Nodes(path)
        /\ t.results \in Seq(Results) /\ Len(t.results) = k - 1
        /\ \A j \in 1 .. k - 1 : t.results[j] = ends[j]
    BY <2>1
  <2> HIDE DEF Good, Gone
  <2>9. Ready(r, Gone(k - 1), Vertices)
    BY <2>4, <2>5, <2>7 DEF Ready
  <2> HIDE DEF path, v, r, s
  <2>10. s = reverseFollowExecutionPath[Len(nodes)][r][v]
    BY DEF s, r, From
  <2>11. Finds(r, s, v, Gone(k - 1))
    BY <1>4, <1>6, <2>2, <2>4, <2>5, <2>9, <2>10, PathsFind
  <2>12. Reached(r, s, v)
    BY <1>4, <2>2, <2>4, <2>7, <2>10, PathsInOrder
  <2>13. s.ctx = v /\ Matched(s.calls) /\ Settled(Nodes(s.calls), Gone(k))
    BY <2>4, <2>6, <2>7, <2>11 DEF Finds
  <2>14. ASSUME NEW j \in 1 .. N, k < j PROVE ends[j] \notin Nodes(s.calls)
    <3>1. v \in Vertices \ {ends[j]}
      BY <1>3, <2>2, <2>14 DEF v
    <3>2. Nodes(s.calls) \subseteq Nodes(path) \cup (Vertices \ {ends[j]})
      BY <3>1, <1>6, <2>4, <2>12 DEF Reached
    <3>3. k - 1 < j
      BY <2>14, <1>2
    <3> QED BY <3>2, <3>3, <2>8
  <2>15. /\ f[k].results \in Seq(Results) /\ Len(f[k].results) = k
         /\ \A j \in 1 .. k : f[k].results[j] = ends[j]
    <3> DEFINE g == t.results
    <3>1. g \in Seq(Results) /\ Len(g) = k - 1 /\ v \in Results /\ f[k].results = Append(g, v)
      BY <2>2, <2>8, <2>13 DEF Results
    <3>2. \A j \in 1 .. k - 1 : g[j] = ends[j]
      BY <2>8
    <3> HIDE DEF g
    <3> QED BY <3>1, <3>2 DEF v
  <2>16. s.calls \in Seq(Entry) /\ InOrder(s.calls)
    BY <2>4, <2>12, RunIs DEF Reached
  <2>17. Good(f[k], k)
    BY <2>2, <2>13, <2>14, <2>15, <2>16 DEF Good
  <2> QED BY <2>1, <2>17
<1>9. Kept = 0 .. N
  <2>1. Kept \in SUBSET (0 .. N)
    OBVIOUS
  <2> HIDE DEF Kept
  <2> QED BY <1>2, <1>7, <1>8, <2>1, RecursionKeeps
<1>10. Good(f[N], N)
  <2>1. N \in 0 .. N
    BY <1>2
  <2> HIDE DEF Good
  <2> QED BY <2>1, <1>9
<1> QED BY <1>1, <1>10 DEF N, ends

LEMMA InvGivesArguments == RoomInv => ArgumentsInPlace
<1> SUFFICES ASSUME RoomInv, Plain PROVE ArgumentsInPlace
  BY DEF ArgumentsInPlace
<1> DEFINE path == execute.calls
           ends == getNodesWithExternalOutputs
<1>1. GraphInv
  BY DEF RoomInv
<1>2. /\ Matched(path) /\ path \in Seq(Entry)
      /\ \A k \in 1 .. Len(ends) : execute.results[k] = ends[k]
  BY <1>1, ExecuteFinds
<1>3. DOMAIN path = 1 .. Len(path) /\ DOMAIN ends = 1 .. Len(ends)
  BY <1>1, <1>2, EndsAre
<1>4. ASSUME NEW i \in 1 .. Len(path)
      PROVE  argumentsOf(path[i]) = [p \in InputsOf(path[i].node) |-> Argument(path[i].node, p)]
  <2> DEFINE c == path[i]
             v == c.node
             ins == InEdges(flows, v)
  <2>1. c \in Entry
    BY <1>2
  <2>2. v \in Vertices
    BY <2>1 DEF Entry
  <2>3. \A k \in 1 .. Len(ins) : c.found[k] = ins[k].from
    BY <1>2 DEF Matched
  <2> HIDE DEF c
  <2>4. DOMAIN ins = 1 .. Len(ins)
    BY <1>1, <2>2, InFlows
  <2>5. /\ \A j, k \in DOMAIN ins : j < k => ins[j].in < ins[k].in
        /\ ins = <<>> \/ OpenOf(v) = {} \/ ConstantsOf(v) = {}
    BY <2>2 DEF Plain
  <2>6. argumentsOf(c) = [p \in InputsOf(v) |-> Argument(v, p)]
    BY <2>1, <2>2, <2>3, <2>4, <2>5, ArgumentsAre
  <2> QED BY <2>6 DEF c
<1>5. \A k \in 1 .. Len(ends) : resultOf(execute.results[k], 1) = resultOf(ends[k], 1)
  BY <1>2
<1> QED BY <1>3, <1>4, <1>5 DEF ArgumentsInPlace

(* In a workflow that runs as drawn (Plain), whatever its edits, every     *)
(* operation is called with what was drawn, set or filled in for each of   *)
(* its inputs: the insertions into the list of arguments                   *)
(* (parseInputNodeArguments, executeNode) end in the right places, and     *)
(* the results are in the context when they are wanted.                    *)
THEOREM ArgumentsAreInPlace == GSpec => []ArgumentsInPlace
<1>1. GInit => RoomInv
  BY RoomInit
<1>2. RoomInv /\ [Edit]_gvars => RoomInv'
  BY RoomStep
<1>3. RoomInv => ArgumentsInPlace
  BY InvGivesArguments
<1> QED BY <1>1, <1>2, <1>3, PTL DEF GSpec
=============================================================================
