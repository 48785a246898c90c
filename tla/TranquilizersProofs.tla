------------------------- MODULE TranquilizersProofs -------------------------
(***************************************************************************)
(* No progress dialog is left behind, for any number of tranquilizers and  *)
(* tasks, and whichever of them have taken the same id.  The argument is   *)
(* about the way of the events: a removal never overtakes the creation it  *)
(* was sent after, although the two take different ways to the handler.    *)
(***************************************************************************)
EXTENDS Tranquilizers, FiniteSetTheorems, TLAPS

Events == [to : {"kernel", "handler"}, kind : {"create", "update", "remove"},
           id : Nat, current : Nat]

TrqRecords == [phase : {"new", "numbers", "runs", "stopped", "gone"},
               id : Nat \union {Undef}, end : Nat \union {Undef},
               current : Nat, holder : Tasks \union {None}]

TaskRecords == [pc : {"loop", "reports", "ends", "sleeps"}, left : Int, amount : Nat]

Typed ==
  /\ trqId \in Nat
  /\ trq \in [Trqs -> TrqRecords]
  /\ \A t \in Trqs : trq[t].phase # "new" => trq[t].id \in Nat
  /\ task \in [Tasks -> TaskRecords]
  /\ \A s \in Tasks : task[s].pc # "loop" => trq[TrqOf[s]].phase # "new"
  /\ mainQueue \in Seq(Events)
  /\ trqQueue \in Seq(Events)
  /\ DOMAIN dialogs \subseteq Nat

Live(i) == \E t \in Holders(i) : trq[t].phase # "gone"

IsRemoval(m, i) == m.kind = "remove" /\ m.id = i
IsCreation(m, i) == m.kind = "create" /\ m.id = i

(* A removal that has still to pass the kernel, or waits in the tranquilizer thread. *)
InKernel(i) == \E k \in DOMAIN mainQueue : mainQueue[k].to = "kernel" /\ IsRemoval(mainQueue[k], i)

(* What is known of an id whose holders have all been destroyed: its dialog has a    *)
(* removal in flight, and every creation has a removal behind it.                    *)
DialogOK(i) ==
  i \in DOMAIN dialogs =>
    \/ \E k \in DOMAIN mainQueue : IsRemoval(mainQueue[k], i)
    \/ \E k \in DOMAIN trqQueue : IsRemoval(trqQueue[k], i)

MainOK(i) ==
  \A k \in DOMAIN mainQueue : IsCreation(mainQueue[k], i) =>
    \/ InKernel(i)
    \/ \E j \in DOMAIN trqQueue : IsRemoval(trqQueue[j], i)
    \/ \E j \in DOMAIN mainQueue : j > k /\ IsRemoval(mainQueue[j], i)

TrqOK(i) ==
  \A k \in DOMAIN trqQueue : IsCreation(trqQueue[k], i) =>
    \/ InKernel(i)
    \/ \E j \in DOMAIN trqQueue : j > k /\ IsRemoval(trqQueue[j], i)

Behind(i) == DialogOK(i) /\ MainOK(i) /\ TrqOK(i)

(* Creations do not pass the kernel.                                                 *)
NoCreationInKernel ==
  \A k \in DOMAIN mainQueue : mainQueue[k].kind = "create" => mainQueue[k].to = "handler"

Orphan(i) == Holders(i) \intersect InMain = {} /\ ~Live(i)

IInv == Typed /\ NoCreationInKernel /\ \A i \in Nat : Orphan(i) => Behind(i)

-----------------------------------------------------------------------------
(* Types *)

(* An event of a tranquilizer that has taken its id is an event.                     *)
LEMMA EventType ==
  ASSUME Typed, NEW t \in Trqs, trq[t].phase # "new",
         NEW kind \in {"create", "update", "remove"}, NEW n \in Nat
  PROVE  Event(kind, t, n) \in Events
BY DEF Typed, Event, Events

(* The queues stay queues of events when one is added or taken.                      *)
LEMMA AppendType ==
  ASSUME NEW q \in Seq(Events), NEW e \in Events
  PROVE  Append(q, e) \in Seq(Events)
OBVIOUS

LEMMA HeadTailType ==
  ASSUME NEW q \in Seq(Events), q # << >>
  PROVE  Head(q) \in Events /\ Tail(q) \in Seq(Events)
OBVIOUS

LEMMA RemovalType ==
  ASSUME Typed, NEW t \in Trqs, trq[t].phase # "new"
  PROVE  Removal(t) \in Seq(Events)
<1>1. Event("remove", t, 0) \in Events
  BY EventType
<1>. QED BY <1>1, AppendType DEF Removal, Typed

(* Initially nothing was sent and no dialog is shown.                                *)
LEMMA InitTyped == Init => Typed
<1>. SUFFICES ASSUME Init PROVE Typed
  OBVIOUS
<1>1. [phase |-> "new", id |-> Undef, end |-> Undef, current |-> 0, holder |-> None]
        \in TrqRecords
  BY DEF TrqRecords
<1>2. \A s \in Tasks : [pc |-> "loop", left |-> Updates[s], amount |-> 0] \in TaskRecords
  BY TranquilizerAssumption DEF TaskRecords
<1>3. trq \in [Trqs -> TrqRecords] /\ task \in [Tasks -> TaskRecords]
  BY <1>1, <1>2 DEF Init
<1>4. \A t \in Trqs : trq[t].phase = "new"
  BY DEF Init
<1>5. \A s \in Tasks : task[s].pc = "loop"
  BY DEF Init
<1>6. mainQueue \in Seq(Events) /\ trqQueue \in Seq(Events) /\ DOMAIN dialogs \subseteq Nat
  BY DEF Init
<1>. QED BY <1>3, <1>4, <1>5, <1>6 DEF Init, Typed

(* The records of a task that a step leaves are records of a task.                   *)
LEMMA TaskStep ==
  ASSUME NEW q \in TaskRecords, NEW n \in Nat, NEW p \in {"reports", "ends"}
  PROVE  /\ [q EXCEPT !.pc = "loop", !.left = q.left - 1] \in TaskRecords
         /\ [q EXCEPT !.amount = n, !.pc = p] \in TaskRecords
         /\ [q EXCEPT !.pc = "sleeps"] \in TaskRecords
<1>1. q.left \in Int /\ q.left - 1 \in Int
  BY DEF TaskRecords
<1>2. \A k \in Int : [q EXCEPT !.pc = "loop", !.left = k] \in TaskRecords
  BY DEF TaskRecords
<1>3. [q EXCEPT !.amount = n, !.pc = p] \in TaskRecords
  BY DEF TaskRecords
<1>4. [q EXCEPT !.pc = "sleeps"] \in TaskRecords
  BY DEF TaskRecords
<1>. QED BY <1>1, <1>2, <1>3, <1>4

(* A step that gives one tranquilizer and one task new records keeps their types.    *)
LEMMA TrqChange ==
  ASSUME Typed, NEW t \in Trqs, NEW r \in TrqRecords, r.phase # "new", r.id \in Nat,
         trq' = [trq EXCEPT ![t] = r], task' = task
  PROVE  /\ trq' \in [Trqs -> TrqRecords]
         /\ \A u \in Trqs : trq'[u].phase # "new" => trq'[u].id \in Nat
         /\ \A s \in Tasks : task'[s].pc # "loop" => trq'[TrqOf[s]].phase # "new"
BY TranquilizerAssumption DEF Typed

LEMMA TaskChange ==
  ASSUME Typed, NEW s \in Tasks, NEW r \in TrqRecords, NEW q \in TaskRecords,
         trq[TrqOf[s]].phase # "new",
         r.phase = trq[TrqOf[s]].phase, r.id = trq[TrqOf[s]].id,
         trq' = [trq EXCEPT ![TrqOf[s]] = r], task' = [task EXCEPT ![s] = q]
  PROVE  /\ trq' \in [Trqs -> TrqRecords]
         /\ task' \in [Tasks -> TaskRecords]
         /\ \A u \in Trqs : trq'[u].phase = trq[u].phase /\ trq'[u].id = trq[u].id
         /\ \A u \in Trqs : trq'[u].phase # "new" => trq'[u].id \in Nat
         /\ \A u \in Tasks : task'[u].pc # "loop" => trq'[TrqOf[u]].phase # "new"
<1>1. TrqOf[s] \in Trqs
  BY TranquilizerAssumption
<1>2. \A u \in Trqs : trq'[u].phase = trq[u].phase /\ trq'[u].id = trq[u].id
  BY <1>1 DEF Typed
<1>3. trq' \in [Trqs -> TrqRecords] /\ task' \in [Tasks -> TaskRecords]
  BY <1>1 DEF Typed
<1>4. \A u \in Tasks : task'[u].pc # "loop" => trq[TrqOf[u]].phase # "new"
  BY DEF Typed
<1>. QED BY <1>2, <1>3, <1>4, TranquilizerAssumption DEF Typed

(* Every step keeps the types.                                                       *)
LEMMA OwnerTyped ==
  ASSUME Typed, NEW t \in Trqs, Owner(t)
  PROVE  Typed'
<1>0. trq[t] \in TrqRecords
  BY DEF Typed
<1>1. CASE TakeId(t)
  <2>. DEFINE r == [trq[t] EXCEPT !.phase = "numbers", !.id = trqId]
  <2>1. r \in TrqRecords /\ r.phase = "numbers" /\ r.id \in Nat
    BY <1>0 DEF Typed, TrqRecords
  <2>2. trq' = [trq EXCEPT ![t] = r] /\ task' = task
    BY <1>1 DEF TakeId
  <2>3. /\ trq' \in [Trqs -> TrqRecords]
        /\ \A u \in Trqs : trq'[u].phase # "new" => trq'[u].id \in Nat
        /\ \A s \in Tasks : task'[s].pc # "loop" => trq'[TrqOf[s]].phase # "new"
    <3>. HIDE DEF r
    <3>. QED BY <2>1, <2>2, TrqChange
  <2>. QED BY <1>1, <2>3 DEF TakeId, Typed
<1>2. CASE Prepare(t)
  <2>. DEFINE r == [trq[t] EXCEPT !.phase = "runs", !.end = End[t]]
  <2>0. trq[t].phase # "new" /\ trq[t].id \in Nat
    BY <1>2 DEF Prepare, Typed
  <2>1. r \in TrqRecords /\ r.phase = "runs" /\ r.id \in Nat
    BY <1>0, <2>0, TranquilizerAssumption DEF Typed, TrqRecords
  <2>2. trq' = [trq EXCEPT ![t] = r] /\ task' = task
    BY <1>2 DEF Prepare
  <2>3. /\ trq' \in [Trqs -> TrqRecords]
        /\ \A u \in Trqs : trq'[u].phase # "new" => trq'[u].id \in Nat
        /\ \A s \in Tasks : task'[s].pc # "loop" => trq'[TrqOf[s]].phase # "new"
    <3>. HIDE DEF r
    <3>. QED BY <2>1, <2>2, TrqChange
  <2>4. Event("create", t, 0) \in Events
    BY <2>0, EventType
  <2>5. trqQueue' \in Seq(Events)
    BY <1>2, <2>4, AppendType DEF Prepare, Typed
  <2>6. trqId' \in Nat
    BY <1>2, <2>0 DEF Prepare
  <2>. QED BY <1>2, <2>3, <2>5, <2>6 DEF Prepare, Typed
<1>3. CASE Stop(t)
  <2>. DEFINE r == [trq[t] EXCEPT !.phase = "stopped"]
  <2>0. trq[t].phase # "new" /\ trq[t].id \in Nat
    BY <1>3 DEF Stop, Typed
  <2>1. r \in TrqRecords /\ r.phase = "stopped" /\ r.id \in Nat
    BY <1>0, <2>0 DEF TrqRecords
  <2>2. trq' = [trq EXCEPT ![t] = r] /\ task' = task
    BY <1>3 DEF Stop
  <2>3. /\ trq' \in [Trqs -> TrqRecords]
        /\ \A u \in Trqs : trq'[u].phase # "new" => trq'[u].id \in Nat
        /\ \A s \in Tasks : task'[s].pc # "loop" => trq'[TrqOf[s]].phase # "new"
    <3>. HIDE DEF r
    <3>. QED BY <2>1, <2>2, TrqChange
  <2>4. Removal(t) \in Seq(Events)
    BY <2>0, RemovalType
  <2>. QED BY <1>3, <2>3, <2>4 DEF Stop, Typed
<1>4. CASE Destroy(t)
  <2>. DEFINE r == [trq[t] EXCEPT !.phase = "gone"]
  <2>0. trq[t].phase # "new" /\ trq[t].id \in Nat
    BY <1>4 DEF Destroy, Typed
  <2>1. r \in TrqRecords /\ r.phase = "gone" /\ r.id \in Nat
    BY <1>0, <2>0 DEF TrqRecords
  <2>2. trq' = [trq EXCEPT ![t] = r] /\ task' = task
    BY <1>4 DEF Destroy
  <2>3. /\ trq' \in [Trqs -> TrqRecords]
        /\ \A u \in Trqs : trq'[u].phase # "new" => trq'[u].id \in Nat
        /\ \A s \in Tasks : task'[s].pc # "loop" => trq'[TrqOf[s]].phase # "new"
    <3>. HIDE DEF r
    <3>. QED BY <2>1, <2>2, TrqChange
  <2>4. Removal(t) \in Seq(Events)
    BY <2>0, RemovalType
  <2>. QED BY <1>4, <2>3, <2>4 DEF Destroy, Typed
<1>. QED BY <1>1, <1>2, <1>3, <1>4 DEF Owner

LEMMA TaskTyped ==
  ASSUME Typed, NEW s \in Tasks, Task(s)
  PROVE  /\ Typed'
         /\ \A u \in Trqs : trq'[u].phase = trq[u].phase /\ trq'[u].id = trq[u].id
<1>. DEFINE t == TrqOf[s]
<1>0. t \in Trqs /\ trq[t] \in TrqRecords /\ task[s] \in TaskRecords
  BY TranquilizerAssumption DEF Typed
<1>1. CASE Refused(s)
  <2>1. PICK q \in TaskRecords : task' = [task EXCEPT ![s] = q]
    <3>1. [task[s] EXCEPT !.left = 0] \in TaskRecords
      BY <1>0 DEF TaskRecords
    <3>2. [task[s] EXCEPT !.pc = "loop", !.left = task[s].left - 1] \in TaskRecords
      BY <1>0, TaskStep
    <3>3. \/ task' = [task EXCEPT ![s] = [task[s] EXCEPT !.left = 0]]
          \/ task' = [task EXCEPT ![s] = [task[s] EXCEPT !.pc = "loop", !.left = task[s].left - 1]]
      BY <1>1 DEF Refused, Done
    <3>. QED BY <3>1, <3>2, <3>3
  <2>2. trq' = [trq EXCEPT ![t] = trq[t]]
    BY <1>1, <1>0 DEF Refused, Typed
  <2>3. trq[t].phase # "new"
    BY <1>1 DEF Refused
  <2>4. /\ trq' \in [Trqs -> TrqRecords]
        /\ task' \in [Tasks -> TaskRecords]
        /\ \A u \in Trqs : trq'[u].phase = trq[u].phase /\ trq'[u].id = trq[u].id
        /\ \A u \in Trqs : trq'[u].phase # "new" => trq'[u].id \in Nat
        /\ \A u \in Tasks : task'[u].pc # "loop" => trq'[TrqOf[u]].phase # "new"
    BY <1>0, <2>1, <2>2, <2>3, TaskChange
  <2>. QED BY <1>1, <2>4 DEF Refused, Typed
<1>2. CASE Advance(s)
  <2>. DEFINE r == [trq[t] EXCEPT !.current = trq[t].current + 1, !.holder = s]
              p == IF trq[t].current + 1 >= trq[t].end THEN "ends" ELSE "reports"
              q == [task[s] EXCEPT !.amount = trq[t].current + 1, !.pc = p]
  <2>0. trq[t].current + 1 \in Nat
    BY <1>0 DEF TrqRecords
  <2>1. r \in TrqRecords /\ r.phase = trq[t].phase /\ r.id = trq[t].id
    <3>1. \A k \in Nat : [trq[t] EXCEPT !.current = k, !.holder = s] \in TrqRecords
      BY <1>0 DEF TrqRecords
    <3>2. r \in TrqRecords
      BY <2>0, <3>1
    <3>. QED BY <1>0, <3>2 DEF TrqRecords
  <2>2. p \in {"ends", "reports"}
    OBVIOUS
  <2>3. q \in TaskRecords
    <3>. HIDE DEF p
    <3>. QED BY <1>0, <2>0, <2>2, TaskStep
  <2>4. trq' = [trq EXCEPT ![t] = r] /\ task' = [task EXCEPT ![s] = q]
    BY <1>2 DEF Advance
  <2>5. trq[t].phase # "new"
    BY <1>2 DEF Advance
  <2>6. /\ trq' \in [Trqs -> TrqRecords]
        /\ task' \in [Tasks -> TaskRecords]
        /\ \A u \in Trqs : trq'[u].phase = trq[u].phase /\ trq'[u].id = trq[u].id
        /\ \A u \in Trqs : trq'[u].phase # "new" => trq'[u].id \in Nat
        /\ \A u \in Tasks : task'[u].pc # "loop" => trq'[TrqOf[u]].phase # "new"
    <3>. HIDE DEF r, q
    <3>. QED BY <2>1, <2>3, <2>4, <2>5, TaskChange
  <2>. QED BY <1>2, <2>6 DEF Advance, Typed
<1>3. CASE Report(s)
  <2>. DEFINE r == [trq[t] EXCEPT !.holder = IF task[s].pc = "ends" THEN @ ELSE None]
              q == IF task[s].pc = "ends" THEN [task[s] EXCEPT !.pc = "sleeps"]
                     ELSE [task[s] EXCEPT !.pc = "loop", !.left = task[s].left - 1]
  <2>1. r \in TrqRecords /\ r.phase = trq[t].phase /\ r.id = trq[t].id
    BY <1>0 DEF TrqRecords
  <2>2. q \in TaskRecords
    BY <1>0, TaskStep
  <2>3. trq' = [trq EXCEPT ![t] = r] /\ task' = [task EXCEPT ![s] = q]
    BY <1>3 DEF Report, Done
  <2>4. trq[t].phase # "new" /\ task[s].amount \in Nat
    BY <1>0, <1>3 DEF Report, Typed, TaskRecords
  <2>5. /\ trq' \in [Trqs -> TrqRecords]
        /\ task' \in [Tasks -> TaskRecords]
        /\ \A u \in Trqs : trq'[u].phase = trq[u].phase /\ trq'[u].id = trq[u].id
        /\ \A u \in Trqs : trq'[u].phase # "new" => trq'[u].id \in Nat
        /\ \A u \in Tasks : task'[u].pc # "loop" => trq'[TrqOf[u]].phase # "new"
    <3>. HIDE DEF r, q
    <3>. QED BY <2>1, <2>2, <2>3, <2>4, TaskChange
  <2>6. Event("update", t, task[s].amount) \in Events
    BY <2>4, <1>0, EventType
  <2>7. mainQueue' \in Seq(Events)
    BY <1>3, <2>6, AppendType DEF Report, Typed
  <2>. QED BY <1>3, <2>5, <2>7 DEF Report, Typed
<1>4. CASE Finish(s)
  <2>. DEFINE r == [trq[t] EXCEPT !.end = Undef, !.holder = None]
              q == [task[s] EXCEPT !.pc = "loop", !.left = task[s].left - 1]
  <2>1. r \in TrqRecords /\ r.phase = trq[t].phase /\ r.id = trq[t].id
    BY <1>0 DEF TrqRecords
  <2>2. q \in TaskRecords
    BY <1>0, TaskStep
  <2>3. trq' = [trq EXCEPT ![t] = r] /\ task' = [task EXCEPT ![s] = q]
    BY <1>4 DEF Finish, Done
  <2>4. trq[t].phase # "new"
    BY <1>4 DEF Finish, Typed
  <2>5. /\ trq' \in [Trqs -> TrqRecords]
        /\ task' \in [Tasks -> TaskRecords]
        /\ \A u \in Trqs : trq'[u].phase = trq[u].phase /\ trq'[u].id = trq[u].id
        /\ \A u \in Trqs : trq'[u].phase # "new" => trq'[u].id \in Nat
        /\ \A u \in Tasks : task'[u].pc # "loop" => trq'[TrqOf[u]].phase # "new"
    <3>. HIDE DEF r, q
    <3>. QED BY <2>1, <2>2, <2>3, <2>4, TaskChange
  <2>6. mainQueue' \in Seq(Events)
    BY <1>4, <2>4, <1>0, RemovalType DEF Finish
  <2>. QED BY <1>4, <2>5, <2>6 DEF Finish, Typed
<1>. QED BY <1>1, <1>2, <1>3, <1>4 DEF Task

LEMMA MainTyped ==
  ASSUME Typed, MainLoop
  PROVE  Typed'
<1>. DEFINE m == Head(mainQueue)
<1>1. m \in Events /\ mainQueue' \in Seq(Events)
  BY HeadTailType DEF MainLoop, Typed
<1>2. trqQueue' \in Seq(Events)
  BY <1>1, AppendType DEF MainLoop, Typed
<1>3. DOMAIN dialogs' \subseteq Nat
  BY <1>1 DEF MainLoop, HandleCreate, HandleUpdate, HandleRemove, Typed, Events
<1>. QED BY <1>1, <1>2, <1>3 DEF MainLoop, Typed

LEMMA TrqTyped ==
  ASSUME Typed, TrqLoop
  PROVE  Typed'
<1>. DEFINE m == Head(trqQueue)
<1>1. m \in Events /\ trqQueue' \in Seq(Events)
  BY HeadTailType DEF TrqLoop, Typed
<1>2. [m EXCEPT !.to = "handler"] \in Events
  BY <1>1 DEF Events
<1>3. mainQueue' \in Seq(Events)
  BY <1>2, AppendType DEF TrqLoop, Typed
<1>. QED BY <1>1, <1>3 DEF TrqLoop, Typed

LEMMA NextTyped == Typed /\ [Next]_vars => Typed'
<1>. SUFFICES ASSUME Typed, [Next]_vars PROVE Typed'
  OBVIOUS
<1>1. ASSUME NEW t \in Trqs, Owner(t) PROVE Typed'
  BY <1>1, OwnerTyped
<1>2. ASSUME NEW s \in Tasks, Task(s) PROVE Typed'
  BY <1>2, TaskTyped
<1>3. CASE MainLoop
  BY <1>3, MainTyped
<1>4. CASE TrqLoop
  BY <1>4, TrqTyped
<1>5. CASE ExitUI \/ Leave
  BY <1>5 DEF ExitUI, Leave, Typed
<1>6. CASE UNCHANGED vars
  BY <1>6 DEF vars, Typed
<1>. QED BY <1>1, <1>2, <1>3, <1>4, <1>5, <1>6 DEF Next

-----------------------------------------------------------------------------
(* The way of the events *)

(* A step that leaves the phases and the ids alone makes no id an orphan.            *)
LEMMA SameOrphans ==
  ASSUME \A u \in Trqs : trq'[u].phase = trq[u].phase /\ trq'[u].id = trq[u].id, NEW i
  PROVE  Orphan(i)' <=> Orphan(i)
BY DEF Orphan, Live, Holders, Prepared

(* An event that the main thread is sent and that is no creation disturbs nothing.   *)
LEMMA SendMain ==
  ASSUME Typed, NEW e \in Events, e.kind # "create", NEW i, Behind(i),
         mainQueue' = Append(mainQueue, e), UNCHANGED <<trqQueue, dialogs>>
  PROVE  Behind(i)'
<1>1. /\ DOMAIN mainQueue' = 1 .. Len(mainQueue) + 1
      /\ DOMAIN mainQueue = 1 .. Len(mainQueue)
      /\ \A k \in DOMAIN mainQueue : mainQueue'[k] = mainQueue[k]
      /\ mainQueue'[Len(mainQueue) + 1] = e
      /\ Len(mainQueue) \in Nat
  BY DEF Typed
<1>2. InKernel(i) => InKernel(i)'
  BY <1>1 DEF InKernel, IsRemoval
<1>3. DialogOK(i)'
  BY <1>1 DEF Behind, DialogOK, IsRemoval
<1>4. MainOK(i)'
  BY <1>1, <1>2 DEF Behind, MainOK, IsRemoval, IsCreation
<1>5. TrqOK(i)'
  BY <1>2 DEF Behind, TrqOK, IsRemoval, IsCreation
<1>. QED BY <1>3, <1>4, <1>5 DEF Behind

(* A removal that is sent to the kernel is behind every creation of its id.          *)
LEMMA SendRemoval ==
  ASSUME Typed, NEW e \in Events, e.kind = "remove", e.to = "kernel",
         mainQueue' = Append(mainQueue, e), UNCHANGED <<trqQueue, dialogs>>
  PROVE  Behind(e.id)'
<1>1. /\ DOMAIN mainQueue' = 1 .. Len(mainQueue) + 1
      /\ mainQueue'[Len(mainQueue) + 1] = e
      /\ Len(mainQueue) \in Nat
  BY DEF Typed
<1>2. InKernel(e.id)'
  BY <1>1 DEF InKernel, IsRemoval
<1>. QED BY <1>1, <1>2 DEF Behind, DialogOK, MainOK, TrqOK, InKernel

(* Creations are sent to the tranquilizer thread, and disturb only their own id.     *)
LEMMA SendCreation ==
  ASSUME Typed, NEW e \in Events, NEW i, e.id # i, Behind(i),
         trqQueue' = Append(trqQueue, e), UNCHANGED <<mainQueue, dialogs>>
  PROVE  Behind(i)'
<1>1. /\ DOMAIN trqQueue' = 1 .. Len(trqQueue) + 1
      /\ DOMAIN trqQueue = 1 .. Len(trqQueue)
      /\ \A k \in DOMAIN trqQueue : trqQueue'[k] = trqQueue[k]
      /\ trqQueue'[Len(trqQueue) + 1] = e
      /\ Len(trqQueue) \in Nat
  BY DEF Typed
<1>2. InKernel(i)' = InKernel(i)
  BY DEF InKernel, IsRemoval
<1>3. DialogOK(i)'
  BY <1>1 DEF Behind, DialogOK, IsRemoval
<1>4. MainOK(i)'
  BY <1>1, <1>2 DEF Behind, MainOK, IsRemoval, IsCreation
<1>5. TrqOK(i)'
  BY <1>1, <1>2 DEF Behind, TrqOK, IsRemoval, IsCreation
<1>. QED BY <1>3, <1>4, <1>5 DEF Behind

(* The kernel passes an event on: a removal ends up behind all that the tranquilizer *)
(* thread has to send.                                                               *)
LEMMA PassOn ==
  ASSUME Typed, NoCreationInKernel, NEW i, Behind(i), mainQueue # << >>,
         Head(mainQueue).to = "kernel",
         mainQueue' = Tail(mainQueue), trqQueue' = Append(trqQueue, Head(mainQueue)),
         UNCHANGED dialogs
  PROVE  Behind(i)'
<1>. DEFINE n == Len(mainQueue)  l == Len(trqQueue)  e == mainQueue[1]
<1>1. /\ n \in Nat \ {0} /\ DOMAIN mainQueue = 1 .. n /\ DOMAIN mainQueue' = 1 .. n - 1
      /\ \A k \in 1 .. n - 1 : mainQueue'[k] = mainQueue[k + 1]
      /\ Head(mainQueue) = e
  BY DEF Typed
<1>2. /\ l \in Nat /\ DOMAIN trqQueue = 1 .. l /\ DOMAIN trqQueue' = 1 .. l + 1
      /\ \A k \in 1 .. l : trqQueue'[k] = trqQueue[k]
      /\ trqQueue'[l + 1] = e
  BY <1>1, HeadTailType DEF Typed
<1>3. e.kind # "create"
  BY <1>1 DEF NoCreationInKernel
<1>. HIDE DEF n, l, e
<1>4. \A k \in DOMAIN mainQueue : k = 1 \/ (k - 1 \in DOMAIN mainQueue' /\ mainQueue'[k - 1] = mainQueue[k])
  BY <1>1
<1>5. \A k \in DOMAIN mainQueue' : k + 1 \in DOMAIN mainQueue /\ mainQueue'[k] = mainQueue[k + 1]
  BY <1>1
<1>6. InKernel(i) => InKernel(i)' \/ IsRemoval(trqQueue'[l + 1], i)
  BY <1>1, <1>2, <1>4 DEF InKernel, IsRemoval, e
<1>60. l + 1 \in DOMAIN trqQueue'
  BY <1>2
<1>61. \A k \in DOMAIN mainQueue : IsRemoval(mainQueue[k], i) =>
         \/ IsRemoval(trqQueue'[l + 1], i)
         \/ k - 1 \in DOMAIN mainQueue' /\ IsRemoval(mainQueue'[k - 1], i)
  BY <1>2, <1>4 DEF IsRemoval, e
<1>62. \A k \in DOMAIN trqQueue : k \in DOMAIN trqQueue' /\ trqQueue'[k] = trqQueue[k]
  BY <1>2
<1>7. DialogOK(i)'
  <2>. SUFFICES ASSUME i \in DOMAIN dialogs
                PROVE  \/ \E k \in DOMAIN mainQueue' : IsRemoval(mainQueue'[k], i)
                       \/ \E k \in DOMAIN trqQueue' : IsRemoval(trqQueue'[k], i)
    BY DEF DialogOK, IsRemoval
  <2>1. \/ \E k \in DOMAIN mainQueue : IsRemoval(mainQueue[k], i)
        \/ \E k \in DOMAIN trqQueue : IsRemoval(trqQueue[k], i)
    BY DEF Behind, DialogOK
  <2>2. CASE \E k \in DOMAIN mainQueue : IsRemoval(mainQueue[k], i)
    BY <2>2, <1>60, <1>61
  <2>3. CASE \E k \in DOMAIN trqQueue : IsRemoval(trqQueue[k], i)
    BY <2>3, <1>62
  <2>. QED BY <2>1, <2>2, <2>3
<1>8. MainOK(i)'
  <2>. SUFFICES ASSUME NEW k \in DOMAIN mainQueue', IsCreation(mainQueue'[k], i)
                PROVE  \/ InKernel(i)'
                       \/ \E j \in DOMAIN trqQueue' : IsRemoval(trqQueue'[j], i)
                       \/ \E j \in DOMAIN mainQueue' : j > k /\ IsRemoval(mainQueue'[j], i)
    BY DEF MainOK, IsRemoval, IsCreation
  <2>1. k + 1 \in DOMAIN mainQueue /\ IsCreation(mainQueue[k + 1], i) /\ k \in Nat
    BY <1>5, <1>1 DEF IsCreation
  <2>2. \/ InKernel(i)
        \/ \E j \in DOMAIN trqQueue : IsRemoval(trqQueue[j], i)
        \/ \E j \in DOMAIN mainQueue : j > k + 1 /\ IsRemoval(mainQueue[j], i)
    BY <2>1 DEF Behind, MainOK
  <2>3. CASE InKernel(i)
    BY <2>3, <1>6, <1>60
  <2>4. CASE \E j \in DOMAIN trqQueue : IsRemoval(trqQueue[j], i)
    BY <2>4, <1>62
  <2>5. CASE \E j \in DOMAIN mainQueue : j > k + 1 /\ IsRemoval(mainQueue[j], i)
    <3>1. PICK j \in DOMAIN mainQueue : j > k + 1 /\ IsRemoval(mainQueue[j], i)
      BY <2>5
    <3>2. j - 1 \in DOMAIN mainQueue' /\ mainQueue'[j - 1] = mainQueue[j] /\ j - 1 > k
      BY <3>1, <2>1, <1>1
    <3>. QED BY <3>1, <3>2
  <2>. QED BY <2>2, <2>3, <2>4, <2>5
<1>9. TrqOK(i)'
  <2>. SUFFICES ASSUME NEW k \in DOMAIN trqQueue', IsCreation(trqQueue'[k], i)
                PROVE  \/ InKernel(i)'
                       \/ \E j \in DOMAIN trqQueue' : j > k /\ IsRemoval(trqQueue'[j], i)
    BY DEF TrqOK, IsRemoval, IsCreation
  <2>1. k \in 1 .. l /\ IsCreation(trqQueue[k], i)
    BY <1>2, <1>3 DEF IsCreation
  <2>2. \/ InKernel(i)
        \/ \E j \in DOMAIN trqQueue : j > k /\ IsRemoval(trqQueue[j], i)
    BY <2>1, <1>2 DEF Behind, TrqOK
  <2>3. l + 1 \in DOMAIN trqQueue' /\ l + 1 > k
    BY <2>1, <1>2
  <2>. QED BY <2>2, <2>3, <1>6, <1>2
<1>. QED BY <1>7, <1>8, <1>9 DEF Behind

(* The tranquilizer thread sends an event on: a creation keeps what is behind it.    *)
LEMMA SendOn ==
  ASSUME Typed, NEW i, Behind(i), trqQueue # << >>,
         mainQueue' = Append(mainQueue, [Head(trqQueue) EXCEPT !.to = "handler"]),
         trqQueue' = Tail(trqQueue), UNCHANGED dialogs
  PROVE  Behind(i)'
<1>. DEFINE n == Len(mainQueue)  l == Len(trqQueue)  e == trqQueue[1]
            h == [e EXCEPT !.to = "handler"]
<1>1. /\ l \in Nat \ {0} /\ DOMAIN trqQueue = 1 .. l /\ DOMAIN trqQueue' = 1 .. l - 1
      /\ \A k \in 1 .. l - 1 : trqQueue'[k] = trqQueue[k + 1]
      /\ Head(trqQueue) = e /\ e \in Events
  BY DEF Typed
<1>2. h.kind = e.kind /\ h.id = e.id /\ h \in Events
  BY <1>1 DEF Events
<1>3. /\ n \in Nat /\ DOMAIN mainQueue = 1 .. n /\ DOMAIN mainQueue' = 1 .. n + 1
      /\ \A k \in 1 .. n : mainQueue'[k] = mainQueue[k]
      /\ mainQueue'[n + 1] = h
  BY <1>1, <1>2 DEF Typed
<1>. HIDE DEF n, l, h, e
<1>4. \A k \in DOMAIN trqQueue : k = 1 \/ (k - 1 \in DOMAIN trqQueue' /\ trqQueue'[k - 1] = trqQueue[k])
  BY <1>1
<1>5. \A k \in DOMAIN trqQueue' : k + 1 \in DOMAIN trqQueue /\ trqQueue'[k] = trqQueue[k + 1]
  BY <1>1
<1>6. InKernel(i) => InKernel(i)'
  BY <1>3 DEF InKernel, IsRemoval
<1>7. \A j \in DOMAIN trqQueue : IsRemoval(trqQueue[j], i) =>
         \/ j = 1 /\ IsRemoval(mainQueue'[n + 1], i)
         \/ j - 1 \in DOMAIN trqQueue' /\ IsRemoval(trqQueue'[j - 1], i)
  BY <1>2, <1>3, <1>4 DEF IsRemoval, e
<1>71. n + 1 \in DOMAIN mainQueue'
  BY <1>3
<1>72. \A k \in DOMAIN mainQueue : k \in DOMAIN mainQueue' /\ mainQueue'[k] = mainQueue[k]
  BY <1>3
<1>8. DialogOK(i)'
  <2>. SUFFICES ASSUME i \in DOMAIN dialogs
                PROVE  \/ \E k \in DOMAIN mainQueue' : IsRemoval(mainQueue'[k], i)
                       \/ \E k \in DOMAIN trqQueue' : IsRemoval(trqQueue'[k], i)
    BY DEF DialogOK, IsRemoval
  <2>1. \/ \E k \in DOMAIN mainQueue : IsRemoval(mainQueue[k], i)
        \/ \E k \in DOMAIN trqQueue : IsRemoval(trqQueue[k], i)
    BY DEF Behind, DialogOK
  <2>2. CASE \E k \in DOMAIN mainQueue : IsRemoval(mainQueue[k], i)
    BY <2>2, <1>72
  <2>3. CASE \E k \in DOMAIN trqQueue : IsRemoval(trqQueue[k], i)
    BY <2>3, <1>7, <1>71
  <2>. QED BY <2>1, <2>2, <2>3
<1>9. MainOK(i)'
  <2>. SUFFICES ASSUME NEW k \in DOMAIN mainQueue', IsCreation(mainQueue'[k], i)
                PROVE  \/ InKernel(i)'
                       \/ \E j \in DOMAIN trqQueue' : IsRemoval(trqQueue'[j], i)
                       \/ \E j \in DOMAIN mainQueue' : j > k /\ IsRemoval(mainQueue'[j], i)
    BY DEF MainOK, IsRemoval, IsCreation
  <2>1. CASE k = n + 1
    <3>1. IsCreation(trqQueue[1], i) /\ 1 \in DOMAIN trqQueue
      BY <2>1, <1>1, <1>2, <1>3 DEF IsCreation, e
    <3>2. InKernel(i) \/ \E j \in DOMAIN trqQueue : j > 1 /\ IsRemoval(trqQueue[j], i)
      BY <3>1 DEF Behind, TrqOK
    <3>3. ASSUME NEW j \in DOMAIN trqQueue, j > 1, IsRemoval(trqQueue[j], i)
          PROVE  j - 1 \in DOMAIN trqQueue' /\ IsRemoval(trqQueue'[j - 1], i)
      BY <3>3, <1>4
    <3>. QED BY <3>2, <3>3, <1>6
  <2>2. CASE k \in 1 .. n
    <3>1. IsCreation(mainQueue[k], i) /\ k \in DOMAIN mainQueue
      BY <2>2, <1>3 DEF IsCreation
    <3>2. \/ InKernel(i)
          \/ \E j \in DOMAIN trqQueue : IsRemoval(trqQueue[j], i)
          \/ \E j \in DOMAIN mainQueue : j > k /\ IsRemoval(mainQueue[j], i)
      BY <3>1 DEF Behind, MainOK
    <3>3. n + 1 \in DOMAIN mainQueue' /\ n + 1 > k
      BY <2>2, <1>3
    <3>4. CASE \E j \in DOMAIN trqQueue : IsRemoval(trqQueue[j], i)
      BY <3>3, <3>4, <1>7
    <3>5. ASSUME NEW j \in DOMAIN mainQueue, j > k, IsRemoval(mainQueue[j], i)
          PROVE  j \in DOMAIN mainQueue' /\ IsRemoval(mainQueue'[j], i)
      BY <3>5, <1>3
    <3>. QED BY <3>2, <3>4, <3>5, <1>6
  <2>3. k = n + 1 \/ k \in 1 .. n
    BY <1>3
  <2>. QED BY <2>1, <2>2, <2>3
<1>10. TrqOK(i)'
  <2>. SUFFICES ASSUME NEW k \in DOMAIN trqQueue', IsCreation(trqQueue'[k], i)
                PROVE  \/ InKernel(i)'
                       \/ \E j \in DOMAIN trqQueue' : j > k /\ IsRemoval(trqQueue'[j], i)
    BY DEF TrqOK, IsRemoval, IsCreation
  <2>1. k + 1 \in DOMAIN trqQueue /\ IsCreation(trqQueue[k + 1], i) /\ k \in Nat
    BY <1>5, <1>1 DEF IsCreation
  <2>2. InKernel(i) \/ \E j \in DOMAIN trqQueue : j > k + 1 /\ IsRemoval(trqQueue[j], i)
    BY <2>1 DEF Behind, TrqOK
  <2>3. CASE \E j \in DOMAIN trqQueue : j > k + 1 /\ IsRemoval(trqQueue[j], i)
    <3>1. PICK j \in DOMAIN trqQueue : j > k + 1 /\ IsRemoval(trqQueue[j], i)
      BY <2>3
    <3>2. j - 1 \in DOMAIN trqQueue' /\ trqQueue'[j - 1] = trqQueue[j] /\ j - 1 > k
      BY <3>1, <2>1, <1>1
    <3>. QED BY <3>1, <3>2
  <2>. QED BY <2>2, <2>3, <1>6
<1>. QED BY <1>8, <1>9, <1>10 DEF Behind

-----------------------------------------------------------------------------
(* The handler takes an event: what is behind it is still there.                     *)
LEMMA HandlerTakes ==
  ASSUME Typed, NEW i, Behind(i), mainQueue # << >>, Head(mainQueue).to = "handler",
         mainQueue' = Tail(mainQueue), UNCHANGED trqQueue,
         \/ IsRemoval(Head(mainQueue), i) /\ i \notin DOMAIN dialogs'
         \/ ~IsRemoval(Head(mainQueue), i)
            /\ (i \in DOMAIN dialogs' => i \in DOMAIN dialogs \/ IsCreation(Head(mainQueue), i))
  PROVE  Behind(i)'
<1>. DEFINE n == Len(mainQueue)  e == mainQueue[1]
<1>1. /\ n \in Nat \ {0} /\ DOMAIN mainQueue = 1 .. n /\ DOMAIN mainQueue' = 1 .. n - 1
      /\ \A k \in 1 .. n - 1 : mainQueue'[k] = mainQueue[k + 1]
      /\ Head(mainQueue) = e
  BY DEF Typed
<1>. HIDE DEF n, e
<1>2. \A k \in DOMAIN mainQueue : k = 1 \/ (k - 1 \in DOMAIN mainQueue' /\ mainQueue'[k - 1] = mainQueue[k])
  BY <1>1
<1>3. \A k \in DOMAIN mainQueue' : k + 1 \in DOMAIN mainQueue /\ mainQueue'[k] = mainQueue[k + 1] /\ k \in Nat
  BY <1>1
<1>4. \A k \in DOMAIN mainQueue : mainQueue[k].to = "kernel" => k # 1
  BY <1>1 DEF e
<1>5. InKernel(i) => InKernel(i)'
  BY <1>2, <1>4 DEF InKernel, IsRemoval
<1>6. MainOK(i)'
  <2>. SUFFICES ASSUME NEW k \in DOMAIN mainQueue', IsCreation(mainQueue'[k], i)
                PROVE  \/ InKernel(i)'
                       \/ \E j \in DOMAIN trqQueue : IsRemoval(trqQueue[j], i)
                       \/ \E j \in DOMAIN mainQueue' : j > k /\ IsRemoval(mainQueue'[j], i)
    BY DEF MainOK, IsRemoval, IsCreation
  <2>1. k + 1 \in DOMAIN mainQueue /\ IsCreation(mainQueue[k + 1], i) /\ k \in Nat
    BY <1>3 DEF IsCreation
  <2>2. \/ InKernel(i)
        \/ \E j \in DOMAIN trqQueue : IsRemoval(trqQueue[j], i)
        \/ \E j \in DOMAIN mainQueue : j > k + 1 /\ IsRemoval(mainQueue[j], i)
    BY <2>1 DEF Behind, MainOK
  <2>3. ASSUME NEW j \in DOMAIN mainQueue, j > k + 1, IsRemoval(mainQueue[j], i)
        PROVE  j - 1 \in DOMAIN mainQueue' /\ j - 1 > k /\ IsRemoval(mainQueue'[j - 1], i)
    <3>1. j \in Int /\ j # 1
      BY <2>1, <2>3, <1>1
    <3>. QED BY <2>1, <2>3, <3>1, <1>2
  <2>. QED BY <2>2, <2>3, <1>5
<1>7. TrqOK(i)'
  BY <1>5 DEF Behind, TrqOK, IsRemoval, IsCreation
<1>8. DialogOK(i)'
  <2>. SUFFICES ASSUME i \in DOMAIN dialogs'
                PROVE  \/ \E k \in DOMAIN mainQueue' : IsRemoval(mainQueue'[k], i)
                       \/ \E k \in DOMAIN trqQueue : IsRemoval(trqQueue[k], i)
    BY DEF DialogOK, IsRemoval
  <2>1. ~IsRemoval(mainQueue[1], i) /\ 1 \in DOMAIN mainQueue
    BY <1>1 DEF e
  <2>2. \/ \E k \in DOMAIN mainQueue : IsRemoval(mainQueue[k], i)
        \/ \E k \in DOMAIN trqQueue : IsRemoval(trqQueue[k], i)
    <3>1. CASE i \in DOMAIN dialogs
      BY <3>1 DEF Behind, DialogOK
    <3>2. CASE IsCreation(mainQueue[1], i)
      BY <3>2, <2>1 DEF Behind, MainOK, InKernel
    <3>. QED BY <3>1, <3>2, <1>1, <2>1 DEF e
  <2>3. ASSUME NEW k \in DOMAIN mainQueue, IsRemoval(mainQueue[k], i)
        PROVE  k - 1 \in DOMAIN mainQueue' /\ IsRemoval(mainQueue'[k - 1], i)
    BY <2>1, <2>3, <1>2
  <2>. QED BY <2>2, <2>3
<1>. QED BY <1>6, <1>7, <1>8 DEF Behind

-----------------------------------------------------------------------------
(* The invariant *)

(* A step of the owner of a tranquilizer: when it destroys the last tranquilizer     *)
(* that has an id, it has sent a removal of it.                                      *)
LEMMA OwnerKeeps ==
  ASSUME IInv, NEW t \in Trqs, Owner(t), NEW i \in Nat, Orphan(i)'
  PROVE  Behind(i)'
<1>0. Typed /\ trq \in [Trqs -> TrqRecords] /\ (Orphan(i) => Behind(i))
  BY DEF IInv, Typed
<1>1. CASE TakeId(t)
  <2>1. \A u \in Trqs : u # t => trq'[u] = trq[u]
    BY <1>0, <1>1 DEF TakeId
  <2>2. trq[t].phase = "new" /\ trq'[t].phase = "numbers"
    BY <1>0, <1>1 DEF TakeId, TrqRecords
  <2>3. Orphan(i)
    BY <2>1, <2>2 DEF Orphan, Live, Holders, Prepared
  <2>4. UNCHANGED <<mainQueue, trqQueue, dialogs>>
    BY <1>1 DEF TakeId
  <2>. QED BY <1>0, <2>3, <2>4 DEF Behind, DialogOK, MainOK, TrqOK, InKernel, IsRemoval, IsCreation
<1>2. CASE Prepare(t)
  <2>1. \A u \in Trqs : u # t => trq'[u] = trq[u]
    BY <1>0, <1>2 DEF Prepare
  <2>2. trq[t].phase = "numbers" /\ trq'[t].phase = "runs" /\ trq'[t].id = trq[t].id
    BY <1>0, <1>2 DEF Prepare, TrqRecords
  <2>3. i # trq[t].id
    BY <2>2 DEF Orphan, Live, Holders, Prepared
  <2>4. Orphan(i)
    BY <2>1, <2>2, <2>3 DEF Orphan, Live, Holders, Prepared
  <2>5. Event("create", t, 0) \in Events /\ Event("create", t, 0).id # i
    BY <1>0, <2>2, <2>3, EventType DEF Event
  <2>. QED BY <1>0, <1>2, <2>4, <2>5, SendCreation DEF Prepare
<1>3. ASSUME Stop(t) \/ Destroy(t) PROVE Behind(i)'
  <2>0. /\ mainQueue' = Removal(t) /\ UNCHANGED <<trqQueue, dialogs>>
        /\ trq[t].phase \in {"runs", "stopped"}
    BY <1>3 DEF Stop, Destroy
  <2>1. \A u \in Trqs : u # t => trq'[u] = trq[u]
    BY <1>0, <1>3 DEF Stop, Destroy
  <2>2. trq'[t].phase \in {"stopped", "gone"} /\ trq'[t].id = trq[t].id
    BY <1>0, <1>3 DEF Stop, Destroy, TrqRecords
  <2>3. Event("remove", t, 0) \in Events
    BY <1>0, <2>0, EventType
  <2>4. CASE i = trq[t].id
    <3>1. t \notin InMain
      BY <2>2, <2>4 DEF Orphan, Holders, Prepared
    <3>2. mainQueue' = Append(mainQueue, Event("remove", t, 0))
      BY <2>0, <3>1 DEF Removal
    <3>3. /\ Event("remove", t, 0).kind = "remove" /\ Event("remove", t, 0).to = "kernel"
          /\ Event("remove", t, 0).id = i
      BY <2>4 DEF Event
    <3>. QED BY <1>0, <2>0, <2>3, <3>2, <3>3, SendRemoval
  <2>5. CASE i # trq[t].id
    <3>1. Orphan(i)
      BY <2>1, <2>2, <2>5 DEF Orphan, Live, Holders, Prepared
    <3>2. CASE t \in InMain
      <4>1. mainQueue' = mainQueue
        BY <2>0, <3>2 DEF Removal
      <4>. QED BY <1>0, <2>0, <3>1, <4>1
               DEF Behind, DialogOK, MainOK, TrqOK, InKernel, IsRemoval, IsCreation
    <3>3. CASE t \notin InMain
      <4>1. mainQueue' = Append(mainQueue, Event("remove", t, 0))
        BY <2>0, <3>3 DEF Removal
      <4>2. Event("remove", t, 0).kind # "create"
        BY DEF Event
      <4>. QED BY <1>0, <2>0, <2>3, <3>1, <4>1, <4>2, SendMain
    <3>. QED BY <3>2, <3>3
  <2>. QED BY <2>4, <2>5
<1>. QED BY <1>1, <1>2, <1>3 DEF Owner

(* A task sends only updates and removals.                                           *)
LEMMA TaskKeeps ==
  ASSUME IInv, NEW s \in Tasks, Task(s), NEW i \in Nat, Orphan(i)'
  PROVE  Behind(i)'
<1>0. Typed /\ TrqOf[s] \in Trqs
  BY TranquilizerAssumption DEF IInv
<1>1. Orphan(i)
  BY <1>0, TaskTyped, SameOrphans
<1>2. Behind(i)
  BY <1>1 DEF IInv
<1>3. UNCHANGED <<trqQueue, dialogs>>
  BY DEF Task, Refused, Advance, Report, Finish
<1>4. CASE mainQueue' = mainQueue
  BY <1>2, <1>3, <1>4 DEF Behind, DialogOK, MainOK, TrqOK, InKernel, IsRemoval, IsCreation
<1>5. CASE \E e \in Events : e.kind # "create" /\ mainQueue' = Append(mainQueue, e)
  BY <1>0, <1>2, <1>3, <1>5, SendMain
<1>6. ASSUME Report(s) PROVE \E e \in Events : e.kind # "create" /\ mainQueue' = Append(mainQueue, e)
  <2>1. trq[TrqOf[s]].phase # "new" /\ task[s].amount \in Nat
    BY <1>6, <1>0 DEF Report, Typed, TaskRecords
  <2>2. Event("update", TrqOf[s], task[s].amount) \in Events
    BY <1>0, <2>1, EventType
  <2>3. Event("update", TrqOf[s], task[s].amount).kind # "create"
    BY DEF Event
  <2>. QED BY <1>6, <2>2, <2>3 DEF Report
<1>7. ASSUME Finish(s), mainQueue' # mainQueue
      PROVE  \E e \in Events : e.kind # "create" /\ mainQueue' = Append(mainQueue, e)
  <2>1. trq[TrqOf[s]].phase # "new"
    BY <1>7, <1>0 DEF Finish, Typed
  <2>2. Event("remove", TrqOf[s], 0) \in Events
    BY <1>0, <2>1, EventType
  <2>3. Event("remove", TrqOf[s], 0).kind # "create"
    BY DEF Event
  <2>. QED BY <1>7, <2>2, <2>3 DEF Finish, Removal
<1>. QED BY <1>4, <1>5, <1>6, <1>7 DEF Task, Refused, Advance

(* The event loops keep the order of what is behind what.                            *)
LEMMA LoopsKeep ==
  ASSUME IInv, MainLoop \/ TrqLoop, NEW i \in Nat, Orphan(i)'
  PROVE  Behind(i)'
<1>0. Typed /\ NoCreationInKernel
  BY DEF IInv
<1>1. UNCHANGED trq
  BY DEF MainLoop, TrqLoop
<1>2. Behind(i)
  BY <1>1, SameOrphans DEF IInv
<1>3. CASE TrqLoop
  BY <1>0, <1>2, <1>3, SendOn DEF TrqLoop
<1>4. CASE MainLoop
  <2>. DEFINE m == Head(mainQueue)
  <2>1. mainQueue # << >> /\ mainQueue' = Tail(mainQueue)
    BY <1>4 DEF MainLoop
  <2>2. CASE m.to = "kernel" /\ trqQueue' = Append(trqQueue, m) /\ UNCHANGED dialogs
    BY <1>0, <1>2, <2>1, <2>2, PassOn
  <2>3. CASE m.to = "handler" /\ m.kind = "create" /\ HandleCreate(m) /\ UNCHANGED trqQueue
    <3>1. ~IsRemoval(m, i) /\ (i \in DOMAIN dialogs' => i \in DOMAIN dialogs \/ IsCreation(m, i))
      BY <2>3 DEF HandleCreate, IsRemoval, IsCreation
    <3>. QED BY <1>0, <1>2, <2>1, <2>3, <3>1, HandlerTakes
  <2>4. CASE m.to = "handler" /\ m.kind = "update" /\ HandleUpdate(m) /\ UNCHANGED trqQueue
    <3>1. ~IsRemoval(m, i) /\ (i \in DOMAIN dialogs' => i \in DOMAIN dialogs)
      BY <2>4 DEF HandleUpdate, IsRemoval
    <3>. QED BY <1>0, <1>2, <2>1, <2>4, <3>1, HandlerTakes
  <2>5. CASE m.to = "handler" /\ m.kind = "remove" /\ HandleRemove(m) /\ UNCHANGED trqQueue
    <3>1. \/ IsRemoval(m, i) /\ i \notin DOMAIN dialogs'
          \/ ~IsRemoval(m, i) /\ (i \in DOMAIN dialogs' => i \in DOMAIN dialogs)
      BY <2>5 DEF HandleRemove, IsRemoval
    <3>. QED BY <1>0, <1>2, <2>1, <2>5, <3>1, HandlerTakes
  <2>. QED BY <1>4, <2>2, <2>3, <2>4, <2>5 DEF MainLoop
<1>. QED BY <1>3, <1>4

(* What enters the queue of the main thread as a creation is for the handler.        *)
LEMMA CreationsKeep == IInv /\ [Next]_vars => NoCreationInKernel'
<1>. SUFFICES ASSUME IInv, [Next]_vars PROVE NoCreationInKernel'
  OBVIOUS
<1>0. Typed /\ NoCreationInKernel /\ mainQueue \in Seq(Events) /\ trqQueue \in Seq(Events)
  BY DEF IInv, Typed
<1>1. ASSUME NEW e \in Events, e.kind = "create" => e.to = "handler",
             mainQueue' = Append(mainQueue, e)
      PROVE  NoCreationInKernel'
  BY <1>0, <1>1 DEF NoCreationInKernel
<1>2. CASE mainQueue' = mainQueue
  BY <1>0, <1>2 DEF NoCreationInKernel
<1>3. ASSUME NEW t \in Trqs, trq[t].phase # "new", mainQueue' = Removal(t)
      PROVE  NoCreationInKernel'
  <2>1. Event("remove", t, 0) \in Events /\ Event("remove", t, 0).kind # "create"
    BY <1>0, <1>3, EventType DEF Event
  <2>. QED BY <1>1, <1>2, <1>3, <2>1 DEF Removal
<1>4. ASSUME NEW t \in Trqs, Owner(t) PROVE NoCreationInKernel'
  <2>1. CASE TakeId(t) \/ Prepare(t)
    BY <2>1, <1>2 DEF TakeId, Prepare
  <2>2. CASE Stop(t) \/ Destroy(t)
    BY <2>2, <1>3 DEF Stop, Destroy
  <2>. QED BY <1>4, <2>1, <2>2 DEF Owner
<1>5. ASSUME NEW s \in Tasks, Task(s) PROVE NoCreationInKernel'
  <2>0. TrqOf[s] \in Trqs
    BY TranquilizerAssumption
  <2>1. CASE Refused(s) \/ Advance(s)
    BY <2>1, <1>2 DEF Refused, Advance
  <2>2. CASE Report(s)
    <3>1. trq[TrqOf[s]].phase # "new" /\ task[s].amount \in Nat
      BY <2>2, <1>0, <2>0 DEF Report, Typed, TaskRecords
    <3>2. /\ Event("update", TrqOf[s], task[s].amount) \in Events
          /\ Event("update", TrqOf[s], task[s].amount).kind # "create"
      BY <1>0, <2>0, <3>1, EventType DEF Event
    <3>. QED BY <2>2, <3>2, <1>1 DEF Report
  <2>3. CASE Finish(s)
    <3>1. trq[TrqOf[s]].phase # "new"
      BY <2>3, <1>0 DEF Finish, Typed
    <3>. QED BY <2>0, <2>3, <3>1, <1>3 DEF Finish
  <2>. QED BY <1>5, <2>1, <2>2, <2>3 DEF Task
<1>6. CASE MainLoop
  <2>1. mainQueue # << >> /\ mainQueue' = Tail(mainQueue)
    BY <1>6 DEF MainLoop
  <2>2. \A k \in DOMAIN mainQueue' : k + 1 \in DOMAIN mainQueue /\ mainQueue'[k] = mainQueue[k + 1]
    BY <1>0, <2>1
  <2>. QED BY <1>0, <2>2 DEF NoCreationInKernel
<1>7. CASE TrqLoop
  <2>. DEFINE e == [Head(trqQueue) EXCEPT !.to = "handler"]
  <2>1. Head(trqQueue) \in Events
    BY <1>0, <1>7, HeadTailType DEF TrqLoop
  <2>2. e \in Events /\ e.to = "handler"
    BY <2>1 DEF Events
  <2>. QED BY <1>7, <2>2, <1>1 DEF TrqLoop
<1>8. CASE ExitUI \/ Leave \/ UNCHANGED vars
  BY <1>8, <1>2 DEF ExitUI, Leave, vars
<1>. QED BY <1>4, <1>5, <1>6, <1>7, <1>8 DEF Next

LEMMA InitIInv == Init => IInv
<1>. SUFFICES ASSUME Init PROVE IInv
  OBVIOUS
<1>1. mainQueue = << >> /\ trqQueue = << >> /\ DOMAIN dialogs = {}
  BY DEF Init
<1>. QED BY <1>1, InitTyped
         DEF IInv, NoCreationInKernel, Behind, DialogOK, MainOK, TrqOK

LEMMA NextIInv == IInv /\ [Next]_vars => IInv'
<1>. SUFFICES ASSUME IInv, [Next]_vars PROVE IInv'
  OBVIOUS
<1>1. Typed' /\ NoCreationInKernel'
  BY NextTyped, CreationsKeep DEF IInv
<1>2. ASSUME NEW i \in Nat, Orphan(i)' PROVE Behind(i)'
  <2>1. CASE ExitUI \/ Leave \/ UNCHANGED vars
    <3>1. UNCHANGED <<trq, mainQueue, trqQueue, dialogs>>
      BY <2>1 DEF ExitUI, Leave, vars
    <3>2. Orphan(i)
      BY <1>2, <3>1, SameOrphans
    <3>. QED BY <3>1, <3>2
             DEF IInv, Behind, DialogOK, MainOK, TrqOK, InKernel, IsRemoval, IsCreation
  <2>. QED BY <1>2, <2>1, OwnerKeeps, TaskKeeps, LoopsKeep DEF Next
<1>. QED BY <1>1, <1>2 DEF IInv

-----------------------------------------------------------------------------
(* Whatever tranquilizers there are and whatever ids they have taken, a dialog that  *)
(* is shown has work that goes on, or its removal is on its way to the handler: the  *)
(* removals that destructor, stop and update emit by way of the kernel are never     *)
(* overtaken by the creation that went to the tranquilizer thread directly.          *)
THEOREM DialogsAreRemoved == Spec => []NoDialogLeftBehind
<1>1. IInv => NoDialogLeftBehind
  <2>. SUFFICES ASSUME IInv, NEW i \in DOMAIN dialogs, Holders(i) \intersect InMain = {},
                       \A t \in Holders(i) : trq[t].phase = "gone"
                PROVE  \E m \in InFlight : m.kind = "remove" /\ m.id = i
    BY DEF NoDialogLeftBehind
  <2>1. i \in Nat /\ Orphan(i)
    BY DEF IInv, Typed, Orphan, Live
  <2>2. DialogOK(i)
    BY <2>1 DEF IInv, Behind
  <2>. QED BY <2>2 DEF DialogOK, IsRemoval, InFlight
<1>. QED BY <1>1, InitIInv, NextIInv, PTL DEF Spec

-----------------------------------------------------------------------------
(* What the progress dialogs show: every dialog and every event belongs to *)
(* a tranquilizer that was given its id, the count of the threads is the   *)
(* number of dialogs, and a dialog whose id has one tranquilizer shows its *)
(* progress, never goes back, and is there as long as the work goes on.    *)
(* The argument follows an update on its way: through the kernel, through  *)
(* the tranquilizer thread, and back to the handler.                       *)

(* The ids that were given out.                                                      *)
Given == {i \in Nat : Holders(i) # {}}

(* Every event and every dialog has the id of a tranquilizer.                        *)
Held ==
  /\ \A k \in DOMAIN mainQueue : mainQueue[k].id \in Given
  /\ \A k \in DOMAIN trqQueue : trqQueue[k].id \in Given
  /\ DOMAIN dialogs \subseteq Given

Counted ==
  /\ IsFiniteSet(DOMAIN dialogs) /\ threadCount = Cardinality(DOMAIN dialogs)
  /\ \A i \in DOMAIN dialogs : dialogs[i] \in Nat
  /\ \A i \in Nat : IsFiniteSet(Holders(i))

(* A task in the middle of an update holds the mutex of its tranquilizer, and what   *)
(* it is about to report is how far the tranquilizer is.                             *)
Reporting(s) == task[s].pc \in {"reports", "ends"}

TasksHold ==
  \A s \in Tasks : task[s].pc # "loop" =>
    /\ trq[TrqOf[s]].phase = "runs" /\ trq[TrqOf[s]].holder = s /\ task[s].left > 0
    /\ Reporting(s) => task[s].amount = trq[TrqOf[s]].current

(* Nothing is done before the tranquilizer is prepared.                              *)
Fresh == \A t \in Trqs : trq[t].phase \in {"new", "numbers"} => trq[t].current = 0

IsUpdate(m, i) == m.kind = "update" /\ m.id = i

(* The updates of an id, in the order in which they arrive at the handler: those     *)
(* that are back in the main thread, those in the tranquilizer thread, those that    *)
(* have still to pass the kernel.                                                    *)
MainInOrder(i) ==
  \A j, k \in DOMAIN mainQueue :
    (/\ IsUpdate(mainQueue[j], i) /\ IsUpdate(mainQueue[k], i)
     /\ \/ mainQueue[j].to = mainQueue[k].to /\ j < k
        \/ mainQueue[j].to = "handler" /\ mainQueue[k].to = "kernel")
      => mainQueue[j].current <= mainQueue[k].current

TrqInOrder(i) ==
  \A j, k \in DOMAIN trqQueue :
    IsUpdate(trqQueue[j], i) /\ IsUpdate(trqQueue[k], i) /\ j < k
      => trqQueue[j].current <= trqQueue[k].current

BothInOrder(i) ==
  \A j \in DOMAIN mainQueue, k \in DOMAIN trqQueue :
    IsUpdate(mainQueue[j], i) /\ IsUpdate(trqQueue[k], i) =>
      IF mainQueue[j].to = "handler" THEN mainQueue[j].current <= trqQueue[k].current
                                     ELSE trqQueue[k].current <= mainQueue[j].current

(* An update lies between what the dialog shows and how far the tranquilizer is.     *)
Between(i, m, t) ==
  /\ m.current <= trq[t].current
  /\ i \in DOMAIN dialogs => dialogs[i] <= m.current

Ordered(i, t) ==
  /\ MainInOrder(i) /\ TrqInOrder(i) /\ BothInOrder(i)
  /\ \A k \in DOMAIN mainQueue : IsUpdate(mainQueue[k], i) => Between(i, mainQueue[k], t)
  /\ \A k \in DOMAIN trqQueue : IsUpdate(trqQueue[k], i) => Between(i, trqQueue[k], t)
  /\ i \in DOMAIN dialogs => dialogs[i] <= trq[t].current

(* While the work goes on, no removal is in flight, ...                              *)
Working(t) == t \notin InMain /\ trq[t].phase = "runs" /\ trq[t].end # Undef

NoRemoval(i) ==
  /\ \A k \in DOMAIN mainQueue : ~IsRemoval(mainQueue[k], i)
  /\ \A k \in DOMAIN trqQueue : ~IsRemoval(trqQueue[k], i)

(* ... the dialog is there, or its creation is ahead of every update, ...            *)
AheadInTrq(i) ==
  /\ \A j \in DOMAIN mainQueue : mainQueue[j].to = "handler" => ~IsUpdate(mainQueue[j], i)
  /\ \E c \in DOMAIN trqQueue :
       /\ IsCreation(trqQueue[c], i)
       /\ \A j \in DOMAIN trqQueue : j < c => ~IsUpdate(trqQueue[j], i)

AheadInMain(i) ==
  \E c \in DOMAIN mainQueue :
    /\ IsCreation(mainQueue[c], i)
    /\ \A j \in DOMAIN mainQueue :
         j < c /\ mainQueue[j].to = "handler" => ~IsUpdate(mainQueue[j], i)

(* ... and how far the tranquilizer is, is shown, is in flight, or is about to be    *)
(* sent.                                                                             *)
LastInMain(i, t) ==
  \E k \in DOMAIN mainQueue : IsUpdate(mainQueue[k], i) /\ mainQueue[k].current = trq[t].current
LastInTrq(i, t) ==
  \E k \in DOMAIN trqQueue : IsUpdate(trqQueue[k], i) /\ trqQueue[k].current = trq[t].current

Last(i, t) ==
  \/ \E s \in Tasks : TrqOf[s] = t /\ Reporting(s)
  \/ LastInMain(i, t) \/ LastInTrq(i, t)
  \/ trq[t].current = IF i \in DOMAIN dialogs THEN dialogs[i] ELSE 0

Shown(i, t) ==
  /\ NoRemoval(i)
  /\ i \in DOMAIN dialogs \/ AheadInTrq(i) \/ AheadInMain(i)
  /\ Last(i, t)

ProgressOK(i, t) == Ordered(i, t) /\ (Working(t) => Shown(i, t))

PInv ==
  /\ IInv /\ Held /\ Counted /\ TasksHold /\ Fresh
  /\ \A i \in Nat, t \in Trqs : Holders(i) = {t} => ProgressOK(i, t)

-----------------------------------------------------------------------------
(* Who has an id *)

(* A step that leaves the phases and the ids alone changes no holder.                *)
LEMMA SameHolders ==
  ASSUME \A u \in Trqs : trq'[u].phase = trq[u].phase /\ trq'[u].id = trq[u].id, NEW i
  PROVE  Holders(i)' = Holders(i)
BY DEF Holders, Prepared

(* Only prepare gives an id a holder, and nothing takes it from one.                 *)
LEMMA OwnerHolders ==
  ASSUME Typed, NEW t \in Trqs, Owner(t), NEW i
  PROVE  \/ Holders(i)' = Holders(i) /\ ~(Prepare(t) /\ i = trq[t].id)
         \/ Prepare(t) /\ i = trq[t].id /\ Holders(i)' = Holders(i) \union {t}
<1>0. trq \in [Trqs -> TrqRecords]
  BY DEF Typed
<1>1. \A u \in Trqs : u # t => trq'[u] = trq[u]
  BY <1>0 DEF Owner, TakeId, Prepare, Stop, Destroy
<1>2. CASE TakeId(t)
  <2>1. trq[t].phase = "new" /\ trq'[t].phase = "numbers"
    BY <1>0, <1>2 DEF TakeId, TrqRecords
  <2>. QED BY <1>1, <2>1, <1>2 DEF Holders, Prepared, Prepare
<1>3. CASE Prepare(t)
  <2>1. trq[t].phase = "numbers" /\ trq'[t].phase = "runs" /\ trq'[t].id = trq[t].id
    BY <1>0, <1>3 DEF Prepare, TrqRecords
  <2>. QED BY <1>1, <2>1, <1>3 DEF Holders, Prepared
<1>4. CASE Stop(t) \/ Destroy(t)
  <2>1. /\ trq[t].phase \in {"runs", "stopped"} /\ trq'[t].phase \in {"stopped", "gone"}
        /\ trq'[t].id = trq[t].id
    BY <1>0, <1>4 DEF Stop, Destroy, TrqRecords
  <2>. QED BY <1>1, <2>1, <1>4 DEF Holders, Prepared, Prepare
<1>. QED BY <1>2, <1>3, <1>4 DEF Owner

(* Whatever happens, an id keeps its holders.                                        *)
LEMMA HoldersStay ==
  ASSUME Typed, [Next]_vars
  PROVE  /\ \A i \in Nat : Holders(i) \subseteq Holders(i)'
         /\ Given \subseteq Given'
<1>1. ASSUME NEW t \in Trqs, Owner(t), NEW i \in Nat PROVE Holders(i) \subseteq Holders(i)'
  BY <1>1, OwnerHolders
<1>2. ASSUME NEW s \in Tasks, Task(s), NEW i \in Nat PROVE Holders(i) \subseteq Holders(i)'
  BY <1>2, TaskTyped, SameHolders
<1>3. ASSUME UNCHANGED trq, NEW i \in Nat PROVE Holders(i)' = Holders(i)
  BY <1>3, SameHolders
<1>4. ASSUME MainLoop \/ TrqLoop \/ ExitUI \/ Leave \/ UNCHANGED vars
      PROVE  \A i \in Nat : Holders(i)' = Holders(i)
  BY <1>4, <1>3 DEF MainLoop, TrqLoop, ExitUI, Leave, vars
<1>5. \A i \in Nat : Holders(i) \subseteq Holders(i)'
  BY <1>1, <1>2, <1>4 DEF Next
<1>. QED BY <1>5 DEF Given

(* A tranquilizer that sends has been given its id.                                  *)
LEMMA SenderHolds ==
  ASSUME Typed, NEW t \in Trqs, Prepared(t), NEW kind, NEW n
  PROVE  t \in Holders(trq[t].id) /\ Event(kind, t, n).id = trq[t].id /\ trq[t].id \in Given
<1>1. trq[t].id \in Nat
  BY DEF Typed, Prepared
<1>. QED BY <1>1 DEF Event, Holders, Given

-----------------------------------------------------------------------------
(* The tasks and the mutex *)

(* A task that is in an update keeps the mutex, and its tranquilizer is not          *)
(* destroyed: the work is over only when no task has an update left.                 *)
LEMMA TasksKeep == Typed /\ TasksHold /\ [Next]_vars => TasksHold'
<1>. SUFFICES ASSUME Typed, TasksHold, [Next]_vars PROVE TasksHold'
  OBVIOUS
<1>0. /\ trq \in [Trqs -> TrqRecords] /\ task \in [Tasks -> TaskRecords]
      /\ TrqOf \in [Tasks -> Trqs]
  BY TranquilizerAssumption DEF Typed
<1>1. ASSUME NEW t \in Trqs, Owner(t) PROVE TasksHold'
  <2>1. task' = task /\ \A u \in Trqs : u # t => trq'[u] = trq[u]
    BY <1>0, <1>1 DEF Owner, TakeId, Prepare, Stop, Destroy
  <2>2. ASSUME NEW s \in Tasks, task[s].pc # "loop" PROVE TrqOf[s] # t
    <3>1. trq[TrqOf[s]].phase = "runs" /\ task[s].left > 0
      BY <2>2 DEF TasksHold
    <3>2. task[s].left # 0
      BY <3>1, <1>0 DEF TaskRecords
    <3>. QED BY <1>1, <3>1, <3>2 DEF Owner, TakeId, Prepare, Stop, Destroy, TasksOf
  <2>. QED BY <1>0, <2>1, <2>2 DEF TasksHold, Reporting
<1>2. ASSUME NEW s \in Tasks, Task(s) PROVE TasksHold'
  <2>. DEFINE t == TrqOf[s]
  <2>0. t \in Trqs /\ trq[t] \in TrqRecords /\ task[s] \in TaskRecords
    BY <1>0
  <2>1. /\ \A u \in Tasks : u # s => task'[u] = task[u]
        /\ \A u \in Trqs : u # t => trq'[u] = trq[u]
    BY <1>0, <1>2 DEF Task, Refused, Advance, Report, Finish, Done
  <2>2. \A u \in Trqs : trq'[u].phase = trq[u].phase
    BY <1>2, TaskTyped
  <2>3. trq[t].holder \in {None, s}
    BY <1>2 DEF Task, Refused, Advance, Report, Finish, TasksHold
  <2>4. \A u \in Tasks : u # s /\ TrqOf[u] = t => task[u].pc = "loop"
    BY <2>3, TranquilizerAssumption DEF TasksHold
  <2>5. ASSUME task'[s].pc # "loop"
        PROVE  /\ trq'[t].phase = "runs" /\ trq'[t].holder = s /\ task'[s].left > 0
               /\ Reporting(s)' => task'[s].amount = trq'[t].current
    <3>1. CASE Refused(s)
      <4>1. task'[s].pc = "loop"
        BY <1>0, <2>0, <3>1 DEF Refused, Done, TaskRecords
      <4>. QED BY <2>5, <4>1
    <3>2. CASE Advance(s)
      <4>1. /\ trq'[t].current = trq[t].current + 1 /\ trq'[t].holder = s
            /\ task'[s].amount = trq[t].current + 1 /\ task'[s].left = task[s].left
        BY <1>0, <2>0, <3>2 DEF Advance, TrqRecords, TaskRecords
      <4>2. trq'[t].phase = "runs" /\ task[s].left > 0
        BY <3>2, <2>0, <2>2 DEF Advance
      <4>. QED BY <4>1, <4>2
    <3>3. CASE Report(s)
      <4>1. CASE task[s].pc = "ends"
        <5>1. task'[s].pc = "sleeps" /\ task'[s].left = task[s].left
          BY <4>1, <1>0, <2>0, <3>3 DEF Report, TaskRecords
        <5>2. trq'[t].holder = trq[t].holder
          BY <4>1, <1>0, <2>0, <3>3 DEF Report, TrqRecords
        <5>3. trq[t].phase = "runs" /\ trq[t].holder = s /\ task[s].left > 0
          BY <4>1 DEF TasksHold
        <5>. QED BY <5>1, <5>2, <5>3, <2>0, <2>2 DEF Reporting
      <4>2. CASE task[s].pc # "ends"
        <5>1. task'[s].pc = "loop"
          BY <4>2, <1>0, <2>0, <3>3 DEF Report, Done, TaskRecords
        <5>. QED BY <5>1, <2>5
      <4>. QED BY <4>1, <4>2
    <3>4. CASE Finish(s)
      <4>1. task'[s].pc = "loop"
        BY <1>0, <2>0, <3>4 DEF Finish, Done, TaskRecords
      <4>. QED BY <4>1, <2>5
    <3>. QED BY <1>2, <3>1, <3>2, <3>3, <3>4 DEF Task
  <2>6. ASSUME NEW u \in Tasks, u # s, task'[u].pc # "loop"
        PROVE  /\ trq'[TrqOf[u]].phase = "runs" /\ trq'[TrqOf[u]].holder = u
               /\ task'[u].left > 0
               /\ Reporting(u)' => task'[u].amount = trq'[TrqOf[u]].current
    <3>1. TrqOf[u] # t /\ TrqOf[u] \in Trqs
      BY <2>1, <2>4, <2>6, <1>0
    <3>2. task'[u] = task[u] /\ trq'[TrqOf[u]] = trq[TrqOf[u]]
      BY <2>1, <2>6, <3>1
    <3>. QED BY <2>6, <3>2 DEF TasksHold, Reporting
  <2>. QED BY <2>5, <2>6 DEF TasksHold
<1>3. CASE MainLoop \/ TrqLoop \/ ExitUI \/ Leave \/ UNCHANGED vars
  BY <1>3 DEF MainLoop, TrqLoop, ExitUI, Leave, vars, TasksHold, Reporting
<1>. QED BY <1>1, <1>2, <1>3 DEF Next

-----------------------------------------------------------------------------
(* The events and the ids *)

(* An event on its way, and a dialog that is shown, has an id that was given out.    *)
LEMMA HeldKeeps == Typed /\ Held /\ TasksHold /\ [Next]_vars => Held'
<1>. SUFFICES ASSUME Typed, Held, TasksHold, [Next]_vars PROVE Held'
  OBVIOUS
<1>0. /\ mainQueue \in Seq(Events) /\ trqQueue \in Seq(Events)
      /\ Given \subseteq Given' /\ TrqOf \in [Tasks -> Trqs] /\ trq \in [Trqs -> TrqRecords]
  BY HoldersStay, TranquilizerAssumption DEF Typed
<1>1. /\ \A k \in DOMAIN mainQueue : mainQueue[k].id \in Given'
      /\ \A k \in DOMAIN trqQueue : trqQueue[k].id \in Given'
      /\ DOMAIN dialogs \subseteq Given'
  BY <1>0 DEF Held
<1>. HIDE DEF Given
<1>2. ASSUME NEW e \in Events, e.id \in Given', mainQueue' = Append(mainQueue, e)
      PROVE  \A k \in DOMAIN mainQueue' : mainQueue'[k].id \in Given'
  BY <1>0, <1>1, <1>2
<1>3. ASSUME NEW e \in Events, e.id \in Given', trqQueue' = Append(trqQueue, e)
      PROVE  \A k \in DOMAIN trqQueue' : trqQueue'[k].id \in Given'
  BY <1>0, <1>1, <1>3
<1>4. ASSUME NEW t \in Trqs, Prepared(t), mainQueue' = Removal(t)
      PROVE  \A k \in DOMAIN mainQueue' : mainQueue'[k].id \in Given'
  <2>1. Event("remove", t, 0) \in Events /\ Event("remove", t, 0).id \in Given'
    BY <1>0, <1>4, EventType, SenderHolds DEF Prepared
  <2>. QED BY <1>1, <1>2, <1>4, <2>1 DEF Removal
<1>5. ASSUME NEW t \in Trqs, Owner(t) PROVE Held'
  <2>1. CASE TakeId(t)
    BY <2>1, <1>1 DEF TakeId, Held
  <2>2. CASE Prepare(t)
    <3>1. Prepared(t)' /\ trq'[t].id = trq[t].id /\ trq[t].id \in Nat /\ trq[t].phase # "new"
      BY <1>0, <2>2 DEF Prepare, Prepared, TrqRecords, Typed
    <3>2. Event("create", t, 0) \in Events /\ Event("create", t, 0).id \in Given'
      BY <3>1, EventType DEF Event, Given, Holders
    <3>. QED BY <1>1, <1>3, <2>2, <3>2 DEF Prepare, Held
  <2>3. CASE Stop(t) \/ Destroy(t)
    BY <2>3, <1>1, <1>4 DEF Stop, Destroy, Prepared, Held
  <2>. QED BY <1>5, <2>1, <2>2, <2>3 DEF Owner
<1>6. ASSUME NEW s \in Tasks, Task(s) PROVE Held'
  <2>0. TrqOf[s] \in Trqs
    BY <1>0
  <2>1. CASE Refused(s) \/ Advance(s)
    BY <2>1, <1>1 DEF Refused, Advance, Held
  <2>2. ASSUME task[s].pc # "loop" PROVE Prepared(TrqOf[s])
    BY <2>2 DEF TasksHold, Prepared
  <2>3. CASE Report(s)
    <3>1. Prepared(TrqOf[s]) /\ task[s].amount \in Nat
      BY <2>2, <2>3 DEF Report, Typed, TaskRecords
    <3>2. /\ Event("update", TrqOf[s], task[s].amount) \in Events
          /\ Event("update", TrqOf[s], task[s].amount).id \in Given'
      BY <1>0, <2>0, <3>1, EventType, SenderHolds DEF Prepared
    <3>. QED BY <1>1, <1>2, <2>3, <3>2 DEF Report, Held
  <2>4. CASE Finish(s)
    BY <1>1, <1>4, <2>0, <2>2, <2>4 DEF Finish, Held
  <2>. QED BY <1>6, <2>1, <2>3, <2>4 DEF Task
<1>7. CASE MainLoop
  <2>. DEFINE m == Head(mainQueue)
  <2>1. m \in Events /\ m.id \in Given'
    BY <1>0, <1>1, <1>7 DEF MainLoop
  <2>2. \A k \in DOMAIN mainQueue' : mainQueue'[k].id \in Given'
    BY <1>0, <1>1, <1>7 DEF MainLoop
  <2>. HIDE DEF m
  <2>3. DOMAIN dialogs' \subseteq Given'
    BY <1>1, <1>7, <2>1 DEF MainLoop, HandleCreate, HandleUpdate, HandleRemove, m
  <2>4. \A k \in DOMAIN trqQueue' : trqQueue'[k].id \in Given'
    BY <1>1, <1>3, <1>7, <2>1 DEF MainLoop, m
  <2>. QED BY <2>2, <2>3, <2>4 DEF Held
<1>8. CASE TrqLoop
  <2>. DEFINE m == Head(trqQueue)  h == [m EXCEPT !.to = "handler"]
  <2>1. m \in Events /\ m.id \in Given'
    BY <1>0, <1>1, <1>8 DEF TrqLoop
  <2>2. h \in Events /\ h.id = m.id
    BY <2>1 DEF Events
  <2>3. \A k \in DOMAIN trqQueue' : trqQueue'[k].id \in Given'
    BY <1>0, <1>1, <1>8 DEF TrqLoop
  <2>4. mainQueue' = Append(mainQueue, h) /\ dialogs' = dialogs
    BY <1>8 DEF TrqLoop
  <2>. HIDE DEF h
  <2>. QED BY <1>1, <1>2, <2>1, <2>2, <2>3, <2>4 DEF Held
<1>9. CASE ExitUI \/ Leave \/ UNCHANGED vars
  BY <1>9, <1>1 DEF ExitUI, Leave, vars, Held
<1>. QED BY <1>5, <1>6, <1>7, <1>8, <1>9 DEF Next

(* The handler counts the dialogs it adds and those it removes, and what it shows    *)
(* is an amount.                                                                     *)
LEMMA DialogsKeep ==
  ASSUME Typed, Counted, MainLoop
  PROVE  /\ IsFiniteSet(DOMAIN dialogs') /\ threadCount' = Cardinality(DOMAIN dialogs')
         /\ \A i \in DOMAIN dialogs' : dialogs'[i] \in Nat
<1>. DEFINE m == Head(mainQueue)
<1>0. m.id \in Nat /\ m.current \in Nat
  BY HeadTailType DEF MainLoop, Typed, Events
<1>1. /\ IsFiniteSet(DOMAIN dialogs) /\ threadCount = Cardinality(DOMAIN dialogs)
      /\ \A i \in DOMAIN dialogs : dialogs[i] \in Nat
  BY DEF Counted
<1>2. Cardinality(DOMAIN dialogs) \in Nat
  BY <1>1, FS_CardinalityType
<1>. HIDE DEF m
<1>3. CASE HandleCreate(m)
  <2>1. DOMAIN dialogs' = DOMAIN dialogs \union {m.id}
    BY <1>3 DEF HandleCreate
  <2>2. \A i \in DOMAIN dialogs' : dialogs'[i] \in Nat
    BY <1>1, <1>3 DEF HandleCreate
  <2>3. /\ IsFiniteSet(DOMAIN dialogs')
        /\ Cardinality(DOMAIN dialogs') = IF m.id \in DOMAIN dialogs THEN Cardinality(DOMAIN dialogs)
                                                     ELSE Cardinality(DOMAIN dialogs) + 1
    BY <1>1, <2>1, FS_AddElement
  <2>4. threadCount' = IF m.id \in DOMAIN dialogs THEN threadCount ELSE threadCount + 1
    BY <1>3 DEF HandleCreate
  <2>. QED BY <1>1, <2>2, <2>3, <2>4
<1>4. CASE HandleUpdate(m)
  BY <1>0, <1>1, <1>4 DEF HandleUpdate
<1>5. CASE HandleRemove(m)
  <2>1. DOMAIN dialogs' = DOMAIN dialogs \ {m.id}
    BY <1>5 DEF HandleRemove
  <2>2. \A i \in DOMAIN dialogs' : dialogs'[i] \in Nat
    BY <1>1, <1>5 DEF HandleRemove
  <2>3. /\ IsFiniteSet(DOMAIN dialogs')
        /\ Cardinality(DOMAIN dialogs') = IF m.id \in DOMAIN dialogs THEN Cardinality(DOMAIN dialogs) - 1
                                                     ELSE Cardinality(DOMAIN dialogs)
    BY <1>1, <2>1, FS_RemoveElement
  <2>4. threadCount' = IF m.id \in DOMAIN dialogs THEN threadCount - 1 ELSE threadCount
    BY <1>5 DEF HandleRemove
  <2>. QED BY <1>1, <2>2, <2>3, <2>4
<1>6. CASE UNCHANGED <<dialogs, threadCount>>
  BY <1>1, <1>6
<1>. QED BY <1>3, <1>4, <1>5, <1>6 DEF MainLoop, m

LEMMA CountedKeeps == Typed /\ Counted /\ [Next]_vars => Counted'
<1>. SUFFICES ASSUME Typed, Counted, [Next]_vars PROVE Counted'
  OBVIOUS
<1>1. /\ IsFiniteSet(DOMAIN dialogs') /\ threadCount' = Cardinality(DOMAIN dialogs')
      /\ \A i \in DOMAIN dialogs' : dialogs'[i] \in Nat
  <2>1. CASE MainLoop
    BY <2>1, DialogsKeep
  <2>2. CASE UNCHANGED <<dialogs, threadCount>>
    BY <2>2 DEF Counted
  <2>. QED BY <2>1, <2>2 DEF Next, Owner, TakeId, Prepare, Stop, Destroy, Task, Refused, Advance,
                              Report, Finish, TrqLoop, ExitUI, Leave, vars
<1>2. ASSUME NEW i \in Nat PROVE IsFiniteSet(Holders(i)')
  <2>0. IsFiniteSet(Holders(i))
    BY DEF Counted
  <2>1. ASSUME NEW t \in Trqs, Owner(t) PROVE IsFiniteSet(Holders(i)')
    BY <2>0, <2>1, OwnerHolders, FS_AddElement
  <2>2. ASSUME NEW s \in Tasks, Task(s) PROVE IsFiniteSet(Holders(i)')
    BY <2>0, <2>2, TaskTyped, SameHolders
  <2>3. CASE MainLoop \/ TrqLoop \/ ExitUI \/ Leave \/ UNCHANGED vars
    <3>1. UNCHANGED trq
      BY <2>3 DEF MainLoop, TrqLoop, ExitUI, Leave, vars
    <3>. QED BY <2>0, <3>1, SameHolders
  <2>. QED BY <2>1, <2>2, <2>3 DEF Next
<1>. QED BY <1>1, <1>2 DEF Counted

LEMMA FreshKeeps == Typed /\ Fresh /\ [Next]_vars => Fresh'
<1>. SUFFICES ASSUME Typed, Fresh, [Next]_vars PROVE Fresh'
  OBVIOUS
<1>0. trq \in [Trqs -> TrqRecords] /\ TrqOf \in [Tasks -> Trqs]
  BY TranquilizerAssumption DEF Typed
<1>1. ASSUME NEW t \in Trqs, Owner(t) PROVE Fresh'
  <2>1. \A u \in Trqs : u # t => trq'[u] = trq[u]
    BY <1>0, <1>1 DEF Owner, TakeId, Prepare, Stop, Destroy
  <2>2. CASE TakeId(t)
    <3>1. trq'[t].current = trq[t].current /\ trq[t].phase = "new"
      BY <1>0, <2>2 DEF TakeId, TrqRecords
    <3>. QED BY <2>1, <3>1 DEF Fresh
  <2>3. CASE Prepare(t) \/ Stop(t) \/ Destroy(t)
    <3>1. trq'[t].phase \in {"runs", "stopped", "gone"}
      BY <1>0, <2>3 DEF Prepare, Stop, Destroy, TrqRecords
    <3>. QED BY <2>1, <3>1 DEF Fresh
  <2>. QED BY <1>1, <2>2, <2>3 DEF Owner
<1>2. ASSUME NEW s \in Tasks, Task(s) PROVE Fresh'
  <2>1. TrqOf[s] \in Trqs /\ \A u \in Trqs : trq'[u].phase = trq[u].phase
    BY <1>0, <1>2, TaskTyped
  <2>2. \A u \in Trqs : u # TrqOf[s] => trq'[u] = trq[u]
    BY <1>0, <1>2 DEF Task, Refused, Advance, Report, Finish
  <2>3. trq'[TrqOf[s]].current = trq[TrqOf[s]].current \/ trq[TrqOf[s]].phase = "runs"
    BY <1>0, <1>2, <2>1 DEF Task, Refused, Advance, Report, Finish, TrqRecords
  <2>. QED BY <2>1, <2>2, <2>3 DEF Fresh
<1>3. CASE MainLoop \/ TrqLoop \/ ExitUI \/ Leave \/ UNCHANGED vars
  BY <1>3 DEF MainLoop, TrqLoop, ExitUI, Leave, vars, Fresh
<1>. QED BY <1>1, <1>2, <1>3 DEF Next

-----------------------------------------------------------------------------
(* The way of the updates *)

(* No event and no dialog changes: what was between two amounts still is.            *)
LEMMA Stand ==
  ASSUME Typed, NEW i, NEW t \in Trqs, ProgressOK(i, t), Counted,
         UNCHANGED <<mainQueue, trqQueue, dialogs>>,
         trq'[t].current \in Nat, trq[t].current <= trq'[t].current,
         Working(t)' => Working(t) /\ Last(i, t)'
  PROVE  ProgressOK(i, t)'
<1>0. /\ trq[t].current \in Nat
      /\ \A k \in DOMAIN mainQueue : mainQueue[k].current \in Nat
      /\ \A k \in DOMAIN trqQueue : trqQueue[k].current \in Nat
      /\ \A j \in DOMAIN dialogs : dialogs[j] \in Nat
  <2>1. trq[t] \in TrqRecords /\ mainQueue \in Seq(Events) /\ trqQueue \in Seq(Events)
    BY DEF Typed
  <2>2. \A e \in Events : e.current \in Nat
    BY DEF Events
  <2>3. /\ \A k \in DOMAIN mainQueue : mainQueue[k] \in Events
        /\ \A k \in DOMAIN trqQueue : trqQueue[k] \in Events
    BY <2>1
  <2>. QED BY <2>1, <2>2, <2>3 DEF TrqRecords, Counted
<1>1. MainInOrder(i)' /\ TrqInOrder(i)' /\ BothInOrder(i)'
  BY DEF ProgressOK, Ordered, MainInOrder, TrqInOrder, BothInOrder, IsUpdate
<1>2. ASSUME NEW k \in DOMAIN mainQueue', IsUpdate(mainQueue'[k], i)
      PROVE  mainQueue'[k].current <= trq'[t].current
             /\ (i \in DOMAIN dialogs => dialogs[i] <= mainQueue'[k].current)
  BY <1>0, <1>2 DEF ProgressOK, Ordered, Between, IsUpdate
<1>3. ASSUME NEW k \in DOMAIN trqQueue', IsUpdate(trqQueue'[k], i)
      PROVE  trqQueue'[k].current <= trq'[t].current
             /\ (i \in DOMAIN dialogs => dialogs[i] <= trqQueue'[k].current)
  BY <1>0, <1>3 DEF ProgressOK, Ordered, Between, IsUpdate
<1>4. i \in DOMAIN dialogs' => dialogs'[i] <= trq'[t].current
  BY <1>0 DEF ProgressOK, Ordered
<1>5. Ordered(i, t)'
  BY <1>1, <1>2, <1>3, <1>4 DEF Ordered, Between, IsUpdate
<1>6. ASSUME Working(t)' PROVE Shown(i, t)'
  BY <1>6 DEF ProgressOK, Shown, NoRemoval, AheadInTrq, AheadInMain, IsUpdate, IsCreation, IsRemoval
<1>. QED BY <1>5, <1>6 DEF ProgressOK

(* An event is sent to the kernel: an update of the id tells how far the             *)
(* tranquilizer is, which is as far as it has ever been.                             *)
LEMMA SendToKernel ==
  ASSUME Typed, NEW i, NEW t \in Trqs, ProgressOK(i, t),
         NEW e \in Events, e.to = "kernel", e.kind # "create",
         IsUpdate(e, i) => e.current = trq[t].current,
         mainQueue' = Append(mainQueue, e), UNCHANGED <<trqQueue, dialogs>>,
         trq'[t].current = trq[t].current,
         Working(t)' => Working(t) /\ ~IsRemoval(e, i) /\ Last(i, t)'
  PROVE  ProgressOK(i, t)'
<1>. DEFINE n == Len(mainQueue)
<1>1. /\ n \in Nat /\ DOMAIN mainQueue = 1 .. n /\ DOMAIN mainQueue' = 1 .. n + 1
      /\ \A k \in 1 .. n : mainQueue'[k] = mainQueue[k]
      /\ mainQueue'[n + 1] = e
  BY DEF Typed
<1>2. trq[t].current \in Nat
  BY DEF Typed, TrqRecords
<1>. HIDE DEF n
<1>3. \A k \in DOMAIN mainQueue' : k = n + 1 \/ (k \in DOMAIN mainQueue /\ mainQueue'[k] = mainQueue[k])
  <2>. SUFFICES ASSUME NEW k \in DOMAIN mainQueue'
                PROVE  k = n + 1 \/ (k \in DOMAIN mainQueue /\ mainQueue'[k] = mainQueue[k])
    OBVIOUS
  <2>1. k = n + 1 \/ k \in 1 .. n
    BY <1>1
  <2>. QED BY <1>1, <2>1
<1>4. MainInOrder(i)'
  <2>. SUFFICES ASSUME NEW j \in DOMAIN mainQueue', NEW k \in DOMAIN mainQueue',
                       IsUpdate(mainQueue'[j], i), IsUpdate(mainQueue'[k], i),
                       \/ mainQueue'[j].to = mainQueue'[k].to /\ j < k
                       \/ mainQueue'[j].to = "handler" /\ mainQueue'[k].to = "kernel"
                PROVE  mainQueue'[j].current <= mainQueue'[k].current
    BY DEF MainInOrder, IsUpdate
  <2>1. j \in DOMAIN mainQueue
    BY <1>1
  <2>2. mainQueue'[j] = mainQueue[j]
    BY <2>1, <1>1
  <2>3. CASE k = n + 1
    BY <2>1, <2>2, <2>3, <1>1 DEF ProgressOK, Ordered, Between
  <2>4. CASE k # n + 1
    BY <2>1, <2>2, <2>4, <1>3 DEF ProgressOK, Ordered, MainInOrder
  <2>. QED BY <2>3, <2>4
<1>5. TrqInOrder(i)'
  BY DEF ProgressOK, Ordered, TrqInOrder, IsUpdate
<1>6. BothInOrder(i)'
  <2>. SUFFICES ASSUME NEW j \in DOMAIN mainQueue', NEW k \in DOMAIN trqQueue,
                       IsUpdate(mainQueue'[j], i), IsUpdate(trqQueue[k], i)
                PROVE  IF mainQueue'[j].to = "handler"
                         THEN mainQueue'[j].current <= trqQueue[k].current
                         ELSE trqQueue[k].current <= mainQueue'[j].current
    BY DEF BothInOrder, IsUpdate
  <2>1. CASE j = n + 1
    BY <2>1, <1>1 DEF ProgressOK, Ordered, Between
  <2>2. CASE j # n + 1
    BY <2>2, <1>3 DEF ProgressOK, Ordered, BothInOrder
  <2>. QED BY <2>1, <2>2
<1>7. ASSUME NEW k \in DOMAIN mainQueue', IsUpdate(mainQueue'[k], i)
      PROVE  mainQueue'[k].current <= trq[t].current
             /\ (i \in DOMAIN dialogs => dialogs[i] <= mainQueue'[k].current)
  BY <1>1, <1>2, <1>3, <1>7 DEF ProgressOK, Ordered, Between
<1>8. Ordered(i, t)'
  BY <1>4, <1>5, <1>6, <1>7 DEF ProgressOK, Ordered, Between, IsUpdate
<1>9. ASSUME Working(t)' PROVE Shown(i, t)'
  <2>1. NoRemoval(i)'
    BY <1>9, <1>1, <1>3 DEF ProgressOK, Shown, NoRemoval, IsRemoval
  <2>2. AheadInTrq(i) => AheadInTrq(i)'
    BY <1>1, <1>3 DEF AheadInTrq, IsUpdate, IsCreation
  <2>3. AheadInMain(i) => AheadInMain(i)'
    BY <1>1, <1>3 DEF AheadInMain, IsUpdate, IsCreation
  <2>. QED BY <1>9, <2>1, <2>2, <2>3 DEF ProgressOK, Shown
<1>. QED BY <1>8, <1>9 DEF ProgressOK

(* The creation of another dialog is sent to the tranquilizer thread.                *)
LEMMA SendOtherCreation ==
  ASSUME Typed, NEW i, NEW t \in Trqs, ProgressOK(i, t),
         NEW e \in Events, e.kind = "create",
         trqQueue' = Append(trqQueue, e), UNCHANGED <<mainQueue, dialogs, task>>,
         trq'[t] = trq[t]
  PROVE  ProgressOK(i, t)'
<1>. DEFINE n == Len(trqQueue)
<1>1. /\ n \in Nat /\ DOMAIN trqQueue = 1 .. n /\ DOMAIN trqQueue' = 1 .. n + 1
      /\ \A k \in 1 .. n : trqQueue'[k] = trqQueue[k]
      /\ trqQueue'[n + 1] = e
  BY DEF Typed
<1>. HIDE DEF n
<1>2. \A k \in DOMAIN trqQueue' : k = n + 1 \/ (k \in DOMAIN trqQueue /\ trqQueue'[k] = trqQueue[k])
  <2>. SUFFICES ASSUME NEW k \in DOMAIN trqQueue'
                PROVE  k = n + 1 \/ (k \in DOMAIN trqQueue /\ trqQueue'[k] = trqQueue[k])
    OBVIOUS
  <2>1. k = n + 1 \/ k \in 1 .. n
    BY <1>1
  <2>. QED BY <1>1, <2>1
<1>3. \A k \in DOMAIN trqQueue : k \in DOMAIN trqQueue' /\ trqQueue'[k] = trqQueue[k]
  BY <1>1
<1>4. ~IsUpdate(e, i) /\ ~IsRemoval(e, i)
  BY DEF IsUpdate, IsRemoval
<1>5. \A k \in DOMAIN trqQueue' :
         IsUpdate(trqQueue'[k], i) => k \in DOMAIN trqQueue /\ trqQueue'[k] = trqQueue[k]
  BY <1>1, <1>2, <1>4
<1>6. MainInOrder(i)' /\ TrqInOrder(i)' /\ BothInOrder(i)'
  BY <1>5 DEF ProgressOK, Ordered, MainInOrder, TrqInOrder, BothInOrder, IsUpdate
<1>7. Ordered(i, t)'
  BY <1>5, <1>6 DEF ProgressOK, Ordered, Between, IsUpdate
<1>8. ASSUME Working(t)' PROVE Shown(i, t)'
  <2>1. Working(t)
    BY <1>8 DEF Working
  <2>2. NoRemoval(i)'
    BY <2>1, <1>1, <1>2, <1>4 DEF ProgressOK, Shown, NoRemoval, IsRemoval
  <2>3. AheadInTrq(i) => AheadInTrq(i)'
    BY <1>3, <1>5 DEF AheadInTrq, IsUpdate, IsCreation
  <2>4. AheadInMain(i) => AheadInMain(i)'
    BY DEF AheadInMain, IsUpdate, IsCreation
  <2>5. Last(i, t) => Last(i, t)'
    BY <1>3 DEF Last, LastInMain, LastInTrq, Reporting, IsUpdate
  <2>. QED BY <2>1, <2>2, <2>3, <2>4, <2>5 DEF ProgressOK, Shown
<1>. QED BY <1>7, <1>8 DEF ProgressOK

(* The first creation of an id: nothing with this id is under way.                   *)
LEMMA FirstCreation ==
  ASSUME Typed, NEW i, NEW t \in Trqs,
         \A k \in DOMAIN mainQueue : mainQueue[k].id # i,
         \A k \in DOMAIN trqQueue : trqQueue[k].id # i,
         i \notin DOMAIN dialogs,
         NEW e \in Events, IsCreation(e, i),
         trqQueue' = Append(trqQueue, e), UNCHANGED <<mainQueue, dialogs>>,
         trq'[t].current = 0
  PROVE  ProgressOK(i, t)'
<1>. DEFINE n == Len(trqQueue)
<1>1. /\ n \in Nat /\ DOMAIN trqQueue = 1 .. n /\ DOMAIN trqQueue' = 1 .. n + 1
      /\ \A k \in 1 .. n : trqQueue'[k] = trqQueue[k]
      /\ trqQueue'[n + 1] = e
  BY DEF Typed
<1>. HIDE DEF n
<1>2. \A k \in DOMAIN trqQueue' : ~IsUpdate(trqQueue'[k], i) /\ ~IsRemoval(trqQueue'[k], i)
  BY <1>1 DEF IsUpdate, IsRemoval, IsCreation
<1>3. \A k \in DOMAIN mainQueue' : ~IsUpdate(mainQueue'[k], i) /\ ~IsRemoval(mainQueue'[k], i)
  BY DEF IsUpdate, IsRemoval
<1>4. Ordered(i, t)'
  BY <1>2, <1>3 DEF Ordered, MainInOrder, TrqInOrder, BothInOrder, IsUpdate
<1>5. AheadInTrq(i)'
  BY <1>1, <1>2, <1>3 DEF AheadInTrq, IsUpdate, IsCreation
<1>6. Last(i, t)'
  BY DEF Last
<1>. QED BY <1>2, <1>3, <1>4, <1>5, <1>6 DEF ProgressOK, Shown, NoRemoval, IsUpdate, IsRemoval

(* The tranquilizer thread sends an event on: it joins those that are back in the    *)
(* main thread, behind which it was.                                                 *)
LEMMA SendOnInOrder ==
  ASSUME Typed, NEW i, NEW t \in Trqs, ProgressOK(i, t), trqQueue # << >>,
         mainQueue' = Append(mainQueue, [Head(trqQueue) EXCEPT !.to = "handler"]),
         trqQueue' = Tail(trqQueue), UNCHANGED <<dialogs, trq, task>>
  PROVE  ProgressOK(i, t)'
<1>. DEFINE n == Len(mainQueue)  l == Len(trqQueue)  e == trqQueue[1]
            h == [e EXCEPT !.to = "handler"]
<1>1. /\ l \in Nat \ {0} /\ DOMAIN trqQueue = 1 .. l /\ DOMAIN trqQueue' = 1 .. l - 1
      /\ \A k \in 1 .. l - 1 : trqQueue'[k] = trqQueue[k + 1]
      /\ Head(trqQueue) = e /\ e \in Events
  BY DEF Typed
<1>2. h.kind = e.kind /\ h.id = e.id /\ h.current = e.current /\ h.to = "handler" /\ h \in Events
  BY <1>1 DEF Events
<1>3. /\ n \in Nat /\ DOMAIN mainQueue = 1 .. n /\ DOMAIN mainQueue' = 1 .. n + 1
      /\ \A k \in 1 .. n : mainQueue'[k] = mainQueue[k]
      /\ mainQueue'[n + 1] = h
  BY <1>1, <1>2 DEF Typed
<1>. HIDE DEF n, l, h, e
<1>4. \A k \in DOMAIN mainQueue' : k = n + 1 \/ (k \in DOMAIN mainQueue /\ mainQueue'[k] = mainQueue[k])
  BY <1>3
<1>5. \A k \in DOMAIN mainQueue : k \in DOMAIN mainQueue' /\ mainQueue'[k] = mainQueue[k] /\ k < n + 1
  BY <1>3
<1>6. \A k \in DOMAIN trqQueue' :
         k \in Nat /\ k + 1 > 1 /\ k + 1 \in DOMAIN trqQueue /\ trqQueue'[k] = trqQueue[k + 1]
  BY <1>1
<1>7. \A k \in DOMAIN trqQueue : k = 1 \/ (k - 1 \in DOMAIN trqQueue' /\ trqQueue'[k - 1] = trqQueue[k])
  BY <1>1
<1>8. 1 \in DOMAIN trqQueue /\ trqQueue[1] = e /\ n + 1 \in DOMAIN mainQueue'
  BY <1>1, <1>3 DEF e
<1>9. MainInOrder(i)'
  <2>. SUFFICES ASSUME NEW j \in DOMAIN mainQueue', NEW k \in DOMAIN mainQueue',
                       IsUpdate(mainQueue'[j], i), IsUpdate(mainQueue'[k], i),
                       \/ mainQueue'[j].to = mainQueue'[k].to /\ j < k
                       \/ mainQueue'[j].to = "handler" /\ mainQueue'[k].to = "kernel"
                PROVE  mainQueue'[j].current <= mainQueue'[k].current
    BY DEF MainInOrder, IsUpdate
  <2>1. CASE j # n + 1 /\ k # n + 1
    BY <2>1, <1>4 DEF ProgressOK, Ordered, MainInOrder
  <2>2. CASE j # n + 1 /\ k = n + 1
    <3>1. j \in DOMAIN mainQueue /\ mainQueue[j].to = "handler" /\ IsUpdate(mainQueue[j], i)
      BY <2>2, <1>2, <1>3, <1>4
    <3>2. IsUpdate(trqQueue[1], i) /\ mainQueue'[k].current = trqQueue[1].current
      BY <2>2, <1>2, <1>3, <1>8 DEF IsUpdate
    <3>. QED BY <2>2, <3>1, <3>2, <1>4, <1>8 DEF ProgressOK, Ordered, BothInOrder
  <2>3. CASE j = n + 1 /\ k # n + 1
    <3>1. k \in DOMAIN mainQueue /\ k < n + 1 /\ mainQueue'[k] = mainQueue[k]
      BY <2>3, <1>3, <1>4
    <3>2. mainQueue[k].to = "kernel"
      BY <2>3, <3>1, <1>3
    <3>3. IsUpdate(trqQueue[1], i) /\ mainQueue'[j].current = trqQueue[1].current
      BY <2>3, <1>2, <1>3, <1>8 DEF IsUpdate
    <3>. QED BY <3>1, <3>2, <3>3, <1>8 DEF ProgressOK, Ordered, BothInOrder
  <2>4. CASE j = n + 1 /\ k = n + 1
    BY <2>4, <1>2, <1>3
  <2>. QED BY <2>1, <2>2, <2>3, <2>4
<1>10. TrqInOrder(i)'
  BY <1>6 DEF ProgressOK, Ordered, TrqInOrder, IsUpdate
<1>11. BothInOrder(i)'
  <2>. SUFFICES ASSUME NEW j \in DOMAIN mainQueue', NEW k \in DOMAIN trqQueue',
                       IsUpdate(mainQueue'[j], i), IsUpdate(trqQueue'[k], i)
                PROVE  IF mainQueue'[j].to = "handler"
                         THEN mainQueue'[j].current <= trqQueue'[k].current
                         ELSE trqQueue'[k].current <= mainQueue'[j].current
    BY DEF BothInOrder, IsUpdate
  <2>1. CASE j = n + 1
    <3>1. IsUpdate(trqQueue[1], i) /\ mainQueue'[j].current = trqQueue[1].current
      BY <2>1, <1>2, <1>3, <1>8 DEF IsUpdate
    <3>2. trqQueue[1].current <= trqQueue'[k].current
      BY <3>1, <1>6, <1>8 DEF ProgressOK, Ordered, TrqInOrder
    <3>. QED BY <2>1, <3>1, <3>2, <1>2, <1>3
  <2>2. CASE j # n + 1
    BY <2>2, <1>4, <1>6 DEF ProgressOK, Ordered, BothInOrder
  <2>. QED BY <2>1, <2>2
<1>12. ASSUME NEW k \in DOMAIN mainQueue', IsUpdate(mainQueue'[k], i)
       PROVE  mainQueue'[k].current <= trq[t].current
              /\ (i \in DOMAIN dialogs => dialogs[i] <= mainQueue'[k].current)
  <2>1. CASE k = n + 1
    BY <2>1, <1>12, <1>2, <1>3, <1>8 DEF ProgressOK, Ordered, Between, IsUpdate
  <2>2. CASE k # n + 1
    BY <2>2, <1>12, <1>4 DEF ProgressOK, Ordered, Between
  <2>. QED BY <2>1, <2>2
<1>13. Ordered(i, t)'
  BY <1>6, <1>9, <1>10, <1>11, <1>12 DEF ProgressOK, Ordered, Between, IsUpdate
<1>14. ASSUME Working(t)' PROVE Shown(i, t)'
  <2>0. Shown(i, t)
    BY <1>14 DEF Working, ProgressOK
  <2>1. NoRemoval(i)'
    BY <2>0, <1>2, <1>3, <1>4, <1>6, <1>8 DEF Shown, NoRemoval, IsRemoval
  <2>2. AheadInTrq(i) => AheadInTrq(i)' \/ AheadInMain(i)'
    <3>. SUFFICES ASSUME AheadInTrq(i) PROVE AheadInTrq(i)' \/ AheadInMain(i)'
      OBVIOUS
    <3>1. PICK c \in DOMAIN trqQueue :
            /\ IsCreation(trqQueue[c], i)
            /\ \A j \in DOMAIN trqQueue : j < c => ~IsUpdate(trqQueue[j], i)
      BY DEF AheadInTrq
    <3>2. CASE c = 1
      <4>1. IsCreation(mainQueue'[n + 1], i)
        BY <3>1, <3>2, <1>2, <1>3, <1>8 DEF IsCreation
      <4>2. \A j \in DOMAIN mainQueue' :
              j < n + 1 /\ mainQueue'[j].to = "handler" => ~IsUpdate(mainQueue'[j], i)
        BY <1>3, <1>4 DEF AheadInTrq
      <4>. QED BY <4>1, <4>2, <1>8 DEF AheadInMain, IsCreation, IsUpdate
    <3>3. CASE c # 1
      <4>1. c - 1 \in DOMAIN trqQueue' /\ IsCreation(trqQueue'[c - 1], i) /\ 1 < c
        BY <3>1, <3>3, <1>1, <1>7
      <4>2. \A j \in DOMAIN trqQueue' : j < c - 1 => ~IsUpdate(trqQueue'[j], i)
        BY <3>1, <1>1, <1>6
      <4>3. ~IsUpdate(e, i)
        BY <3>1, <4>1, <1>8
      <4>4. \A j \in DOMAIN mainQueue' :
              mainQueue'[j].to = "handler" => ~IsUpdate(mainQueue'[j], i)
        BY <4>3, <1>2, <1>3, <1>4 DEF AheadInTrq, IsUpdate
      <4>. QED BY <4>1, <4>2, <4>4 DEF AheadInTrq, IsCreation, IsUpdate
    <3>. QED BY <3>2, <3>3
  <2>3. AheadInMain(i) => AheadInMain(i)'
    BY <1>3, <1>4, <1>5 DEF AheadInMain, IsUpdate, IsCreation
  <2>4. LastInMain(i, t) => LastInMain(i, t)'
    BY <1>5 DEF LastInMain, IsUpdate
  <2>5. LastInTrq(i, t) => LastInTrq(i, t)' \/ LastInMain(i, t)'
    <3>1. ASSUME NEW k \in DOMAIN trqQueue, IsUpdate(trqQueue[k], i),
                 trqQueue[k].current = trq[t].current
          PROVE  LastInTrq(i, t)' \/ LastInMain(i, t)'
      <4>1. CASE k = 1
        BY <3>1, <4>1, <1>2, <1>3, <1>8 DEF LastInMain, IsUpdate
      <4>2. CASE k # 1
        BY <3>1, <4>2, <1>7 DEF LastInTrq, IsUpdate
      <4>. QED BY <4>1, <4>2
    <3>. QED BY <3>1 DEF LastInTrq
  <2>6. Last(i, t)'
    BY <2>0, <2>4, <2>5 DEF Shown, Last, Reporting
  <2>. QED BY <2>0, <2>1, <2>2, <2>3, <2>6 DEF Shown
<1>. QED BY <1>13, <1>14 DEF ProgressOK

(* The kernel passes an event on: it goes behind those in the tranquilizer thread,   *)
(* and all the others that have still to pass are behind it.                         *)
LEMMA PassOnInOrder ==
  ASSUME Typed, NoCreationInKernel, NEW i, NEW t \in Trqs, ProgressOK(i, t), mainQueue # << >>,
         Head(mainQueue).to = "kernel",
         mainQueue' = Tail(mainQueue), trqQueue' = Append(trqQueue, Head(mainQueue)),
         UNCHANGED <<dialogs, trq, task>>
  PROVE  ProgressOK(i, t)'
<1>. DEFINE n == Len(mainQueue)  l == Len(trqQueue)  e == mainQueue[1]
<1>1. /\ n \in Nat \ {0} /\ DOMAIN mainQueue = 1 .. n /\ DOMAIN mainQueue' = 1 .. n - 1
      /\ \A k \in 1 .. n - 1 : mainQueue'[k] = mainQueue[k + 1]
      /\ Head(mainQueue) = e /\ e \in Events
      /\ \A k \in DOMAIN mainQueue : mainQueue[k] \in Events
  BY DEF Typed
<1>2. /\ l \in Nat /\ DOMAIN trqQueue = 1 .. l /\ DOMAIN trqQueue' = 1 .. l + 1
      /\ \A k \in 1 .. l : trqQueue'[k] = trqQueue[k]
      /\ trqQueue'[l + 1] = e
  BY <1>1, HeadTailType DEF Typed
<1>3. e.kind # "create" /\ e.to = "kernel"
  BY <1>1 DEF NoCreationInKernel
<1>. HIDE DEF n, l, e
<1>4. \A k \in DOMAIN trqQueue' : k = l + 1 \/ (k \in DOMAIN trqQueue /\ trqQueue'[k] = trqQueue[k])
  BY <1>2
<1>5. \A k \in DOMAIN trqQueue : k \in DOMAIN trqQueue' /\ trqQueue'[k] = trqQueue[k] /\ k < l + 1
  BY <1>2
<1>6. \A k \in DOMAIN mainQueue' :
         k \in Nat /\ k + 1 > 1 /\ k + 1 \in DOMAIN mainQueue /\ mainQueue'[k] = mainQueue[k + 1]
  BY <1>1
<1>7. \A k \in DOMAIN mainQueue : k = 1 \/ (k - 1 \in DOMAIN mainQueue' /\ mainQueue'[k - 1] = mainQueue[k])
  BY <1>1
<1>8. 1 \in DOMAIN mainQueue /\ mainQueue[1] = e /\ l + 1 \in DOMAIN trqQueue'
  BY <1>1, <1>2 DEF e
<1>80. \A k \in DOMAIN mainQueue' : mainQueue'[k].to \in {"kernel", "handler"}
  BY <1>1, <1>6 DEF Events
<1>9. MainInOrder(i)'
  BY <1>6 DEF ProgressOK, Ordered, MainInOrder, IsUpdate
<1>10. TrqInOrder(i)'
  <2>. SUFFICES ASSUME NEW j \in DOMAIN trqQueue', NEW k \in DOMAIN trqQueue', j < k,
                       IsUpdate(trqQueue'[j], i), IsUpdate(trqQueue'[k], i)
                PROVE  trqQueue'[j].current <= trqQueue'[k].current
    BY DEF TrqInOrder, IsUpdate
  <2>1. j \in DOMAIN trqQueue /\ trqQueue'[j] = trqQueue[j]
    BY <1>2
  <2>2. CASE k = l + 1
    BY <2>1, <2>2, <1>2, <1>3, <1>8 DEF ProgressOK, Ordered, BothInOrder
  <2>3. CASE k # l + 1
    BY <2>1, <2>3, <1>4 DEF ProgressOK, Ordered, TrqInOrder
  <2>. QED BY <2>2, <2>3
<1>11. BothInOrder(i)'
  <2>. SUFFICES ASSUME NEW j \in DOMAIN mainQueue', NEW k \in DOMAIN trqQueue',
                       IsUpdate(mainQueue'[j], i), IsUpdate(trqQueue'[k], i)
                PROVE  IF mainQueue'[j].to = "handler"
                         THEN mainQueue'[j].current <= trqQueue'[k].current
                         ELSE trqQueue'[k].current <= mainQueue'[j].current
    BY DEF BothInOrder, IsUpdate
  <2>1. CASE k = l + 1
    <3>1. trqQueue'[k] = mainQueue[1] /\ mainQueue[1].to = "kernel"
      BY <2>1, <1>2, <1>3, <1>8
    <3>2. j + 1 \in DOMAIN mainQueue /\ mainQueue'[j] = mainQueue[j + 1] /\ 1 < j + 1
      BY <1>6
    <3>3. mainQueue[j + 1].to = "handler" \/ mainQueue[j + 1].to = "kernel"
      BY <3>2, <1>80
    <3>. QED BY <3>1, <3>2, <3>3, <1>8 DEF ProgressOK, Ordered, MainInOrder
  <2>2. CASE k # l + 1
    BY <2>2, <1>4, <1>6 DEF ProgressOK, Ordered, BothInOrder
  <2>. QED BY <2>1, <2>2
<1>12. ASSUME NEW k \in DOMAIN trqQueue', IsUpdate(trqQueue'[k], i)
       PROVE  trqQueue'[k].current <= trq[t].current
              /\ (i \in DOMAIN dialogs => dialogs[i] <= trqQueue'[k].current)
  <2>1. CASE k = l + 1
    BY <2>1, <1>12, <1>2, <1>8 DEF ProgressOK, Ordered, Between, IsUpdate
  <2>2. CASE k # l + 1
    BY <2>2, <1>12, <1>4 DEF ProgressOK, Ordered, Between
  <2>. QED BY <2>1, <2>2
<1>13. Ordered(i, t)'
  BY <1>6, <1>9, <1>10, <1>11, <1>12 DEF ProgressOK, Ordered, Between, IsUpdate
<1>14. ASSUME Working(t)' PROVE Shown(i, t)'
  <2>0. Shown(i, t)
    BY <1>14 DEF Working, ProgressOK
  <2>1. NoRemoval(i)'
    BY <2>0, <1>2, <1>4, <1>6, <1>8 DEF Shown, NoRemoval, IsRemoval
  <2>2. AheadInTrq(i) => AheadInTrq(i)'
    <3>. SUFFICES ASSUME AheadInTrq(i) PROVE AheadInTrq(i)'
      OBVIOUS
    <3>1. PICK c \in DOMAIN trqQueue :
            /\ IsCreation(trqQueue[c], i)
            /\ \A j \in DOMAIN trqQueue : j < c => ~IsUpdate(trqQueue[j], i)
      BY DEF AheadInTrq
    <3>2. \A j \in DOMAIN trqQueue' : j < c => ~IsUpdate(trqQueue'[j], i)
      BY <3>1, <1>2, <1>4
    <3>3. \A j \in DOMAIN mainQueue' :
            mainQueue'[j].to = "handler" => ~IsUpdate(mainQueue'[j], i)
      BY <1>6 DEF AheadInTrq
    <3>. QED BY <3>1, <3>2, <3>3, <1>5 DEF AheadInTrq, IsUpdate, IsCreation
  <2>3. AheadInMain(i) => AheadInMain(i)'
    <3>. SUFFICES ASSUME AheadInMain(i) PROVE AheadInMain(i)'
      OBVIOUS
    <3>1. PICK c \in DOMAIN mainQueue :
            /\ IsCreation(mainQueue[c], i)
            /\ \A j \in DOMAIN mainQueue :
                 j < c /\ mainQueue[j].to = "handler" => ~IsUpdate(mainQueue[j], i)
      BY DEF AheadInMain
    <3>2. c # 1
      BY <3>1, <1>3, <1>8 DEF IsCreation
    <3>3. c - 1 \in DOMAIN mainQueue' /\ IsCreation(mainQueue'[c - 1], i)
      BY <3>1, <3>2, <1>7
    <3>4. \A j \in DOMAIN mainQueue' :
            j < c - 1 /\ mainQueue'[j].to = "handler" => ~IsUpdate(mainQueue'[j], i)
      BY <3>1, <1>1, <1>6
    <3>. QED BY <3>3, <3>4 DEF AheadInMain, IsUpdate, IsCreation
  <2>4. LastInTrq(i, t) => LastInTrq(i, t)'
    BY <1>5 DEF LastInTrq, IsUpdate
  <2>5. LastInMain(i, t) => LastInTrq(i, t)' \/ LastInMain(i, t)'
    <3>1. ASSUME NEW k \in DOMAIN mainQueue, IsUpdate(mainQueue[k], i),
                 mainQueue[k].current = trq[t].current
          PROVE  LastInTrq(i, t)' \/ LastInMain(i, t)'
      <4>1. CASE k = 1
        BY <3>1, <4>1, <1>2, <1>8 DEF LastInTrq, IsUpdate
      <4>2. CASE k # 1
        BY <3>1, <4>2, <1>7 DEF LastInMain, IsUpdate
      <4>. QED BY <4>1, <4>2
    <3>. QED BY <3>1 DEF LastInMain
  <2>6. Last(i, t)'
    BY <2>0, <2>4, <2>5 DEF Shown, Last, Reporting
  <2>. QED BY <2>0, <2>1, <2>2, <2>3, <2>6 DEF Shown
<1>. QED BY <1>13, <1>14 DEF ProgressOK

(* The handler takes the event that is ahead of all the others: what it shows then   *)
(* is not more than what any other update of the id says.                            *)
LEMMA HandlerInOrder ==
  ASSUME Typed, Counted, NEW i, NEW t \in Trqs, ProgressOK(i, t), mainQueue # << >>,
         Head(mainQueue).to = "handler",
         mainQueue' = Tail(mainQueue), UNCHANGED <<trqQueue, trq, task>>,
         LET m == Head(mainQueue)
         IN  \/ m.kind = "create" /\ HandleCreate(m)
             \/ m.kind = "update" /\ HandleUpdate(m)
             \/ m.kind = "remove" /\ HandleRemove(m)
  PROVE  ProgressOK(i, t)'
<1>. DEFINE n == Len(mainQueue)  e == mainQueue[1]
<1>1. /\ n \in Nat \ {0} /\ DOMAIN mainQueue = 1 .. n /\ DOMAIN mainQueue' = 1 .. n - 1
      /\ \A k \in 1 .. n - 1 : mainQueue'[k] = mainQueue[k + 1]
      /\ Head(mainQueue) = e /\ e \in Events
      /\ \A k \in DOMAIN mainQueue : mainQueue[k] \in Events
      /\ \A k \in DOMAIN trqQueue : trqQueue[k] \in Events
  BY DEF Typed
<1>. HIDE DEF n, e
<1>2. \/ e.kind = "create" /\ HandleCreate(e)
      \/ e.kind = "update" /\ HandleUpdate(e)
      \/ e.kind = "remove" /\ HandleRemove(e)
  BY <1>1
<1>3. e.to = "handler" /\ e.current \in Nat
  BY <1>1 DEF Events
<1>6. \A k \in DOMAIN mainQueue' :
         k \in Nat /\ k + 1 > 1 /\ k + 1 \in DOMAIN mainQueue /\ mainQueue'[k] = mainQueue[k + 1]
  BY <1>1
<1>7. \A k \in DOMAIN mainQueue : k = 1 \/ (k - 1 \in DOMAIN mainQueue' /\ mainQueue'[k - 1] = mainQueue[k])
  BY <1>1
<1>8. 1 \in DOMAIN mainQueue /\ mainQueue[1] = e
  BY <1>1 DEF e
<1>80. /\ \A k \in DOMAIN mainQueue' : mainQueue'[k].to \in {"kernel", "handler"}
       /\ \A k \in DOMAIN mainQueue' : mainQueue'[k].current \in Nat
       /\ \A k \in DOMAIN trqQueue : trqQueue[k].current \in Nat
       /\ trq[t].current \in Nat
       /\ \A j \in DOMAIN dialogs : dialogs[j] \in Nat
  <2>1. trq[t] \in TrqRecords
    BY DEF Typed
  <2>2. trq[t].current \in Nat
    BY <2>1 DEF TrqRecords
  <2>3. \A k \in DOMAIN mainQueue' : mainQueue'[k] \in Events
    BY <1>1, <1>6
  <2>4. \A j \in DOMAIN dialogs : dialogs[j] \in Nat
    BY DEF Counted
  <2>. QED BY <1>1, <2>2, <2>3, <2>4 DEF Events
<1>81. \/ i \in DOMAIN dialogs' /\ IsUpdate(e, i) /\ i \in DOMAIN dialogs /\ dialogs'[i] = e.current
       \/ i \in DOMAIN dialogs' /\ ~IsUpdate(e, i) /\ i \in DOMAIN dialogs /\ dialogs'[i] = dialogs[i]
       \/ i \in DOMAIN dialogs' /\ IsCreation(e, i) /\ i \notin DOMAIN dialogs /\ dialogs'[i] = 0
       \/ i \notin DOMAIN dialogs' /\ IsRemoval(e, i)
       \/ i \notin DOMAIN dialogs' /\ i \notin DOMAIN dialogs /\ ~IsCreation(e, i)
  BY <1>2 DEF HandleCreate, HandleUpdate, HandleRemove, IsUpdate, IsCreation, IsRemoval
<1>9. MainInOrder(i)' /\ TrqInOrder(i)' /\ BothInOrder(i)'
  <2>1. MainInOrder(i)'
    BY <1>6 DEF ProgressOK, Ordered, MainInOrder, IsUpdate
  <2>2. TrqInOrder(i)'
    BY DEF ProgressOK, Ordered, TrqInOrder, IsUpdate
  <2>3. BothInOrder(i)'
    BY <1>6 DEF ProgressOK, Ordered, BothInOrder, IsUpdate
  <2>. QED BY <2>1, <2>2, <2>3
<1>10. ASSUME NEW k \in DOMAIN mainQueue', IsUpdate(mainQueue'[k], i)
       PROVE  mainQueue'[k].current <= trq[t].current
              /\ (i \in DOMAIN dialogs' => dialogs'[i] <= mainQueue'[k].current)
  <2>1. /\ mainQueue'[k].current <= trq[t].current
        /\ i \in DOMAIN dialogs => dialogs[i] <= mainQueue'[k].current
    BY <1>6, <1>10 DEF ProgressOK, Ordered, Between
  <2>2. IsUpdate(e, i) => e.current <= mainQueue'[k].current
    <3>1. k + 1 \in DOMAIN mainQueue /\ mainQueue'[k] = mainQueue[k + 1] /\ 1 < k + 1
      BY <1>6
    <3>2. mainQueue[k + 1].to = "handler" \/ mainQueue[k + 1].to = "kernel"
      BY <3>1, <1>80
    <3>. QED BY <3>1, <3>2, <1>3, <1>8, <1>10 DEF ProgressOK, Ordered, MainInOrder
  <2>3. 0 <= mainQueue'[k].current
    BY <1>80
  <2>. QED BY <2>1, <2>2, <2>3, <1>81
<1>11. ASSUME NEW k \in DOMAIN trqQueue, IsUpdate(trqQueue[k], i)
       PROVE  trqQueue[k].current <= trq[t].current
              /\ (i \in DOMAIN dialogs' => dialogs'[i] <= trqQueue[k].current)
  <2>1. /\ trqQueue[k].current <= trq[t].current
        /\ i \in DOMAIN dialogs => dialogs[i] <= trqQueue[k].current
    BY <1>11 DEF ProgressOK, Ordered, Between
  <2>2. IsUpdate(e, i) => e.current <= trqQueue[k].current
    BY <1>3, <1>8, <1>11 DEF ProgressOK, Ordered, BothInOrder
  <2>3. 0 <= trqQueue[k].current
    BY <1>80
  <2>. QED BY <2>1, <2>2, <2>3, <1>81
<1>12. i \in DOMAIN dialogs' => dialogs'[i] <= trq[t].current
  <2>1. IsUpdate(e, i) => e.current <= trq[t].current
    BY <1>8 DEF ProgressOK, Ordered, Between
  <2>. QED BY <2>1, <1>80, <1>81 DEF ProgressOK, Ordered
<1>13. Ordered(i, t)'
  BY <1>9, <1>10, <1>11, <1>12 DEF Ordered, Between, IsUpdate
<1>14. ASSUME Working(t)' PROVE Shown(i, t)'
  <2>0. Shown(i, t)
    BY <1>14 DEF Working, ProgressOK
  <2>1. NoRemoval(i)'
    BY <2>0, <1>6 DEF Shown, NoRemoval, IsRemoval
  <2>2. ~IsRemoval(e, i)
    BY <2>0, <1>8 DEF Shown, NoRemoval
  <2>3. AheadInTrq(i) => AheadInTrq(i)'
    BY <1>6 DEF AheadInTrq, IsUpdate, IsCreation
  <2>4. AheadInMain(i) => IsCreation(e, i) \/ AheadInMain(i)'
    <3>. SUFFICES ASSUME AheadInMain(i), ~IsCreation(e, i) PROVE AheadInMain(i)'
      OBVIOUS
    <3>1. PICK c \in DOMAIN mainQueue :
            /\ IsCreation(mainQueue[c], i)
            /\ \A j \in DOMAIN mainQueue :
                 j < c /\ mainQueue[j].to = "handler" => ~IsUpdate(mainQueue[j], i)
      BY DEF AheadInMain
    <3>2. c # 1
      BY <3>1, <1>8
    <3>3. c - 1 \in DOMAIN mainQueue' /\ IsCreation(mainQueue'[c - 1], i)
      BY <3>1, <3>2, <1>7
    <3>4. \A j \in DOMAIN mainQueue' :
            j < c - 1 /\ mainQueue'[j].to = "handler" => ~IsUpdate(mainQueue'[j], i)
      BY <3>1, <1>1, <1>6
    <3>. QED BY <3>3, <3>4 DEF AheadInMain, IsUpdate, IsCreation
  <2>5. i \in DOMAIN dialogs' \/ AheadInTrq(i)' \/ AheadInMain(i)'
    BY <2>0, <2>2, <2>3, <2>4, <1>81 DEF Shown, IsCreation, IsUpdate
  <2>6. IsUpdate(e, i) => i \in DOMAIN dialogs
    <3>1. IsUpdate(e, i) => ~AheadInTrq(i)
      BY <1>3, <1>8 DEF AheadInTrq
    <3>2. IsUpdate(e, i) => ~AheadInMain(i)
      <4>. SUFFICES ASSUME IsUpdate(e, i), NEW c \in DOMAIN mainQueue, IsCreation(mainQueue[c], i),
                           \A j \in DOMAIN mainQueue :
                             j < c /\ mainQueue[j].to = "handler" => ~IsUpdate(mainQueue[j], i)
                    PROVE  FALSE
        BY DEF AheadInMain
      <4>1. c # 1
        BY <1>8 DEF IsUpdate, IsCreation
      <4>2. 1 < c
        BY <4>1, <1>1
      <4>. QED BY <4>2, <1>3, <1>8
    <3>. QED BY <3>1, <3>2, <2>0 DEF Shown
  <2>7. LastInMain(i, t) => LastInMain(i, t)' \/ (IsUpdate(e, i) /\ e.current = trq[t].current)
    <3>1. ASSUME NEW k \in DOMAIN mainQueue, IsUpdate(mainQueue[k], i),
                 mainQueue[k].current = trq[t].current
          PROVE  LastInMain(i, t)' \/ (IsUpdate(e, i) /\ e.current = trq[t].current)
      <4>1. CASE k = 1
        BY <3>1, <4>1, <1>8
      <4>2. CASE k # 1
        BY <3>1, <4>2, <1>7 DEF LastInMain, IsUpdate
      <4>. QED BY <4>1, <4>2
    <3>. QED BY <3>1 DEF LastInMain
  <2>8. LastInTrq(i, t) => LastInTrq(i, t)'
    BY DEF LastInTrq, IsUpdate
  <2>9. IsUpdate(e, i) /\ e.current = trq[t].current =>
          i \in DOMAIN dialogs' /\ dialogs'[i] = trq[t].current
    BY <2>2, <2>6, <1>81
  <2>10. trq[t].current = (IF i \in DOMAIN dialogs THEN dialogs[i] ELSE 0) =>
           trq[t].current = (IF i \in DOMAIN dialogs' THEN dialogs'[i] ELSE 0)
    <3>1. IsUpdate(e, i) => dialogs[i] <= e.current /\ e.current <= trq[t].current
      BY <2>6, <1>8 DEF ProgressOK, Ordered, Between
    <3>2. IsUpdate(e, i) /\ trq[t].current = dialogs[i] => e.current = trq[t].current
      BY <3>1, <1>3, <1>80
    <3>. QED BY <3>2, <2>2, <2>6, <1>81
  <2>11. Last(i, t)'
    BY <2>0, <2>7, <2>8, <2>9, <2>10 DEF Shown, Last, Reporting
  <2>. QED BY <2>1, <2>5, <2>11 DEF Shown
<1>. QED BY <1>13, <1>14 DEF ProgressOK

(* What is under way or shown of the last progress stays so when an event is sent.   *)
LEMMA LastStays ==
  ASSUME Typed, NEW i, NEW t \in Trqs, Last(i, t),
         \/ mainQueue' = mainQueue
         \/ \E e \in Events : mainQueue' = Append(mainQueue, e),
         UNCHANGED <<trqQueue, dialogs>>, trq'[t].current = trq[t].current,
         \A s \in Tasks : TrqOf[s] = t => task'[s].pc = task[s].pc
  PROVE  Last(i, t)'
<1>1. \A k \in DOMAIN mainQueue : k \in DOMAIN mainQueue' /\ mainQueue'[k] = mainQueue[k]
  BY DEF Typed
<1>2. LastInMain(i, t) => LastInMain(i, t)'
  BY <1>1 DEF LastInMain, IsUpdate
<1>3. LastInTrq(i, t) => LastInTrq(i, t)'
  BY DEF LastInTrq, IsUpdate
<1>. QED BY <1>2, <1>3 DEF Last, Reporting

-----------------------------------------------------------------------------
(* The invariant *)

(* A step of the owner of a tranquilizer: a removal is sent when the work is over,   *)
(* and the creation is the first that is sent.                                       *)
LEMMA OwnerProgress ==
  ASSUME PInv, NEW u \in Trqs, Owner(u), NEW i \in Nat, NEW t \in Trqs, Holders(i)' = {t}
  PROVE  ProgressOK(i, t)'
<1>0. /\ Typed /\ Held /\ Counted /\ TasksHold /\ Fresh /\ trq \in [Trqs -> TrqRecords]
      /\ (Holders(i) = {t} => ProgressOK(i, t))
  BY DEF PInv, IInv, Typed
<1>1. trq'[t].current = trq[t].current /\ trq[t].current \in Nat /\ (u # t => trq'[t] = trq[t])
  BY <1>0 DEF Owner, TakeId, Prepare, Stop, Destroy, TrqRecords
<1>2. task' = task /\ dialogs' = dialogs
  BY DEF Owner, TakeId, Prepare, Stop, Destroy
<1>3. CASE Prepare(u) /\ i = trq[u].id
  <2>1. Holders(i)' = Holders(i) \union {u}
    BY <1>0, <1>3, OwnerHolders
  <2>2. u \notin Holders(i)
    BY <1>3 DEF Prepare, Holders, Prepared
  <2>3. u = t /\ Holders(i) = {}
    BY <2>1, <2>2
  <2>4. i \notin Given
    BY <2>3 DEF Given
  <2>5. /\ \A k \in DOMAIN mainQueue : mainQueue[k].id # i
        /\ \A k \in DOMAIN trqQueue : trqQueue[k].id # i
        /\ i \notin DOMAIN dialogs
    BY <1>0, <2>4 DEF Held
  <2>6. trq[t].current = 0 /\ trq[u].phase # "new"
    BY <1>0, <1>3, <2>3 DEF Prepare, Fresh
  <2>7. Event("create", u, 0) \in Events
    BY <1>0, <2>6, EventType
  <2>8. IsCreation(Event("create", u, 0), i)
    BY <1>3 DEF IsCreation, Event
  <2>. QED BY <1>0, <1>1, <1>3, <2>5, <2>6, <2>7, <2>8, FirstCreation DEF Prepare
<1>4. CASE ~(Prepare(u) /\ i = trq[u].id)
  <2>1. Holders(i) = {t}
    BY <1>0, <1>4, OwnerHolders
  <2>2. ProgressOK(i, t) /\ trq[t].id = i /\ Prepared(t)
    BY <1>0, <2>1 DEF Holders
  <2>3. \A v \in Trqs : Prepared(v) /\ trq[v].id = i => v = t
    BY <2>1 DEF Holders
  <2>4. CASE TakeId(u)
    <3>1. u # t
      BY <2>2, <2>4 DEF TakeId, Prepared
    <3>2. Working(t)' => Working(t) /\ Last(i, t)
      BY <1>1, <3>1, <2>2 DEF Working, ProgressOK, Shown
    <3>3. UNCHANGED <<mainQueue, trqQueue>>
      BY <2>4 DEF TakeId
    <3>4. Last(i, t) => Last(i, t)'
      BY <1>0, <1>1, <1>2, <3>3, LastStays
    <3>. QED BY <1>0, <1>1, <1>2, <2>2, <3>2, <3>3, <3>4, Stand
  <2>5. CASE Prepare(u)
    <3>1. u # t /\ trq[u].phase # "new"
      BY <2>2, <2>5 DEF Prepare, Prepared
    <3>2. Event("create", u, 0) \in Events /\ Event("create", u, 0).kind = "create"
      BY <1>0, <3>1, EventType DEF Event
    <3>. QED BY <1>0, <1>1, <1>2, <2>2, <2>5, <3>1, <3>2, SendOtherCreation DEF Prepare
  <2>6. CASE Stop(u) \/ Destroy(u)
    <3>1. Prepared(u) /\ mainQueue' = Removal(u) /\ trqQueue' = trqQueue
      BY <2>6 DEF Stop, Destroy, Prepared
    <3>2. u = t => ~Working(t)'
      BY <1>0, <2>6 DEF Stop, Destroy, Working, TrqRecords
    <3>3. Working(t)' => u # t /\ Working(t) /\ Last(i, t)
      BY <1>1, <2>2, <3>2 DEF Working, ProgressOK, Shown
    <3>4. Event("remove", u, 0) \in Events
      BY <1>0, <3>1, EventType DEF Prepared
    <3>5. Working(t)' => Last(i, t)'
      BY <1>0, <1>1, <1>2, <3>1, <3>3, <3>4, LastStays DEF Removal
    <3>6. CASE u \in InMain
      <4>1. mainQueue' = mainQueue
        BY <3>1, <3>6 DEF Removal
      <4>. QED BY <1>0, <1>1, <1>2, <2>2, <3>1, <3>3, <3>5, <4>1, Stand
    <3>7. CASE u \notin InMain
      <4>1. mainQueue' = Append(mainQueue, Event("remove", u, 0))
        BY <3>1, <3>7 DEF Removal
      <4>2. /\ Event("remove", u, 0).to = "kernel" /\ Event("remove", u, 0).kind = "remove"
            /\ Event("remove", u, 0).id = trq[u].id
        BY DEF Event
      <4>3. Working(t)' => ~IsRemoval(Event("remove", u, 0), i)
        BY <2>3, <3>1, <3>3, <4>2 DEF IsRemoval
      <4>4. ~IsUpdate(Event("remove", u, 0), i)
        BY <4>2 DEF IsUpdate
      <4>. QED BY <1>0, <1>1, <1>2, <2>2, <3>1, <3>3, <3>4, <3>5, <4>1, <4>2, <4>3, <4>4, SendToKernel
    <3>. QED BY <3>6, <3>7
  <2>. QED BY <2>4, <2>5, <2>6 DEF Owner
<1>. QED BY <1>3, <1>4

(* A step of a task: while it holds the mutex nobody else changes how far its        *)
(* tranquilizer is, so what it sends is the last progress.                           *)
LEMMA TaskProgress ==
  ASSUME PInv, NEW s \in Tasks, Task(s), NEW i \in Nat, NEW t \in Trqs, Holders(i)' = {t}
  PROVE  ProgressOK(i, t)'
<1>. DEFINE u == TrqOf[s]
<1>0. /\ Typed /\ Held /\ Counted /\ TasksHold /\ Fresh /\ trq \in [Trqs -> TrqRecords]
      /\ task \in [Tasks -> TaskRecords] /\ u \in Trqs /\ trq[t] \in TrqRecords
  BY TranquilizerAssumption DEF PInv, IInv, Typed
<1>1. Holders(i) = {t}
  BY <1>0, TaskTyped, SameHolders
<1>2. ProgressOK(i, t) /\ trq[t].id = i /\ Prepared(t) /\ trq[t].current \in Nat
  BY <1>0, <1>1 DEF PInv, Holders, TrqRecords
<1>3. \A v \in Trqs : Prepared(v) /\ trq[v].id = i => v = t
  BY <1>1 DEF Holders
<1>4. UNCHANGED <<trqQueue, dialogs>>
  BY DEF Task, Refused, Advance, Report, Finish
<1>5. \A v \in Tasks : v # s => task'[v] = task[v]
  BY <1>0 DEF Task, Refused, Advance, Report, Finish, Done
<1>6. u # t => trq'[t] = trq[t]
  BY <1>0 DEF Task, Refused, Advance, Report, Finish
<1>7. Working(t) => Last(i, t)
  BY <1>2 DEF ProgressOK, Shown
<1>8. CASE Refused(s)
  <2>1. mainQueue' = mainQueue /\ trq' = trq
    BY <1>8 DEF Refused
  <2>2. task'[s].pc = task[s].pc
    BY <1>0, <1>8 DEF Refused, Done, TaskRecords
  <2>3. Working(t)' => Working(t) /\ Last(i, t)'
    BY <1>0, <1>4, <1>5, <1>7, <2>1, <2>2, LastStays DEF Working
  <2>. QED BY <1>0, <1>2, <1>4, <2>1, <2>3, Stand
<1>9. CASE Advance(s)
  <2>1. mainQueue' = mainQueue
    BY <1>9 DEF Advance
  <2>2. CASE u = t
    <3>1. trq'[t].current = trq[t].current + 1 /\ trq'[t].phase = trq[t].phase /\ trq'[t].end = trq[t].end
      BY <1>0, <1>9, <2>2 DEF Advance, TrqRecords
    <3>2. task'[s].pc \in {"ends", "reports"}
      BY <1>0, <1>9 DEF Advance, TaskRecords
    <3>3. Last(i, t)'
      BY <2>2, <3>2 DEF Last, Reporting
    <3>. QED BY <1>0, <1>2, <1>4, <2>1, <3>1, <3>3, Stand DEF Working
  <2>3. CASE u # t
    <3>1. Working(t)' => Working(t) /\ Last(i, t)'
      BY <1>0, <1>4, <1>5, <1>6, <1>7, <2>1, <2>3, LastStays DEF Working
    <3>. QED BY <1>0, <1>2, <1>4, <1>6, <2>1, <2>3, <3>1, Stand
  <2>. QED BY <2>2, <2>3
<1>10. CASE Report(s)
  <2>. DEFINE e == Event("update", u, task[s].amount)
  <2>1. /\ trq[u].phase = "runs" /\ trq[u].phase # "new" /\ task[s].amount = trq[u].current
        /\ task[s].amount \in Nat /\ Prepared(u)
    BY <1>0, <1>10 DEF Report, TasksHold, Reporting, TaskRecords, Prepared
  <2>2. e \in Events
    BY <1>0, <2>1, EventType
  <2>3. e.to = "kernel" /\ e.kind = "update" /\ e.id = trq[u].id /\ e.current = trq[u].current
    BY <2>1 DEF Event
  <2>4. mainQueue' = Append(mainQueue, e)
    BY <1>10 DEF Report
  <2>. HIDE DEF e
  <2>5. /\ trq'[t].current = trq[t].current /\ trq'[t].phase = trq[t].phase
        /\ trq'[t].end = trq[t].end
    BY <1>0, <1>10 DEF Report, TrqRecords
  <2>6. ~IsRemoval(e, i) /\ e.kind # "create"
    BY <2>3 DEF IsRemoval
  <2>7. IsUpdate(e, i) => u = t
    BY <1>0, <1>3, <2>1, <2>3 DEF IsUpdate
  <2>8. u = t => LastInMain(i, t)'
    <3>1. Len(mainQueue) + 1 \in DOMAIN mainQueue' /\ mainQueue'[Len(mainQueue) + 1] = e
      BY <1>0, <2>2, <2>4 DEF Typed
    <3>. QED BY <1>2, <2>3, <2>5, <3>1 DEF LastInMain, IsUpdate
  <2>9. Working(t)' => Working(t) /\ Last(i, t)'
    <3>1. Working(t)' => Working(t)
      BY <2>5 DEF Working
    <3>2. u # t /\ Working(t) => Last(i, t)'
      BY <1>0, <1>4, <1>5, <1>7, <2>2, <2>4, <2>5, LastStays
    <3>3. u = t => Last(i, t)'
      BY <2>8 DEF Last
    <3>. QED BY <3>1, <3>2, <3>3
  <2>. QED BY <1>0, <1>2, <1>4, <2>2, <2>3, <2>4, <2>5, <2>6, <2>7, <2>9, SendToKernel
<1>11. CASE Finish(s)
  <2>. DEFINE e == Event("remove", u, 0)
  <2>1. Prepared(u) /\ trq[u].phase # "new" /\ mainQueue' = Removal(u)
    BY <1>0, <1>11 DEF Finish, TasksHold, Prepared
  <2>2. e \in Events
    BY <1>0, <2>1, EventType
  <2>3. e.to = "kernel" /\ e.kind = "remove" /\ e.id = trq[u].id
    BY DEF Event
  <2>4. trq'[t].current = trq[t].current
    BY <1>0, <1>11 DEF Finish, TrqRecords
  <2>5. u = t => trq'[t].end = Undef
    BY <1>0, <1>11 DEF Finish, TrqRecords
  <2>. HIDE DEF e
  <2>6. Working(t)' => u # t /\ Working(t)
    BY <1>6, <2>5 DEF Working
  <2>7. Working(t)' => Last(i, t)'
    <3>1. mainQueue' = mainQueue \/ \E m \in Events : mainQueue' = Append(mainQueue, m)
      BY <2>1, <2>2 DEF Removal, e
    <3>. QED BY <1>0, <1>4, <1>5, <1>7, <2>4, <2>6, <3>1, LastStays
  <2>8. CASE u \in InMain
    <3>1. mainQueue' = mainQueue
      BY <2>1, <2>8 DEF Removal
    <3>. QED BY <1>0, <1>2, <1>4, <2>4, <2>6, <2>7, <3>1, Stand
  <2>9. CASE u \notin InMain
    <3>1. mainQueue' = Append(mainQueue, e)
      BY <2>1, <2>9 DEF Removal, e
    <3>2. Working(t)' => ~IsRemoval(e, i)
      BY <1>0, <1>3, <2>1, <2>3, <2>6 DEF IsRemoval
    <3>3. ~IsUpdate(e, i) /\ e.kind # "create"
      BY <2>3 DEF IsUpdate
    <3>. QED BY <1>0, <1>2, <1>4, <2>2, <2>3, <2>4, <2>6, <2>7, <3>1, <3>2, <3>3, SendToKernel
  <2>. QED BY <2>8, <2>9
<1>. QED BY <1>8, <1>9, <1>10, <1>11 DEF Task

LEMMA LoopsProgress ==
  ASSUME PInv, MainLoop \/ TrqLoop, NEW i \in Nat, NEW t \in Trqs, Holders(i)' = {t}
  PROVE  ProgressOK(i, t)'
<1>0. Typed /\ Counted /\ NoCreationInKernel
  BY DEF PInv, IInv
<1>1. UNCHANGED <<trq, task>>
  BY DEF MainLoop, TrqLoop
<1>2. Holders(i) = {t}
  BY <1>1, SameHolders
<1>3. ProgressOK(i, t)
  BY <1>2 DEF PInv
<1>4. CASE TrqLoop
  BY <1>0, <1>1, <1>3, <1>4, SendOnInOrder DEF TrqLoop
<1>5. CASE MainLoop
  <2>. DEFINE m == Head(mainQueue)
  <2>1. mainQueue # << >> /\ mainQueue' = Tail(mainQueue)
    BY <1>5 DEF MainLoop
  <2>2. CASE m.to = "kernel" /\ trqQueue' = Append(trqQueue, m) /\ UNCHANGED dialogs
    BY <1>0, <1>1, <1>3, <2>1, <2>2, PassOnInOrder
  <2>3. CASE /\ m.to = "handler" /\ UNCHANGED trqQueue
             /\ \/ m.kind = "create" /\ HandleCreate(m)
                \/ m.kind = "update" /\ HandleUpdate(m)
                \/ m.kind = "remove" /\ HandleRemove(m)
    BY <1>0, <1>1, <1>3, <2>1, <2>3, HandlerInOrder
  <2>. QED BY <1>5, <2>2, <2>3 DEF MainLoop
<1>. QED BY <1>4, <1>5

LEMMA InitPInv == Init => PInv
<1>. SUFFICES ASSUME Init PROVE PInv
  OBVIOUS
<1>1. mainQueue = << >> /\ trqQueue = << >> /\ dialogs = << >> /\ threadCount = 0
  BY DEF Init
<1>2. DOMAIN dialogs = {} /\ DOMAIN mainQueue = {} /\ DOMAIN trqQueue = {}
  BY <1>1
<1>3. \A t \in Trqs : trq[t].phase = "new" /\ trq[t].current = 0
  BY DEF Init
<1>4. \A i : Holders(i) = {}
  BY <1>3 DEF Holders, Prepared
<1>5. Held
  BY <1>2 DEF Held
<1>6. Counted
  BY <1>1, <1>2, <1>4, FS_EmptySet DEF Counted
<1>7. TasksHold /\ Fresh
  BY <1>3 DEF Init, TasksHold, Fresh
<1>. QED BY <1>4, <1>5, <1>6, <1>7, InitIInv DEF PInv

LEMMA NextPInv == PInv /\ [Next]_vars => PInv'
<1>. SUFFICES ASSUME PInv, [Next]_vars PROVE PInv'
  OBVIOUS
<1>0. IInv /\ Typed
  BY DEF PInv, IInv
<1>1. IInv' /\ Held' /\ Counted' /\ TasksHold' /\ Fresh'
  BY <1>0, NextIInv, HeldKeeps, CountedKeeps, TasksKeep, FreshKeeps DEF PInv
<1>2. ASSUME NEW i \in Nat, NEW t \in Trqs, Holders(i)' = {t} PROVE ProgressOK(i, t)'
  <2>1. CASE ExitUI \/ Leave \/ UNCHANGED vars
    <3>1. UNCHANGED <<trq, task, mainQueue, trqQueue, dialogs>>
      BY <2>1 DEF ExitUI, Leave, vars
    <3>2. Holders(i) = {t}
      BY <1>2, <3>1, SameHolders
    <3>3. ProgressOK(i, t) /\ Counted
      BY <3>2 DEF PInv
    <3>4. trq[t].current \in Nat
      BY <1>0 DEF Typed, TrqRecords
    <3>5. Working(t)' => Working(t) /\ Last(i, t)'
      BY <1>0, <3>1, <3>3, LastStays DEF Working, ProgressOK, Shown
    <3>. QED BY <1>0, <3>1, <3>3, <3>4, <3>5, Stand
  <2>. QED BY <1>2, <2>1, OwnerProgress, TaskProgress, LoopsProgress DEF Next
<1>. QED BY <1>1, <1>2 DEF PInv

LEMMA PInvAlways == Spec => []PInv
BY InitPInv, NextPInv, PTL DEF Spec

-----------------------------------------------------------------------------
(* The count of the threads, which decides whether exitUI waits, is the number of    *)
(* dialogs, however often one is created or removed; and no event and no dialog has  *)
(* an id that prepare did not give out.                                              *)
THEOREM DialogsAreCounted == Spec => []TypeOK
<1>1. PInv => TypeOK
  <2>. SUFFICES ASSUME PInv PROVE TypeOK
    OBVIOUS
  <2>0. Typed /\ Held /\ Counted
    BY DEF PInv, IInv
  <2>1. \A m \in InFlight : Holders(m.id) # {}
    BY <2>0 DEF InFlight, Held, Given
  <2>2. \A i \in DOMAIN dialogs : Holders(i) # {}
    BY <2>0 DEF Held, Given
  <2>. QED BY <2>0, <2>1, <2>2 DEF Typed, Counted, TypeOK
<1>. QED BY <1>1, PInvAlways, PTL

(* When no event is under way, the work whose end was not reported has its dialog,   *)
(* and the dialog shows how far it is: no update is lost on its way through the two  *)
(* queues, and none arrives before the dialog is created.                            *)
THEOREM DialogsShowTheWork == Spec => []QuietShowsWork
<1>1. PInv => QuietShowsWork
  <2>. SUFFICES ASSUME PInv, NEW t \in Trqs \ InMain, InFlight = {}, trq[t].phase = "runs",
                       trq[t].end # Undef, trq[t].holder = None, Holders(trq[t].id) = {t}
                PROVE  trq[t].id \in DOMAIN dialogs /\ dialogs[trq[t].id] = trq[t].current
    BY DEF QuietShowsWork
  <2>. DEFINE i == trq[t].id
  <2>0. Typed /\ TasksHold
    BY DEF PInv, IInv
  <2>1. i \in Nat
    BY <2>0 DEF Typed
  <2>2. Shown(i, t)
    BY <2>1 DEF PInv, ProgressOK, Working
  <2>3. DOMAIN mainQueue = {} /\ DOMAIN trqQueue = {}
    BY DEF InFlight
  <2>4. ~\E s \in Tasks : TrqOf[s] = t /\ Reporting(s)
    BY <2>0, TranquilizerAssumption DEF TasksHold, Reporting
  <2>. HIDE DEF i
  <2>5. i \in DOMAIN dialogs
    BY <2>2, <2>3 DEF Shown, AheadInTrq, AheadInMain
  <2>6. trq[t].current = dialogs[i]
    BY <2>2, <2>3, <2>4, <2>5 DEF Shown, Last, LastInMain, LastInTrq
  <2>. QED BY <2>5, <2>6 DEF i
<1>. QED BY <1>1, PInvAlways, PTL

(* The progress a dialog shows never goes back, for any number of tasks that report  *)
(* it and whatever the event loops do in between: update sends it before it lets go  *)
(* of the mutex, and the queues keep the order.                                      *)
THEOREM ProgressIsMonotonic == Spec => ProgressGoesForward
<1>. DEFINE Forward(i) == Cardinality(Holders(i)) = 1 => dialogs'[i] >= dialogs[i]
<1>1. PInv /\ [Next]_vars => [\A i \in DOMAIN dialogs \intersect DOMAIN dialogs' : Forward(i)]_vars
  <2>. SUFFICES ASSUME PInv, Next, NEW i \in DOMAIN dialogs \intersect DOMAIN dialogs',
                       Cardinality(Holders(i)) = 1
                PROVE  dialogs'[i] >= dialogs[i]
    OBVIOUS
  <2>0. Typed /\ Counted /\ i \in Nat /\ mainQueue \in Seq(Events)
    BY DEF PInv, IInv, Typed
  <2>1. dialogs[i] \in Nat /\ IsFiniteSet(Holders(i))
    BY <2>0 DEF Counted
  <2>2. PICK t : Holders(i) = {t}
    BY <2>1, FS_Singleton
  <2>3. t \in Trqs
    BY <2>2 DEF Holders
  <2>4. Ordered(i, t)
    BY <2>0, <2>2, <2>3 DEF PInv, ProgressOK
  <2>5. CASE UNCHANGED dialogs
    BY <2>1, <2>5
  <2>6. CASE MainLoop
    <3>. DEFINE m == Head(mainQueue)
    <3>1. /\ 1 \in DOMAIN mainQueue /\ mainQueue[1] = m /\ m.current \in Nat
      BY <2>0, <2>6, HeadTailType DEF MainLoop, Events
    <3>. HIDE DEF m
    <3>2. CASE HandleCreate(m)
      BY <2>1, <3>2 DEF HandleCreate
    <3>3. CASE m.kind = "update" /\ HandleUpdate(m)
      <4>1. m.id = i => dialogs[i] <= m.current
        BY <2>4, <3>1, <3>3 DEF Ordered, Between, IsUpdate
      <4>2. dialogs'[i] = IF i = m.id THEN m.current ELSE dialogs[i]
        BY <3>3 DEF HandleUpdate
      <4>. QED BY <4>1, <4>2, <2>1, <3>1
    <3>4. CASE HandleRemove(m)
      BY <2>1, <3>4 DEF HandleRemove
    <3>. QED BY <2>5, <2>6, <3>2, <3>3, <3>4 DEF MainLoop, m
  <2>. QED BY <2>5, <2>6 DEF Next, Owner, TakeId, Prepare, Stop, Destroy, Task, Refused, Advance,
                              Report, Finish, TrqLoop, ExitUI, Leave
<1>. QED BY <1>1, PInvAlways, PTL DEF Spec, ProgressGoesForward
=============================================================================
