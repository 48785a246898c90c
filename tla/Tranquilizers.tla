--------------------------- MODULE Tranquilizers ---------------------------
(***************************************************************************)
(* The progress dialogs of the desktop: DesktopTranquilizer, the signals   *)
(* of the kernel, TranquilizerWorker and TranquilizerHandler.              *)
(*                                                                         *)
(* A tranquilizer is prepared by the thread that owns it, is updated by    *)
(* the tasks of its operation and is destroyed when they have ended.  What *)
(* it reports travels through the event queues of two threads: "create"    *)
(* goes to the tranquilizer thread and from there to the main thread,      *)
(* where the handler keeps the dialogs; "update" and "remove" go to the    *)
(* main thread first (the kernel lives there), then to the tranquilizer    *)
(* thread and then to the main thread again.                               *)
(***************************************************************************)
EXTENDS Integers, Sequences, FiniteSets

CONSTANTS
  Trqs,        \* the tranquilizers, one for each operation or worker
  InMain,      \* those whose owner is the main thread
  Tasks,       \* the threads of the operations
  TrqOf,       \* [Tasks -> Trqs]: the tranquilizer a task updates
  Updates,     \* [Tasks -> Nat]: how often it does, when nothing stops it
  End,         \* [Trqs -> Nat]: the amount the work was announced with
  Heeds,       \* the tasks that stop when update returns false
  Stops,       \* the tranquilizers that are stopped before they are destroyed
  Undef, None  \* rUNDEF; no task

ASSUME TranquilizerAssumption ==
  /\ InMain \subseteq Trqs
  /\ TrqOf \in [Tasks -> Trqs]
  /\ Updates \in [Tasks -> Nat]
  /\ End \in [Trqs -> Nat]
  /\ Heeds \subseteq Tasks /\ Stops \subseteq Trqs
  /\ Undef \notin Nat /\ None \notin Tasks

VARIABLES
  trqId,       \* BaseTranquilizer::_trqId, static and without a lock
  trq,         \* the tranquilizers: phase, _id, _end, _current, and who holds _mutex
  task,        \* the tasks: where they are, the updates they have left, what they report
  mainQueue,   \* the events of the main thread
  trqQueue,    \* the events of the tranquilizer thread
  dialogs,     \* TranquilizerHandler::_tranquilizers: id -> the progress shown
  threadCount, \* UIContextModel::_threadCount
  abort,       \* UIContextModel::_abort
  main         \* "runs" its event loop, "sleeps" in exitUI, or is "gone"

vars == <<trqId, trq, task, mainQueue, trqQueue, dialogs, threadCount, abort, main>>

Init ==
  /\ trqId = 0
  /\ trq = [t \in Trqs |-> [phase |-> "new", id |-> Undef, end |-> Undef,
                            current |-> 0, holder |-> None]]
  /\ task = [s \in Tasks |-> [pc |-> "loop", left |-> Updates[s], amount |-> 0]]
  /\ mainQueue = << >> /\ trqQueue = << >>
  /\ dialogs = << >>
  /\ threadCount = 0
  /\ abort = FALSE
  /\ main = "runs"

TasksOf(t) == {s \in Tasks : TrqOf[s] = t}

(* A signal of a tranquilizer, on its way to the kernel or to the handler.          *)
Event(kind, t, amount) ==
  [to |-> "kernel", kind |-> kind, id |-> trq[t].id, current |-> amount]

(* An operation in the main thread keeps its event loop from running, and starts    *)
(* only from there.                                                                 *)
MainIsBusy == \E t \in InMain : trq[t].phase \in {"numbers", "runs", "stopped"}

CanRun(t) == t \in InMain => main = "runs"

-----------------------------------------------------------------------------
(* The owner of a tranquilizer *)

(* prepare reads the counter of the ids ...                                         *)
TakeId(t) ==
  /\ trq[t].phase = "new" /\ CanRun(t)
  /\ t \in InMain => ~MainIsBusy
  /\ trq' = [trq EXCEPT ![t].phase = "numbers", ![t].id = trqId]
  /\ UNCHANGED <<trqId, task, mainQueue, trqQueue, dialogs, threadCount, abort, main>>

(* ... and writes it; then the kernel announces the tranquilizer, whichever thread  *)
(* it is in.                                                                        *)
Prepare(t) ==
  /\ trq[t].phase = "numbers"
  /\ trqId' = trq[t].id + 1
  /\ trq' = [trq EXCEPT ![t].phase = "runs", ![t].end = End[t]]
  /\ trqQueue' = Append(trqQueue, Event("create", t, 0))
  /\ UNCHANGED <<task, mainQueue, dialogs, threadCount, abort, main>>

(* Mutant of Removal: the destructor and stop rely on the update that reaches the end. *)
noRemoval(t) == mainQueue

(* stop, the destructor and an update that reaches the end emit a removal.          *)
Removal(t) ==
  IF t \in InMain THEN mainQueue ELSE Append(mainQueue, Event("remove", t, 0))

(* stop, at the end of the work.                                                    *)
Stop(t) ==
  /\ t \in Stops /\ trq[t].phase = "runs"
  /\ \A s \in TasksOf(t) : task[s].left = 0
  /\ trq' = [trq EXCEPT ![t].phase = "stopped"]
  /\ mainQueue' = Removal(t)
  /\ UNCHANGED <<trqId, task, trqQueue, dialogs, threadCount, abort, main>>

(* The operation ends, and its tranquilizer is deleted.                             *)
Destroy(t) ==
  /\ trq[t].phase = IF t \in Stops THEN "stopped" ELSE "runs"
  /\ \A s \in TasksOf(t) : task[s].left = 0
  /\ trq' = [trq EXCEPT ![t].phase = "gone"]
  /\ mainQueue' = Removal(t)
  /\ UNCHANGED <<trqId, task, trqQueue, dialogs, threadCount, abort, main>>

-----------------------------------------------------------------------------
(* The tasks *)

Done(s) == [task EXCEPT ![s].pc = "loop", ![s].left = @ - 1]

(* update takes the mutex.  It returns at once when the program is to stop, or the  *)
(* end was reached before; and in the main thread, which would wait for itself.     *)
Refused(s) ==
  LET t == TrqOf[s]
  IN  /\ trq[t].phase = "runs" /\ task[s].left > 0
      /\ task[s].pc = "loop" /\ trq[t].holder = None
      /\ IF abort \/ trq[t].end = Undef
           THEN task' = IF s \in Heeds THEN [task EXCEPT ![s].left = 0] ELSE Done(s)
           ELSE t \in InMain /\ task' = Done(s)
      /\ UNCHANGED <<trqId, trq, mainQueue, trqQueue, dialogs, threadCount, abort, main>>

(* Mutant of Advance: the mutex is let go before the progress is sent.              *)
advanceUnlocked(s) ==
  LET t == TrqOf[s]
  IN  /\ trq[t].phase = "runs" /\ task[s].left > 0
      /\ task[s].pc = "loop" /\ trq[t].holder = None
      /\ ~abort /\ trq[t].end # Undef /\ t \notin InMain
      /\ trq' = [trq EXCEPT ![t].current = @ + 1]
      /\ task' = [task EXCEPT ![s].amount = trq[t].current + 1,
                               ![s].pc = IF trq[t].current + 1 >= trq[t].end
                                           THEN "ends" ELSE "reports"]
      /\ UNCHANGED <<trqId, mainQueue, trqQueue, dialogs, threadCount, abort, main>>

Advance(s) ==
  LET t == TrqOf[s]
  IN  /\ trq[t].phase = "runs" /\ task[s].left > 0
      /\ task[s].pc = "loop" /\ trq[t].holder = None
      /\ ~abort /\ trq[t].end # Undef /\ t \notin InMain
      /\ trq' = [trq EXCEPT ![t].current = @ + 1, ![t].holder = s]
      /\ task' = [task EXCEPT ![s].amount = trq[t].current + 1,
                               ![s].pc = IF trq[t].current + 1 >= trq[t].end
                                           THEN "ends" ELSE "reports"]
      /\ UNCHANGED <<trqId, mainQueue, trqQueue, dialogs, threadCount, abort, main>>

(* The progress is sent while the mutex is held, and at the end of the work the     *)
(* mutex is held for three seconds more.                                            *)
Report(s) ==
  LET t == TrqOf[s]
      atEnd == task[s].pc = "ends"
  IN  /\ task[s].pc \in {"reports", "ends"}
      /\ mainQueue' = Append(mainQueue, Event("update", t, task[s].amount))
      /\ task' = IF atEnd THEN [task EXCEPT ![s].pc = "sleeps"] ELSE Done(s)
      /\ trq' = [trq EXCEPT ![t].holder = IF atEnd THEN @ ELSE None]
      /\ UNCHANGED <<trqId, trqQueue, dialogs, threadCount, abort, main>>

Finish(s) ==
  LET t == TrqOf[s]
  IN  /\ task[s].pc = "sleeps"
      /\ trq' = [trq EXCEPT ![t].end = Undef, ![t].holder = None]
      /\ mainQueue' = Removal(t)
      /\ task' = Done(s)
      /\ UNCHANGED <<trqId, trqQueue, dialogs, threadCount, abort, main>>

-----------------------------------------------------------------------------
(* The event loops *)

(* createTranquilizer: a dialog with this id gets the new title, else one is added. *)
HandleCreate(m) ==
  /\ dialogs' = [i \in DOMAIN dialogs \union {m.id} |->
                   IF i \in DOMAIN dialogs THEN dialogs[i] ELSE 0]
  /\ threadCount' = IF m.id \in DOMAIN dialogs THEN threadCount ELSE threadCount + 1

(* Mutant of HandleUpdate: the progress is taken for the size of a step.            *)
addStep(m) ==
  /\ dialogs' = [i \in DOMAIN dialogs |-> IF i = m.id THEN dialogs[i] + m.current ELSE dialogs[i]]
  /\ UNCHANGED threadCount

HandleUpdate(m) ==
  /\ dialogs' = [i \in DOMAIN dialogs |-> IF i = m.id THEN m.current ELSE dialogs[i]]
  /\ UNCHANGED threadCount

(* Mutant of HandleRemove: the second removal of a dialog is counted too.           *)
removeAndCount(m) ==
  /\ dialogs' = [i \in DOMAIN dialogs \ {m.id} |-> dialogs[i]]
  /\ threadCount' = threadCount - 1

HandleRemove(m) ==
  /\ dialogs' = [i \in DOMAIN dialogs \ {m.id} |-> dialogs[i]]
  /\ threadCount' = IF m.id \in DOMAIN dialogs THEN threadCount - 1 ELSE threadCount

(* The main thread takes an event: the kernel passes the signal of a tranquilizer   *)
(* on to the tranquilizer thread, the handler changes the dialogs.                  *)
MainLoop ==
  /\ main = "runs" /\ ~MainIsBusy /\ mainQueue # << >>
  /\ LET m == Head(mainQueue)
     IN  \/ /\ m.to = "kernel"
            /\ trqQueue' = Append(trqQueue, m)
            /\ UNCHANGED <<dialogs, threadCount>>
         \/ m.to = "handler" /\ m.kind = "create" /\ HandleCreate(m) /\ UNCHANGED trqQueue
         \/ m.to = "handler" /\ m.kind = "update" /\ HandleUpdate(m) /\ UNCHANGED trqQueue
         \/ m.to = "handler" /\ m.kind = "remove" /\ HandleRemove(m) /\ UNCHANGED trqQueue
  /\ mainQueue' = Tail(mainQueue)
  /\ UNCHANGED <<trqId, trq, task, abort, main>>

(* TranquilizerWorker sends every event back to the main thread.                    *)
TrqLoop ==
  /\ main # "gone" /\ trqQueue # << >>
  /\ mainQueue' = Append(mainQueue, [Head(trqQueue) EXCEPT !.to = "handler"])
  /\ trqQueue' = Tail(trqQueue)
  /\ UNCHANGED <<trqId, trq, task, dialogs, threadCount, abort, main>>

(* exitUI: the flag is set, and the main thread sleeps when dialogs are shown; then *)
(* the program is taken down.                                                       *)
ExitUI ==
  /\ main = "runs" /\ ~MainIsBusy
  /\ abort' = TRUE
  /\ main' = IF threadCount > 0 THEN "sleeps" ELSE "gone"
  /\ UNCHANGED <<trqId, trq, task, mainQueue, trqQueue, dialogs, threadCount>>

Leave ==
  /\ main = "sleeps"
  /\ main' = "gone"
  /\ UNCHANGED <<trqId, trq, task, mainQueue, trqQueue, dialogs, threadCount, abort>>

-----------------------------------------------------------------------------
Owner(t) == TakeId(t) \/ Prepare(t) \/ Stop(t) \/ Destroy(t)
Task(s)  == Refused(s) \/ Advance(s) \/ Report(s) \/ Finish(s)

Next ==
  \/ \E t \in Trqs : main # "gone" /\ Owner(t)
  \/ \E s \in Tasks : main # "gone" /\ Task(s)
  \/ MainLoop \/ TrqLoop \/ ExitUI \/ Leave

(* Every thread that can take a step takes one in the end.  Nothing makes the user  *)
(* start an operation or leave the program.                                         *)
Fairness ==
  /\ \A t \in Trqs : WF_vars(Prepare(t) \/ Stop(t) \/ Destroy(t))
  /\ \A s \in Tasks : WF_vars(Task(s))
  /\ WF_vars(MainLoop) /\ WF_vars(TrqLoop) /\ WF_vars(Leave)

Spec == Init /\ [][Next]_vars /\ Fairness

-----------------------------------------------------------------------------
InFlight == {mainQueue[i] : i \in DOMAIN mainQueue} \union {trqQueue[i] : i \in DOMAIN trqQueue}

Prepared(t) == trq[t].phase \in {"runs", "stopped", "gone"}

Holders(i) == {t \in Trqs : Prepared(t) /\ trq[t].id = i}

(* The dialogs and the count of the threads agree, and no event carries an id that  *)
(* was not given out.                                                               *)
TypeOK ==
  /\ trqId \in Nat
  /\ \A t \in Trqs : trq[t].phase # "new" => trq[t].id \in Nat
  /\ \A m \in InFlight : Holders(m.id) # {}
  /\ \A i \in DOMAIN dialogs : Holders(i) # {}
  /\ threadCount = Cardinality(DOMAIN dialogs)

(* A dialog that is shown belongs to work that goes on, or its removal is on its    *)
(* way (desktoptranquilizer.cpp, kernel.cpp, tranquilizerhandler.cpp): no dialog is *)
(* left behind, also not when two tranquilizers have taken the same id.  The        *)
(* dialogs of the main thread's own operations are, and are left out.               *)
NoDialogLeftBehind ==
  \A i \in DOMAIN dialogs :
    Holders(i) \intersect InMain = {} =>
      \/ \E t \in Holders(i) : trq[t].phase # "gone"
      \/ \E m \in InFlight : m.kind = "remove" /\ m.id = i

(* When no event is under way, the work whose end was not reported has its dialog,  *)
(* and the dialog shows how far it is, if no other tranquilizer took its id.        *)
QuietShowsWork ==
  \A t \in Trqs \ InMain :
    (InFlight = {} /\ trq[t].phase = "runs" /\ trq[t].end # Undef
     /\ trq[t].holder = None /\ Holders(trq[t].id) = {t}) =>
      trq[t].id \in DOMAIN dialogs /\ dialogs[trq[t].id] = trq[t].current

(* The progress that a dialog shows never goes back, whatever the order in which    *)
(* the tasks of the operation report it, if no other tranquilizer took its id.      *)
ProgressGoesForward ==
  [][\A i \in DOMAIN dialogs \intersect DOMAIN dialogs' :
       Cardinality(Holders(i)) = 1 => dialogs'[i] >= dialogs[i]]_vars

(* Every dialog disappears in the end, or the program does, unless the main thread  *)
(* has an operation with its id.                                                    *)
DialogsDisappear ==
  \A t \in Trqs \ InMain :
    (trq[t].id \in DOMAIN dialogs)
      ~> \/ trq[t].id \notin DOMAIN dialogs \/ main = "gone"
         \/ Holders(trq[t].id) \intersect InMain # {}

(* "wait until the threads have aborted" (uicontextmodel.cpp:84): when the program  *)
(* is taken down, no task runs.                                                     *)
ExitWaits ==
  main = "gone" => \A s \in Tasks : trq[TrqOf[s]].phase = "runs" => task[s].left = 0
=============================================================================
