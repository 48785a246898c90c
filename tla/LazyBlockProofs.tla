--------------------------- MODULE LazyBlockProofs ---------------------------
(***************************************************************************)
(* What the double test of prepare() achieves, for any number of threads:  *)
(* the connector is asked once, and at() never refers to cells that are    *)
(* not there.                                                              *)
(***************************************************************************)
EXTENDS LazyBlock, TLAPS

(* Who is inside holds the mutex, and the steps inside find what the steps *)
(* before them left: this is what LoadedOnce and CellsExist rest on.       *)
Exclusive == \A t \in Threads : pc[t] \in Inside => owner = t

Progress ==
    \A t \in Threads :
        /\ pc[t] \in {"resize", "set"} => ~initialized
        /\ pc[t] = "set" => data # Nothing
        /\ pc[t] = "load" => initialized /\ loads = 0
        /\ pc[t] \in {"unlock", "use"} => initialized

Counted == /\ loads \in {0, 1}
           /\ loads = 1 => initialized
           /\ initialized => data # Nothing

IInv == TypeOK /\ Exclusive /\ Progress /\ Counted

LEMMA TypeStep == TypeOK /\ [Next]_vars => TypeOK'
<1> SUFFICES ASSUME TypeOK, [Next]_vars PROVE TypeOK'
  OBVIOUS
<1>1. ASSUME NEW t \in Threads, Step(t) PROVE TypeOK'
  <2>1. CASE Load(t)
    BY <2>1 DEF Load, Goto, TypeOK, Contents, Steps
  <2>2. CASE Use(t)
    BY <2>2 DEF Use, Goto, TypeOK, Contents, Steps
  <2>3. CASE Test(t) \/ Lock(t) \/ Again(t)
    BY <2>3 DEF Test, Lock, Again, Goto, TypeOK, Contents, Steps
  <2>4. CASE Resize(t) \/ ResizeFails(t) \/ SetInitialized(t) \/ Unlock(t)
    BY <2>4 DEF Resize, ResizeFails, SetInitialized, Unlock, Goto, TypeOK,
                Contents, Steps
  <2> QED
    BY <1>1, <2>1, <2>2, <2>3, <2>4 DEF Step, Prepare
<1>2. ASSUME NEW t \in Threads, NEW v \in Values \cup {Undef}, Call(t, v)
      PROVE TypeOK'
  BY <1>2 DEF Call, Goto, TypeOK, Contents, Steps
<1>3. CASE UNCHANGED vars
  BY <1>3 DEF vars, TypeOK
<1> QED
  BY <1>1, <1>2, <1>3 DEF Next

(* The steps that threads take in prepare() and at() stay in the states the *)
(* module describes.                                                       *)
THEOREM TypeCorrect == Spec => []TypeOK
<1>1. Init => TypeOK
  <2> SUFFICES ASSUME Init PROVE TypeOK
    OBVIOUS
  <2>1. initialized \in BOOLEAN /\ loads \in Nat
    BY DEF Init
  <2>2. pc \in [Threads -> Steps]
    BY DEF Init, Steps
  <2> QED
    BY <2>1, <2>2 DEF Init, TypeOK
<1> QED
  BY <1>1, TypeStep, PTL DEF Spec

LEMMA InvariantInductive == IInv /\ [Next]_vars => IInv'
<1> SUFFICES ASSUME IInv, [Next]_vars PROVE IInv'
  OBVIOUS
<1> TypeOK'
  BY TypeStep DEF IInv
<1> USE DEF IInv, Exclusive, Progress, Counted, Inside
<1>1. ASSUME NEW t \in Threads, Test(t) PROVE IInv'
  BY <1>1 DEF Test, Goto, TypeOK
<1>2. ASSUME NEW t \in Threads, Lock(t) PROVE IInv'
  BY <1>2, ThreadsAssumption DEF Lock, Goto, TypeOK
<1>3. ASSUME NEW t \in Threads, Again(t) PROVE IInv'
  BY <1>3 DEF Again, Goto, TypeOK
<1>4. ASSUME NEW t \in Threads, Resize(t) PROVE IInv'
  <2>1. Undef # Nothing
    BY DEF Undef, Nothing
  <2> QED
    BY <1>4, <2>1 DEF Resize, Goto, TypeOK
<1>5. ASSUME NEW t \in Threads, ResizeFails(t) PROVE IInv'
  BY <1>5 DEF ResizeFails, Goto, TypeOK
<1>6. ASSUME NEW t \in Threads, SetInitialized(t) PROVE IInv'
  BY <1>6 DEF SetInitialized, Goto, TypeOK
<1>7. ASSUME NEW t \in Threads, Load(t) PROVE IInv'
  <2>1. Loaded # Nothing
    BY ValuesAssumption
  <2> QED
    BY <1>7, <2>1 DEF Load, Goto, TypeOK
<1>8. ASSUME NEW t \in Threads, Unlock(t) PROVE IInv'
  BY <1>8 DEF Unlock, Goto, TypeOK
<1>9. ASSUME NEW t \in Threads, Use(t) PROVE IInv'
  <2>1. \A v \in Values : v # Nothing
    BY ValuesAssumption
  <2> QED
    BY <1>9, <2>1 DEF Use, Goto, TypeOK
<1>10. ASSUME NEW t \in Threads, NEW v \in Values \cup {Undef}, Call(t, v)
       PROVE IInv'
  BY <1>10 DEF Call, Goto, TypeOK
<1>11. CASE UNCHANGED vars
  BY <1>11 DEF vars
<1> QED
  BY <1>1, <1>2, <1>3, <1>4, <1>5, <1>6, <1>7, <1>8, <1>9, <1>10, <1>11
     DEF Next, Step, Prepare

LEMMA InvariantInit == Init => IInv
<1> SUFFICES ASSUME Init PROVE IInv
  OBVIOUS
<1>1. TypeOK
  BY DEF Init, TypeOK, Contents, Steps
<1> QED
  BY <1>1 DEF Init, IInv, Exclusive, Progress, Counted, Inside

(* The connector is asked for the block at most once.                      *)
THEOREM LoadsOnce == Spec => []LoadedOnce
<1>1. IInv => LoadedOnce
  BY DEF IInv, Counted, LoadedOnce
<1> QED
  BY <1>1, InvariantInit, InvariantInductive, PTL DEF Spec

(* Whoever uses a reference into the block finds cells there.              *)
THEOREM CellsAreThere == Spec => []CellsExist
<1>1. IInv => CellsExist
  BY DEF IInv, Progress, Counted, CellsExist
<1> QED
  BY <1>1, InvariantInit, InvariantInductive, PTL DEF Spec
(* Who writes has passed prepare(), so that the block is initialized and   *)
(* nobody fills it with the undefined value afterwards.                    *)
Kept == written # Nothing => initialized /\ (~serves => data = written)

LEMMA KeptStep == IInv /\ Kept /\ [Next]_vars => Kept'
<1> SUFFICES ASSUME IInv, Kept, [Next]_vars PROVE Kept'
  OBVIOUS
<1> USE DEF Kept
<1>1. ASSUME NEW t \in Threads, Test(t) \/ Lock(t) \/ Again(t) \/ ResizeFails(t) \/ Unlock(t)
      PROVE  Kept'
  BY <1>1 DEF Test, Lock, Again, ResizeFails, Unlock
<1>2. ASSUME NEW t \in Threads, Resize(t) PROVE Kept'
  <2>1. ~initialized
    BY <1>2 DEF Resize, IInv, Progress
  <2> QED BY <1>2, <2>1 DEF Resize
<1>3. ASSUME NEW t \in Threads, SetInitialized(t) PROVE Kept'
  <2>1. ~initialized
    BY <1>3 DEF SetInitialized, IInv, Progress
  <2> QED BY <1>3, <2>1 DEF SetInitialized
<1>4. ASSUME NEW t \in Threads, Load(t) PROVE Kept'
  BY <1>4 DEF Load
<1>5. ASSUME NEW t \in Threads, Use(t) PROVE Kept'
  <2>1. initialized
    BY <1>5 DEF Use, IInv, Progress
  <2> QED BY <1>5, <2>1 DEF Use
<1>6. ASSUME NEW t \in Threads, NEW v \in Values \cup {Undef}, Call(t, v)
      PROVE  Kept'
  BY <1>6 DEF Call
<1>7. CASE UNCHANGED vars
  BY <1>7 DEF vars
<1> QED
  BY <1>1, <1>2, <1>3, <1>4, <1>5, <1>6, <1>7 DEF Next, Step, Prepare

(* Where no connector loads the block, no thread that prepares it destroys *)
(* what another one has written, although setValue() takes no lock.        *)
THEOREM WritesAreKept == Spec => []PlainWritesStay
<1>1. Init => Kept
  BY DEF Init, Kept
<1>2. Kept => PlainWritesStay
  BY DEF Kept, PlainWritesStay
<1> QED
  BY <1>1, <1>2, InvariantInit, InvariantInductive, KeptStep, PTL DEF Spec
==============================================================================
