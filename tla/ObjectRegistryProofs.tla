------------------------- MODULE ObjectRegistryProofs -------------------------
(***************************************************************************)
(* No handle and no entry of the table ever points to a deleted object, as *)
(* long as handles are prepared for resources of the catalog, copied and   *)
(* destroyed: for every number of threads, handles, resources and objects. *)
(*                                                                         *)
(* The threads may make two instances of one resource, lose one of them    *)
(* from the table or take an entry out that others still need.  What keeps *)
(* the pointers alive all the same is that every object has one control    *)
(* block: only the thread that made an object has its bare pointer, and it *)
(* is given to one handle before anything else can refer to it.            *)
(*                                                                         *)
(* One thread may call everything, as long as it does not assign a handle  *)
(* to itself and new objects can be prepared: its table is exact, which is *)
(* why every object stays a singleton.                                     *)
(***************************************************************************)
EXTENDS ObjectRegistry, FiniteSetTheorems, NaturalsInduction, WellFoundedInduction, TLAPS

-----------------------------------------------------------------------------
(* use_count() and what it counts.                                         *)

Used(r) == \/ \E h \in Handles : impl[h] = r
           \/ \E i \in AllIds : lookup[i] = r
           \/ \E t \in Threads : thr[t].tmp = r \/ thr[t].data = r

CountIsUse == \A r \in Refs : Count(r) \in Nat /\ (Count(r) = 0 <=> ~Used(r))

LEMMA FiniteSets ==
  IsFiniteSet(Handles) /\ IsFiniteSet(AllIds) /\ IsFiniteSet(Threads)
BY FiniteAssumption, FS_Union DEF AllIds

LEMMA PartCount ==
  ASSUME NEW S, IsFiniteSet(S), NEW T \in SUBSET S
  PROVE  Cardinality(T) \in Nat /\ (Cardinality(T) = 0 <=> T = {})
<1>1. IsFiniteSet(T)
  BY FS_Subset
<1> QED BY <1>1, FS_EmptySet, FS_CardinalityType

LEMMA NullIsNoRef == Null \notin Refs
BY DEF Null, Refs, Objects

LEMMA CountUsed == CountIsUse
<1> SUFFICES ASSUME NEW r \in Refs
             PROVE  Count(r) \in Nat /\ (Count(r) = 0 <=> ~Used(r))
  BY DEF CountIsUse
<1> DEFINE H == {h \in Handles : impl[h] = r}
           L == {i \in AllIds : lookup[i] = r}
           M == {t \in Threads : thr[t].tmp = r}
           D == {t \in Threads : thr[t].data = r}
<1>1. Count(r) = Cardinality(H) + Cardinality(L) + Cardinality(M) + Cardinality(D)
  BY NullIsNoRef DEF Count
<1>2. /\ Cardinality(H) \in Nat /\ (Cardinality(H) = 0 <=> H = {})
      /\ Cardinality(L) \in Nat /\ (Cardinality(L) = 0 <=> L = {})
      /\ Cardinality(M) \in Nat /\ (Cardinality(M) = 0 <=> M = {})
      /\ Cardinality(D) \in Nat /\ (Cardinality(D) = 0 <=> D = {})
  <2>1. H \in SUBSET Handles /\ L \in SUBSET AllIds /\ M \in SUBSET Threads /\ D \in SUBSET Threads
    OBVIOUS
  <2> HIDE DEF H, L, M, D
  <2> QED BY <2>1, FiniteSets, PartCount
<1>3. Used(r) <=> ~(H = {} /\ L = {} /\ M = {} /\ D = {})
  BY DEF Used
<1> HIDE DEF H, L, M, D
<1>4. ASSUME NEW h \in Nat, NEW l \in Nat, NEW m \in Nat, NEW d \in Nat
      PROVE  h + l + m + d \in Nat /\ (h + l + m + d = 0 <=> h = 0 /\ l = 0 /\ m = 0 /\ d = 0)
  OBVIOUS
<1>5. Count(r) \in Nat /\ (Count(r) = 0 <=> H = {} /\ L = {} /\ M = {} /\ D = {})
  BY <1>1, <1>2, <1>4
<1> QED BY <1>3, <1>5, Zenon

-----------------------------------------------------------------------------
(* The least of a set of numbers belongs to it.                            *)

Below == {p \in Nat \X Nat : p[1] < p[2]}

LEMMA LeastNumber ==
  ASSUME NEW T \in SUBSET Nat, T # {}
  PROVE  Min(T) \in T
<1>1. IsWellFoundedOn(Below, Nat)
  BY NatLessThanWellFounded DEF OpToRel, Below
<1>2. PICK x \in T : \A y \in T : ~ (<<y, x>> \in Below)
  BY <1>1, WFMin
<1>3. \A y \in T : x \in Nat /\ y \in Nat /\ ~ (y < x)
  BY <1>2, Zenon DEF Below
<1>4. \A y \in T : x =< y
  BY <1>3
<1> QED BY <1>4 DEF Min

-----------------------------------------------------------------------------
(* The invariant.                                                          *)

(* Where a thread can be when it works on resources of the catalog, and    *)
(* what its local variables are there.                                     *)
Making == {"drop", "count", "unregister", "dropped", "own"}
Places == Making \cup {"check", "create", "register", "fetch", "unregisterLast",
                       "release", "ok", "idle"}

ThreadOK(s) ==
    /\ s \in ThreadState
    /\ s.pc \in Places
    /\ s.pc \in Making => s.raw # NoObject
    /\ s.pc \in Making \ {"own"} => s.then = "own"
    /\ s.pc \in {"check", "fetch", "create"} => s.id \in AllIds
    /\ s.pc # "idle" => s.h \in Handles

Typed == TypeOK /\ \A t \in Threads : ThreadOK(thr[t])

(* No object is counted by two control blocks ...                          *)
OneOwner == \A r, q \in Refs : Used(r) /\ Used(q) /\ Object(r) = Object(q) => r = q

(* ... since a bare pointer is the only one to its object.                 *)
RawAlone == /\ \A t \in Threads, r \in Refs : Used(r) => Object(r) # thr[t].raw
            /\ \A t, w \in Threads : t # w /\ thr[t].raw # NoObject => thr[t].raw # thr[w].raw

(* What is pointed to is on the heap.                                      *)
OnTheHeap == /\ \A r \in Refs : Used(r) => idOf[Object(r)] \in AllIds
             /\ \A t \in Threads : thr[t].raw # NoObject => idOf[thr[t].raw] \in AllIds

RInv == Typed /\ NothingDangles /\ OneOwner /\ RawAlone /\ OnTheHeap

-----------------------------------------------------------------------------
(* What a step does to the pointers: a reference that is in use after it   *)
(* was in use before, or counts an object of which a thread has just given *)
(* the bare pointer away; and of one object there is one such reference.   *)
Gives(t) == thr[t].raw # NoObject /\ thr'[t].raw = NoObject

Starts(r) == Used(r)' /\ ~Used(r)

Pointers ==
    /\ \A r \in Refs : Starts(r) => \E t \in Threads : Gives(t) /\ thr[t].raw = Object(r)
    /\ \A r, q \in Refs : Starts(r) /\ Starts(q) /\ Object(r) = Object(q) => r = q
    /\ \A t \in Threads : thr'[t].raw = NoObject \/ thr'[t].raw = thr[t].raw

LEMMA PointersKeep ==
  ASSUME RInv, Pointers
  PROVE  OneOwner' /\ RawAlone'
<1> USE DEF RInv, Pointers, Starts, OneOwner, RawAlone, Gives
<1>1. ASSUME NEW r \in Refs, NEW q \in Refs, Used(r)', Used(q)', Object(r) = Object(q)
      PROVE  r = q
  <2>1. CASE Used(r) /\ Used(q)
    BY <1>1, <2>1
  <2>2. CASE Used(r) /\ ~Used(q)
    BY <1>1, <2>2
  <2>3. CASE ~Used(r) /\ Used(q)
    BY <1>1, <2>3
  <2>4. CASE ~Used(r) /\ ~Used(q)
    BY <1>1, <2>4
  <2> QED BY <2>1, <2>2, <2>3, <2>4
<1>2. ASSUME NEW t \in Threads, NEW r \in Refs, Used(r)'
      PROVE  Object(r) # thr'[t].raw
  <2>1. Object(r) # NoObject
    BY DEF Object, Refs, Objects, NoObject
  <2>2. CASE Used(r)
    BY <1>2, <2>1, <2>2
  <2>3. CASE ~Used(r)
    BY <1>2, <2>1, <2>3
  <2> QED BY <2>2, <2>3
<1>3. ASSUME NEW t \in Threads, NEW w \in Threads, t # w, thr'[t].raw # NoObject
      PROVE  thr'[t].raw # thr'[w].raw
  BY <1>3
<1> QED BY <1>1, <1>2, <1>3 DEF OneOwner, RawAlone

(* An object is deleted only when its control block counts nothing, and    *)
(* then nothing is left that points to it.                                 *)
LEMMA HeapKeeps ==
  ASSUME RInv, Pointers, Heap(idOf), \A t \in Threads : thr'[t] \in ThreadState
  PROVE  /\ OneOwner' /\ RawAlone'
         /\ NothingDangles' /\ OnTheHeap'
         /\ idOf' \in [Objects -> AllIds \cup {NoId}]
<1> DEFINE gone == {Object(r) : r \in {q \in Refs : Count(q) > 0 /\ Count(q)' = 0}}
           pointed == {o \in Objects : Raw(o)' \/ \E k \in Owners : Count(<<o, k>>)' > 0}
<1>1. /\ freed' = (freed \cup gone) \cap pointed
      /\ idOf' = [o \in Objects |-> IF o \in pointed THEN idOf[o] ELSE NoId]
  BY DEF Heap
<1>2. CountIsUse /\ CountIsUse'
  BY CountUsed, PTL
<1>3. ASSUME NEW o \in gone
      PROVE  \E q \in Refs : Object(q) = o /\ Used(q) /\ ~Used(q)'
  BY <1>2 DEF CountIsUse
<1>4. ASSUME NEW o \in Objects
      PROVE  o \in pointed <=> Raw(o)' \/ \E r \in Refs : Object(r) = o /\ Used(r)'
  <2>1. \A r \in Refs : Count(r)' > 0 <=> Used(r)'
    BY <1>2 DEF CountIsUse
  <2>2. \A k \in Owners : <<o, k>> \in Refs /\ Object(<<o, k>>) = o
    BY DEF Refs, Object
  <2>3. \A r \in Refs : Object(r) = o => \E k \in Owners : r = <<o, k>>
    BY DEF Refs, Object
  <2> QED BY <2>1, <2>2, <2>3
<1>5. OneOwner' /\ RawAlone'
  BY PointersKeep
<1>6. ASSUME NEW o \in gone, o \in pointed PROVE FALSE
  <2>1. PICK q \in Refs : Object(q) = o /\ Used(q) /\ ~Used(q)'
    BY <1>3
  <2>2. o \in Objects /\ o # NoObject
    BY <2>1 DEF Object, Refs, Objects, NoObject
  <2>3. CASE Raw(o)'
    <3>1. PICK t \in Threads : thr'[t].raw = o
      BY <2>3 DEF Raw
    <3>2. thr[t].raw = o
      BY <2>2, <3>1 DEF Pointers
    <3> QED BY <2>1, <3>2 DEF RInv, RawAlone
  <2>4. ASSUME NEW r \in Refs, Object(r) = o, Used(r)' PROVE FALSE
    <3>1. CASE Used(r)
      BY <2>1, <2>4, <3>1 DEF RInv, OneOwner
    <3>2. CASE ~Used(r)
      BY <2>1, <2>4, <3>2 DEF RInv, RawAlone, Pointers, Starts
    <3> QED BY <3>1, <3>2
  <2> QED BY <1>4, <1>6, <2>2, <2>3, <2>4
<1>7. freed' = {}
  BY <1>1, <1>6 DEF RInv, NothingDangles
<1> HIDE DEF gone, pointed
<1>8. \A r \in Refs : Used(r)' => idOf'[Object(r)] \in AllIds
  <2> SUFFICES ASSUME NEW r \in Refs, Used(r)' PROVE idOf'[Object(r)] \in AllIds
    OBVIOUS
  <2>1. Object(r) \in Objects
    BY DEF Object, Refs
  <2>2. idOf'[Object(r)] = idOf[Object(r)]
    BY <1>1, <1>4, <2>1
  <2>3. idOf[Object(r)] \in AllIds
    BY DEF RInv, OnTheHeap, Pointers, Starts, Gives
  <2> QED BY <2>2, <2>3
<1>9. \A t \in Threads : thr'[t].raw # NoObject => idOf'[thr'[t].raw] \in AllIds
  <2> SUFFICES ASSUME NEW t \in Threads, thr'[t].raw # NoObject
               PROVE  idOf'[thr'[t].raw] \in AllIds
    OBVIOUS
  <2>1. thr'[t].raw \in Objects /\ thr'[t].raw = thr[t].raw
    BY DEF Pointers, ThreadState
  <2>2. idOf'[thr'[t].raw] = idOf[thr'[t].raw]
    BY <1>1, <1>4, <2>1 DEF Raw
  <2> QED BY <2>1, <2>2 DEF RInv, OnTheHeap
<1>10. idOf' \in [Objects -> AllIds \cup {NoId}]
  BY <1>1 DEF RInv, Typed, TypeOK
<1> QED BY <1>5, <1>7, <1>8, <1>9, <1>10 DEF NothingDangles, OnTheHeap

(* Steps that let pointers go at most, and delete nothing.                 *)
LEMMA QuietKeeps ==
  ASSUME RInv, UNCHANGED <<idOf, freed>>,
         \A r \in Refs : Used(r)' => Used(r),
         \A t \in Threads : thr'[t].raw = NoObject \/ thr'[t].raw = thr[t].raw
  PROVE  OneOwner' /\ RawAlone' /\ NothingDangles' /\ OnTheHeap'
<1>1. Pointers
  <2>1. \A r \in Refs : ~Starts(r)
    BY DEF Starts
  <2> QED BY <2>1 DEF Pointers
<1>2. NothingDangles'
  BY DEF RInv, NothingDangles
<1>3. \A r \in Refs : Used(r)' => idOf'[Object(r)] \in AllIds
  BY DEF RInv, OnTheHeap
<1>4. \A t \in Threads : thr'[t].raw # NoObject => idOf'[thr'[t].raw] \in AllIds
  BY DEF RInv, OnTheHeap
<1>5. OnTheHeap'
  BY <1>3, <1>4 DEF OnTheHeap
<1> QED BY <1>1, <1>2, <1>5, PointersKeep

-----------------------------------------------------------------------------
(* The steps.  Most of them store references that were in use already.     *)

Held == {Null} \cup {r \in Refs : Used(r)}

LEMMA HeldAll ==
  ASSUME TypeOK
  PROVE  /\ impl \in [Handles -> Held]
         /\ lookup \in [AllIds -> Held]
         /\ \A t \in Threads : thr[t].tmp \in Held /\ thr[t].data \in Held
<1>1. /\ impl \in [Handles -> Refs \cup {Null}]
      /\ lookup \in [AllIds -> Refs \cup {Null}]
      /\ \A t \in Threads : thr[t].tmp \in Refs \cup {Null} /\ thr[t].data \in Refs \cup {Null}
  BY DEF TypeOK, ThreadState
<1>2. \A h \in Handles : impl[h] \in Held
  BY <1>1 DEF Held, Used
<1>3. \A i \in AllIds : lookup[i] \in Held
  BY <1>1 DEF Held, Used
<1>4. \A t \in Threads : thr[t].tmp \in Held /\ thr[t].data \in Held
  BY <1>1 DEF Held, Used
<1> QED BY <1>1, <1>2, <1>3, <1>4

LEMMA HeldIsTyped ==
  ASSUME RInv, NEW r \in Held
  PROVE  /\ r \in Refs \cup {Null}
         /\ r # Null => Object(r) \in Objects /\ idOf[Object(r)] \in AllIds
BY DEF RInv, OnTheHeap, Held, Object, Refs

LEMMA Becomes ==
  ASSUME Typed, NEW t \in Threads, NEW s, ThreadOK(s), thr' = [thr EXCEPT ![t] = s]
  PROVE  /\ thr' \in [Threads -> ThreadState]
         /\ \A w \in Threads : ThreadOK(thr'[w])
         /\ thr'[t] = s
         /\ \A w \in Threads \ {t} : thr'[w] = thr[w]
<1>1. thr \in [Threads -> ThreadState] /\ s \in ThreadState
  BY DEF Typed, TypeOK, ThreadOK
<1>2. thr'[t] = s /\ \A w \in Threads \ {t} : thr'[w] = thr[w]
  BY <1>1
<1>3. \A w \in Threads : ThreadOK(thr'[w])
  BY <1>2, Zenon DEF Typed
<1>4. thr' \in [Threads -> ThreadState]
  BY <1>1
<1> QED BY <1>2, <1>3, <1>4

LEMMA StepKeeps ==
  ASSUME RInv,
         NEW t \in Threads, NEW s, thr' = [thr EXCEPT ![t] = s],
         ThreadOK(s), s.raw \in {NoObject, thr[t].raw}, s.tmp \in Held, s.data \in Held,
         impl' \in [Handles -> Held], lookup' \in [AllIds -> Held],
         Heap(idOf) \/ UNCHANGED <<idOf, freed>>
  PROVE  RInv'
<1>1. Typed
  BY DEF RInv
<1>2. /\ thr' \in [Threads -> ThreadState]
      /\ \A w \in Threads : ThreadOK(thr'[w])
      /\ thr'[t] = s
      /\ \A w \in Threads \ {t} : thr'[w] = thr[w]
  BY <1>1, Becomes
<1>3. \A r \in Refs : Used(r)' => Used(r)
  <2> SUFFICES ASSUME NEW r \in Refs, Used(r)' PROVE r \in Held
    BY NullIsNoRef DEF Held
  <2>1. CASE \E h \in Handles : impl'[h] = r
    BY <2>1
  <2>2. CASE \E i \in AllIds : lookup'[i] = r
    BY <2>2
  <2>3. CASE \E w \in Threads : thr'[w].tmp = r \/ thr'[w].data = r
    BY <1>1, <1>2, <2>3, HeldAll DEF Typed
  <2> QED BY <2>1, <2>2, <2>3 DEF Used
<1>4. \A w \in Threads : thr'[w].raw = NoObject \/ thr'[w].raw = thr[w].raw
  BY <1>2
<1>5. Pointers
  <2>1. \A r \in Refs : ~Starts(r)
    BY <1>3 DEF Starts
  <2> QED BY <1>4, <2>1 DEF Pointers
<1>6. /\ OneOwner' /\ RawAlone' /\ NothingDangles' /\ OnTheHeap'
      /\ idOf' \in [Objects -> AllIds \cup {NoId}]
  <2>1. CASE Heap(idOf)
    <3>1. \A w \in Threads : thr'[w] \in ThreadState
      BY <1>2
    <3> QED BY <1>5, <2>1, <3>1, HeapKeeps
  <2>2. CASE UNCHANGED <<idOf, freed>>
    <3>1. idOf' \in [Objects -> AllIds \cup {NoId}]
      BY <1>1, <2>2 DEF Typed, TypeOK
    <3> QED BY <1>3, <1>4, <2>2, <3>1, QuietKeeps
  <2> QED BY <2>1, <2>2
<1>7. TypeOK'
  <2>1. Held \subseteq Refs \cup {Null}
    BY DEF Held
  <2>2. impl' \in [Handles -> Refs \cup {Null}] /\ lookup' \in [AllIds -> Refs \cup {Null}]
    BY <2>1
  <2> QED BY <1>2, <1>6, <2>2 DEF TypeOK, NothingDangles
<1>8. Typed'
  BY <1>2, <1>7, Zenon DEF Typed
<1> QED BY <1>6, <1>8 DEF RInv

LEMMA HandleOf ==
  ASSUME NEW t \in Threads, NEW h \in HandlesOf[t]
  PROVE  h \in Handles
BY DEF Handles

LEMMA CallIsOK ==
  ASSUME NEW h \in Handles \cup {NoHandle}, NEW i \in AllIds \cup {NoId},
         NEW pc \in Places \ Making, h \in Handles \/ pc = "idle",
         pc \in {"check", "fetch", "create"} => i \in AllIds
  PROVE  /\ ThreadOK(Call(h, i, pc))
         /\ Call(h, i, pc).raw = NoObject
         /\ Call(h, i, pc).tmp \in Held /\ Call(h, i, pc).data \in Held
<1>1. Call(h, i, pc) \in ThreadState
  BY DEF Call, ThreadState, Steps, Places, Making
<1> QED BY <1>1 DEF Call, ThreadOK, Places, Making, Held

LEMMA RestIsOK ==
  /\ ThreadOK(Rest) /\ Rest.raw = NoObject /\ Rest.tmp \in Held /\ Rest.data \in Held
BY CallIsOK DEF Rest, Places, Making

(* Steps that change no more than the place of the thread.                 *)
LEMMA CallsKeep ==
  ASSUME RInv, NEW t \in Threads, Calls(t)
  PROVE  RInv'
<1> USE DEF RInv
<1>1. impl \in [Handles -> Held] /\ lookup \in [AllIds -> Held]
  BY HeldAll DEF Typed
<1>2. PICK h \in HandlesOf[t] : \/ \E i \in Ids : Prepare(t, h, i) \/ PrepareIid(t, h, i)
                               \/ Destroy(t, h)
                               \/ \E g \in HandlesOf[t] : Copy(t, h, g)
  BY DEF Calls
<1>3. h \in Handles
  BY HandleOf
<1>4. ASSUME NEW s, Start(t, s), ThreadOK(s), s.raw = NoObject, s.tmp \in Held, s.data \in Held
      PROVE  RInv'
  <2>1. impl' \in [Handles -> Held] /\ lookup' \in [AllIds -> Held]
    BY <1>1, <1>4 DEF Start
  <2> QED BY <1>4, <2>1, StepKeeps DEF Start, Become
<1>5. CASE \E i \in Ids : Prepare(t, h, i) \/ PrepareIid(t, h, i)
  <2>1. PICK i \in Ids : Prepare(t, h, i) \/ PrepareIid(t, h, i)
    BY <1>5
  <2>2. /\ ThreadOK(Call(h, i, "check")) /\ Call(h, i, "check").raw = NoObject
        /\ Call(h, i, "check").tmp \in Held /\ Call(h, i, "check").data \in Held
    BY <1>3, CallIsOK DEF AllIds, Places, Making
  <2>3. CASE Prepare(t, h, i)
    BY <1>4, <2>2, <2>3 DEF Prepare
  <2>4. CASE PrepareIid(t, h, i)
    <3> DEFINE s == [Call(h, i, "check") EXCEPT !.iid = TRUE]
    <3>1. s.raw = NoObject /\ s.tmp \in Held /\ s.data \in Held
      BY <2>2 DEF Call
    <3>2. ThreadOK(s)
      BY <2>2 DEF ThreadOK, ThreadState, Call
    <3> HIDE DEF s
    <3>3. Start(t, s)
      BY <2>4 DEF PrepareIid, s
    <3> QED BY <1>4, <3>1, <3>2, <3>3
  <2> QED BY <2>1, <2>3, <2>4
<1>6. CASE Destroy(t, h)
  <2>1. idOf[Object(impl[h])] \in AllIds
    BY <1>1, <1>3, <1>6, HeldIsTyped DEF Destroy
  <2>2. PICK pc \in {"unregisterLast", "release"} : Start(t, Call(h, idOf[Object(impl[h])], pc))
    BY <1>6 DEF Destroy
  <2> QED BY <1>3, <1>4, <2>1, <2>2, CallIsOK DEF Places, Making
<1>7. CASE \E g \in HandlesOf[t] : Copy(t, h, g)
  <2>1. PICK g \in HandlesOf[t] : Copy(t, h, g)
    BY <1>7
  <2>2. g \in Handles
    BY HandleOf
  <2>3. impl' \in [Handles -> Held] /\ lookup' \in [AllIds -> Held]
    BY <1>1, <2>1, <2>2 DEF Copy
  <2>4. thr' = [thr EXCEPT ![t] = thr[t]] /\ ThreadOK(thr[t])
    BY <2>1 DEF Copy, Typed, TypeOK
  <2> QED BY <2>1, <2>3, <2>4, HeldAll, StepKeeps DEF Typed, Copy
<1> QED BY <1>2, <1>5, <1>6, <1>7

(* Steps that move a thread on and keep its local variables.               *)
LEMMA GoKeeps ==
  ASSUME RInv, NEW t \in Threads, NEW pc \in Places, Goto(t, pc),
         pc \in Making => thr[t].raw # NoObject,
         pc \in Making \ {"own"} => thr[t].then = "own",
         pc \in {"check", "fetch", "create"} => thr[t].id \in AllIds,
         pc # "idle" => thr[t].h \in Handles,
         impl' \in [Handles -> Held], lookup' \in [AllIds -> Held],
         Heap(idOf) \/ UNCHANGED <<idOf, freed>>
  PROVE  RInv'
<1> DEFINE s == [thr[t] EXCEPT !.pc = pc]
<1>1. thr[t] \in ThreadState
  BY DEF RInv, Typed, TypeOK
<1>2. ThreadOK(s)
  BY <1>1 DEF ThreadOK, ThreadState, Steps, Places, Making
<1>3. s.raw = thr[t].raw /\ s.tmp = thr[t].tmp /\ s.data = thr[t].data
  BY <1>1 DEF ThreadState
<1>4. s.tmp \in Held /\ s.data \in Held
  BY <1>3, HeldAll DEF Typed, RInv
<1>5. thr' = [thr EXCEPT ![t] = s]
  BY DEF Goto
<1> HIDE DEF s
<1> QED BY <1>2, <1>3, <1>4, <1>5, StepKeeps

LEMMA RestKeeps ==
  ASSUME RInv, NEW t \in Threads, Become(t, Rest),
         impl' \in [Handles -> Held], lookup' \in [AllIds -> Held],
         Heap(idOf) \/ UNCHANGED <<idOf, freed>>
  PROVE  RInv'
BY RestIsOK, StepKeeps DEF Become

(* What a thread finds that is somewhere in a call.                        *)
LEMMA InCall ==
  ASSUME RInv, NEW t \in Threads
  PROVE  /\ thr[t] \in ThreadState /\ ThreadOK(thr[t])
         /\ thr[t].pc # "idle" => Current(t) \in Held
<1>1. impl \in [Handles -> Held]
  BY HeldAll DEF Typed, RInv
<1>2. ThreadOK(thr[t])
  BY DEF RInv, Typed
<1> QED BY <1>1, <1>2 DEF ThreadOK, Current, Mine

(* The destructor, and the steps of removeCurrent().                       *)
LEMMA DropKeeps ==
  ASSUME RInv, NEW t \in Threads, Drop(t)
  PROVE  RInv'
<1>1. impl' \in [Handles -> Held] /\ lookup' \in [AllIds -> Held] /\ lookup \in [AllIds -> Held]
  BY HeldAll DEF Typed, Drop, RInv
<1>2. /\ thr[t] \in ThreadState /\ thr[t].pc = "drop" /\ thr[t].raw # NoObject
      /\ thr[t].then = "own" /\ thr[t].h \in Handles /\ Current(t) \in Held
  BY InCall DEF ThreadOK, Making, Drop, At
<1>3. CASE Current(t) = Null
  <2>1. Goto(t, "own")
    BY <1>2, <1>3 DEF Drop, Goto
  <2> QED BY <1>1, <1>2, <2>1, GoKeeps DEF Drop, Places, Making
<1>4. CASE Current(t) # Null
  <2> DEFINE r == lookup[idOf[Object(Current(t))]]
             s == [thr[t] EXCEPT !.pc = "count", !.tmp = r]
  <2>1. r \in Held
    BY <1>1, <1>2, <1>4, HeldIsTyped
  <2>2. thr' = [thr EXCEPT ![t] = s]
    BY <1>4 DEF Drop
  <2> HIDE DEF r
  <2>3. r \in Refs \cup {Null}
    BY <2>1, HeldIsTyped
  <2>4. s.raw = thr[t].raw /\ s.tmp = r /\ s.data = thr[t].data
    BY <1>2 DEF ThreadState
  <2>5. ThreadOK(s)
    BY <1>2, <2>3 DEF ThreadOK, ThreadState, Steps, Places, Making
  <2>6. s.data \in Held
    BY <2>4, HeldAll DEF Typed, RInv
  <2> HIDE DEF s
  <2> QED BY <1>1, <2>1, <2>2, <2>4, <2>5, <2>6, StepKeeps DEF Drop
<1> QED BY <1>3, <1>4

LEMMA DroppedKeeps ==
  ASSUME RInv, NEW t \in Threads, Dropped(t)
  PROVE  RInv'
<1> DEFINE s == [thr[t] EXCEPT !.pc = thr[t].then, !.tmp = Null]
<1>1. impl' \in [Handles -> Held] /\ lookup' \in [AllIds -> Held]
  BY HeldAll DEF Typed, Dropped, RInv
<1>2. /\ thr[t] \in ThreadState /\ thr[t].raw # NoObject
      /\ thr[t].then = "own" /\ thr[t].h \in Handles
  BY InCall DEF ThreadOK, Making, Dropped, At
<1>3. thr' = [thr EXCEPT ![t] = s]
  BY DEF Dropped
<1>4. s.raw = thr[t].raw /\ s.tmp = Null /\ s.data = thr[t].data
  BY <1>2 DEF ThreadState
<1>5. ThreadOK(s)
  BY <1>2 DEF ThreadOK, ThreadState, Steps, Places, Making
<1>6. s.tmp \in Held /\ s.data \in Held
  BY <1>4, HeldAll DEF Typed, RInv, Held
<1> HIDE DEF s
<1> QED BY <1>1, <1>3, <1>4, <1>5, <1>6, StepKeeps DEF Dropped

LEMMA CountKeeps ==
  ASSUME RInv, NEW t \in Threads, UnregisterLast(t) \/ Release(t) \/ CountUses(t) \/ Unregister(t)
  PROVE  RInv'
<1>1. impl \in [Handles -> Held] /\ lookup \in [AllIds -> Held] /\ Null \in Held
  BY HeldAll DEF Typed, RInv, Held
<1>2. ThreadOK(thr[t])
  BY InCall
<1>3. CASE UnregisterLast(t)
  <2>1. impl' \in [Handles -> Held] /\ lookup' \in [AllIds -> Held]
    BY <1>1, <1>3 DEF UnregisterLast
  <2> QED BY <1>2, <1>3, <2>1, GoKeeps DEF UnregisterLast, At, ThreadOK, Places, Making
<1>4. CASE Release(t)
  <2>1. impl' \in [Handles -> Held] /\ lookup' \in [AllIds -> Held]
    BY <1>1, <1>4 DEF Release
  <2> QED BY <1>4, <2>1, RestKeeps DEF Release
<1>5. CASE CountUses(t)
  <2>1. PICK pc \in {"unregister", "dropped"} : Goto(t, pc)
    BY <1>5 DEF CountUses
  <2>2. impl' \in [Handles -> Held] /\ lookup' \in [AllIds -> Held]
    BY <1>1, <1>5 DEF CountUses
  <2> QED BY <1>2, <1>5, <2>1, <2>2, GoKeeps DEF CountUses, At, ThreadOK, Places, Making
<1>6. CASE Unregister(t)
  <2>1. impl' \in [Handles -> Held] /\ lookup' \in [AllIds -> Held]
    BY <1>1, <1>6 DEF Unregister
  <2> QED BY <1>2, <1>6, <2>1, GoKeeps DEF Unregister, At, ThreadOK, Places, Making
<1> QED BY <1>3, <1>4, <1>5, <1>6

(* prepare(), but for the making of an object.                             *)
LEMMA PrepareKeeps ==
  ASSUME RInv, NEW t \in Threads,
         \/ Check(t) \/ CreateFails(t) \/ PrepareFails(t)
         \/ Register(t) \/ Fetch(t) \/ Return(t)
  PROVE  RInv'
<1>1. impl \in [Handles -> Held] /\ lookup \in [AllIds -> Held] /\ Null \in Held
  BY HeldAll DEF Typed, RInv, Held
<1>2. ThreadOK(thr[t]) /\ (thr[t].pc # "idle" => Current(t) \in Held)
  BY InCall
<1>3. CASE Check(t)
  <2>1. PICK pc \in {"fetch", "create"} : Goto(t, pc)
    BY <1>3 DEF Check
  <2>2. impl' \in [Handles -> Held] /\ lookup' \in [AllIds -> Held]
    BY <1>1, <1>3 DEF Check
  <2> QED BY <1>2, <1>3, <2>1, <2>2, GoKeeps DEF Check, At, ThreadOK, Places, Making
<1>4. CASE CreateFails(t) \/ PrepareFails(t) \/ Return(t)
  <2>1. impl' \in [Handles -> Held] /\ lookup' \in [AllIds -> Held]
    BY <1>1, <1>4 DEF CreateFails, PrepareFails, Return
  <2> QED BY <1>4, <2>1, RestKeeps DEF CreateFails, PrepareFails, Return
<1>5. CASE Register(t)
  <2>1. impl' \in [Handles -> Held] /\ lookup' \in [AllIds -> Held]
    BY <1>1, <1>2, <1>5 DEF Register, At
  <2> QED BY <1>2, <1>5, <2>1, GoKeeps DEF Register, At, ThreadOK, Places, Making
<1>6. CASE Fetch(t)
  <2>1. thr[t].pc = "fetch" /\ thr[t].id \in AllIds /\ thr[t].h \in Handles
    BY <1>2, <1>6 DEF Fetch, ThreadOK, Places, Making
  <2>2. impl' \in [Handles -> Held] /\ lookup' \in [AllIds -> Held]
    BY <1>1, <1>6, <2>1 DEF Fetch
  <2>3. \/ Become(t, Rest)
        \/ \E pc \in {"register", "ok"} : Goto(t, pc)
    BY <1>6 DEF Fetch
  <2>4. CASE Become(t, Rest)
    BY <1>6, <2>2, <2>4, RestKeeps DEF Fetch
  <2>5. ASSUME NEW pc \in {"register", "ok"}, Goto(t, pc) PROVE RInv'
    BY <1>6, <2>1, <2>2, <2>5, GoKeeps DEF Fetch, Places, Making
  <2> QED BY <2>3, <2>4, <2>5
<1> QED BY <1>3, <1>4, <1>5, <1>6

(* Nothing counts an object that a thread has the bare pointer of: its     *)
(* control blocks are all new.                                             *)
LEMMA OwnerOfRaw ==
  ASSUME RInv, NEW t \in Threads, thr[t].raw # NoObject
  PROVE  NewOwner(thr[t].raw) \in Owners
<1> DEFINE o == thr[t].raw
           Unowned == {k \in Owners : Count(<<o, k>>) = 0}
<1>1. o \in Objects
  BY InCall DEF ThreadState
<1>2. \A k \in Owners : <<o, k>> \in Refs /\ Object(<<o, k>>) = o
  BY <1>1 DEF Refs, Object
<1>3. \A k \in Owners : Count(<<o, k>>) = 0
  BY <1>2, CountUsed DEF CountIsUse, RInv, RawAlone
<1>4. 1 \in Owners /\ Owners \in SUBSET Nat
  BY BoundsAssumption DEF Owners
<1>5. Unowned \in SUBSET Nat /\ Unowned # {} /\ Unowned \subseteq Owners
  BY <1>3, <1>4
<1>6. Min(Unowned) \in Unowned
  <2> HIDE DEF Unowned
  <2> QED BY <1>5, LeastNumber
<1>7. NewOwner(o) = Min(Unowned)
  BY DEF NewOwner
<1> QED BY <1>5, <1>6, <1>7

(* The handle takes the bare pointer.                                      *)
LEMMA OwnKeeps ==
  ASSUME RInv, NEW t \in Threads, Own(t)
  PROVE  RInv'
<1> DEFINE o == thr[t].raw
           k == NewOwner(o)
           s == [thr[t] EXCEPT !.pc = "register", !.raw = NoObject]
<1>1. impl \in [Handles -> Held] /\ lookup \in [AllIds -> Held] /\ Typed
  BY HeldAll DEF Typed, RInv
<1>2. /\ thr[t] \in ThreadState /\ ThreadOK(thr[t]) /\ thr[t].h \in Handles
      /\ o # NoObject /\ o \in Objects
  BY InCall DEF Own, At, ThreadOK, ThreadState, Making
<1>3. <<o, k>> \in Refs /\ Object(<<o, k>>) = o
  BY <1>2, OwnerOfRaw DEF Refs, Object
<1>4. impl' = [impl EXCEPT ![Mine(t)] = <<o, k>>] /\ lookup' = lookup /\ Heap(idOf)
  BY DEF Own
<1>5. thr' = [thr EXCEPT ![t] = s]
  BY DEF Own
<1>6. s.raw = NoObject /\ s.tmp = thr[t].tmp /\ s.data = thr[t].data
  BY <1>2 DEF ThreadState
<1>7. ThreadOK(s)
  BY <1>2 DEF ThreadOK, ThreadState, Steps, Places, Making, NoObject
<1> HIDE DEF s, k, o
<1>8. /\ thr' \in [Threads -> ThreadState]
      /\ \A w \in Threads : ThreadOK(thr'[w])
      /\ thr'[t] = s
      /\ \A w \in Threads \ {t} : thr'[w] = thr[w]
  BY <1>1, <1>5, <1>7, Becomes
<1>9. Gives(t) /\ thr[t].raw = o
  BY <1>2, <1>6, <1>8 DEF Gives, o
<1>10. \A r \in Refs : Starts(r) => r = <<o, k>>
  <2> SUFFICES ASSUME NEW r \in Refs, Used(r)', r # <<o, k>> PROVE r \in Held
    BY NullIsNoRef DEF Starts, Held
  <2>1. CASE \E h \in Handles : impl'[h] = r
    BY <1>1, <1>4, <2>1
  <2>2. CASE \E i \in AllIds : lookup'[i] = r
    BY <1>1, <1>4, <2>2
  <2>3. CASE \E w \in Threads : thr'[w].tmp = r \/ thr'[w].data = r
    BY <1>1, <1>6, <1>8, <2>3, HeldAll DEF Typed
  <2> QED BY <2>1, <2>2, <2>3 DEF Used
<1>11. Pointers
  <2>1. \A r \in Refs : Starts(r) => Gives(t) /\ thr[t].raw = Object(r)
    BY <1>3, <1>9, <1>10
  <2>2. \A w \in Threads : thr'[w].raw = NoObject \/ thr'[w].raw = thr[w].raw
    BY <1>6, <1>8
  <2> QED BY <1>10, <2>1, <2>2 DEF Pointers
<1>12. /\ OneOwner' /\ RawAlone' /\ NothingDangles' /\ OnTheHeap'
       /\ idOf' \in [Objects -> AllIds \cup {NoId}]
  <2>1. \A w \in Threads : thr'[w] \in ThreadState
    BY <1>8
  <2> QED BY <1>4, <1>11, <2>1, HeapKeeps
<1>13. TypeOK'
  <2>1. impl \in [Handles -> Refs \cup {Null}] /\ lookup \in [AllIds -> Refs \cup {Null}]
    BY DEF RInv, Typed, TypeOK
  <2>2. impl' \in [Handles -> Refs \cup {Null}] /\ lookup' \in [AllIds -> Refs \cup {Null}]
    BY <1>3, <1>4, <2>1
  <2> QED BY <1>8, <1>12, <2>2 DEF TypeOK, NothingDangles
<1>14. Typed'
  BY <1>8, <1>13, Zenon DEF Typed
<1> QED BY <1>12, <1>14 DEF RInv

(* A new object gets a place that nothing points to.                       *)
LEMMA CreateKeeps ==
  ASSUME RInv, NEW t \in Threads, Create(t)
  PROVE  RInv'
<1> DEFINE n == NewObject
           s == [thr[t] EXCEPT !.pc = "drop", !.raw = n, !.then = "own"]
<1>1. n \in Objects /\ idOf[n] = NoId
  <2>1. FreeObjects \in SUBSET Nat /\ FreeObjects # {}
    BY BoundsAssumption DEF FreeObjects, Objects, Create
  <2>2. Min(FreeObjects) \in FreeObjects
    BY <2>1, LeastNumber
  <2> QED BY <2>2 DEF NewObject, FreeObjects
<1>2. NoId \notin AllIds /\ n # NoObject
  BY <1>1, IdsAssumption DEF AllIds, Objects, NoObject
<1>3. /\ thr[t] \in ThreadState /\ thr[t].h \in Handles /\ thr[t].id \in AllIds
      /\ Typed
  BY InCall DEF Create, At, ThreadOK, RInv
<1>4. /\ thr' = [thr EXCEPT ![t] = s]
      /\ idOf' = [idOf EXCEPT ![n] = thr[t].id]
      /\ impl' = impl /\ lookup' = lookup /\ freed' = freed
  BY DEF Create
<1>5. s.raw = n /\ s.tmp = thr[t].tmp /\ s.data = thr[t].data
  BY <1>3 DEF ThreadState
<1>6. ThreadOK(s)
  BY <1>1, <1>2, <1>3 DEF ThreadOK, ThreadState, Steps, Places, Making
<1> HIDE DEF s, n
<1>7. /\ thr' \in [Threads -> ThreadState]
      /\ \A w \in Threads : ThreadOK(thr'[w])
      /\ thr'[t] = s
      /\ \A w \in Threads \ {t} : thr'[w] = thr[w]
  BY <1>3, <1>4, <1>6, Becomes
<1>8. \A r \in Refs : Used(r)' => Used(r)
  BY <1>4, <1>5, <1>7 DEF Used
<1>9. idOf \in [Objects -> AllIds \cup {NoId}]
  BY <1>3 DEF Typed, TypeOK
<1>10. /\ \A r \in Refs : Used(r) => Object(r) # n
       /\ \A w \in Threads : thr[w].raw # n
  BY <1>1, <1>2 DEF RInv, OnTheHeap
<1>11. OneOwner'
  BY <1>8 DEF RInv, OneOwner
<1>12. RawAlone'
  <2>1. ASSUME NEW w \in Threads, NEW r \in Refs, Used(r)' PROVE Object(r) # thr'[w].raw
    BY <1>5, <1>7, <1>8, <1>10, <2>1 DEF RInv, RawAlone
  <2>2. ASSUME NEW w \in Threads, NEW v \in Threads, w # v, thr'[w].raw # NoObject
        PROVE  thr'[w].raw # thr'[v].raw
    BY <1>5, <1>7, <1>10, <2>2 DEF RInv, RawAlone
  <2> QED BY <2>1, <2>2 DEF RawAlone
<1>13. OnTheHeap'
  <2>1. ASSUME NEW r \in Refs, Used(r)' PROVE idOf'[Object(r)] \in AllIds
    <3>1. idOf[Object(r)] \in AllIds
      BY <1>8, <2>1 DEF RInv, OnTheHeap
    <3> QED BY <1>4, <1>8, <1>9, <1>10, <2>1, <3>1
  <2>2. ASSUME NEW w \in Threads, thr'[w].raw # NoObject PROVE idOf'[thr'[w].raw] \in AllIds
    <3>1. CASE w = t
      BY <1>1, <1>3, <1>4, <1>5, <1>7, <1>9, <3>1
    <3>2. CASE w # t
      <4>1. thr'[w].raw = thr[w].raw /\ thr[w].raw # n /\ idOf[thr[w].raw] \in AllIds
        BY <1>7, <1>10, <2>2, <3>2 DEF RInv, OnTheHeap
      <4> QED BY <1>4, <1>9, <4>1
    <3> QED BY <3>1, <3>2
  <2> QED BY <2>1, <2>2 DEF OnTheHeap
<1>14. TypeOK' /\ NothingDangles'
  <2>1. NothingDangles'
    BY <1>4 DEF RInv, NothingDangles
  <2>2. idOf' \in [Objects -> AllIds \cup {NoId}]
    BY <1>3, <1>4, <1>9
  <2> QED BY <1>3, <1>4, <1>7, <2>1, <2>2 DEF Typed, TypeOK
<1>15. Typed'
  BY <1>7, <1>14, Zenon DEF Typed
<1> QED BY <1>11, <1>12, <1>13, <1>14, <1>15 DEF RInv

-----------------------------------------------------------------------------
LEMMA InitOK ==
  ASSUME Init
  PROVE  RInv
<1>1. ThreadOK(Rest)
  BY RestIsOK
<1>2. \A t \in Threads : thr[t] = Rest
  BY DEF Init
<1>3. Rest.raw = NoObject /\ Rest.tmp = Null /\ Rest.data = Null
  BY DEF Rest, Call
<1>4. \A r \in Refs : ~Used(r)
  BY <1>2, <1>3, NullIsNoRef DEF Init, Used
<1>5. Typed
  <2>1. TypeOK
    BY <1>1 DEF Init, TypeOK, ThreadOK
  <2> QED BY <1>1, <1>2, <2>1 DEF Typed
<1>6. OneOwner /\ RawAlone /\ OnTheHeap
  BY <1>2, <1>3, <1>4 DEF OneOwner, RawAlone, OnTheHeap
<1> QED BY <1>5, <1>6 DEF RInv, NothingDangles, Init

LEMMA StepOK ==
  ASSUME RInv, [\E t \in Threads : Step(t)]_vars
  PROVE  RInv'
<1>1. CASE \E t \in Threads : Step(t)
  <2>1. PICK t \in Threads : Step(t)
    BY <1>1
  <2>2. ThreadOK(thr[t])
    BY InCall
  <2>3. CASE Calls(t)
    BY <2>3, CallsKeep
  <2>4. CASE UnregisterLast(t) \/ Release(t) \/ CountUses(t) \/ Unregister(t)
    BY <2>4, CountKeeps
  <2>5. CASE Drop(t)
    BY <2>5, DropKeeps
  <2>6. CASE Dropped(t)
    BY <2>6, DroppedKeeps
  <2>7. CASE Own(t)
    BY <2>7, OwnKeeps
  <2>8. CASE Create(t)
    BY <2>8, CreateKeeps
  <2>9. CASE \/ Check(t) \/ CreateFails(t) \/ PrepareFails(t)
             \/ Register(t) \/ Fetch(t) \/ Return(t)
    BY <2>9, PrepareKeeps
  <2>10. CASE CheckSet(t) \/ Take(t) \/ Reset(t)
    BY <2>2, <2>10 DEF CheckSet, Take, Reset, At, ThreadOK, Places, Making
  <2> QED BY <2>1, <2>3, <2>4, <2>5, <2>6, <2>7, <2>8, <2>9, <2>10 DEF Step, Continue, Created
<1>2. CASE UNCHANGED vars
  <2>1. \A r \in Refs : Used(r)' <=> Used(r)
    BY <1>2 DEF vars, Used
  <2>2. OneOwner' /\ RawAlone' /\ NothingDangles' /\ OnTheHeap'
    BY <1>2, <2>1, QuietKeeps DEF vars
  <2>3. TypeOK'
    BY <1>2 DEF RInv, Typed, TypeOK, vars
  <2>4. \A t \in Threads : ThreadOK(thr'[t])
    BY <1>2 DEF RInv, Typed, vars
  <2> QED BY <2>2, <2>3, <2>4, Zenon DEF RInv, Typed
<1> QED BY <1>1, <1>2

(* No handle, local variable or entry of the table ever points to an       *)
(* object that is deleted, while handles are prepared, copied and          *)
(* destroyed by any number of threads (ilwisdata.h: prepare(), the copy    *)
(* constructor, the destructor and removeCurrent()).                       *)
THEOREM CatalogNeverDangles == CatalogSpec => []NothingDangles
<1>1. Init => RInv
  BY InitOK
<1>2. RInv /\ [\E t \in Threads : Step(t)]_vars => RInv'
  BY StepOK
<1>3. RInv => NothingDangles
  BY DEF RInv
<1> QED BY <1>1, <1>2, <1>3, PTL DEF CatalogSpec

(* So the handles, the table and the local variables stay well formed as   *)
(* well (ilwisdata.h).                                                     *)
THEOREM CatalogIsTyped == CatalogSpec => []TypeOK
<1>1. Init => RInv
  BY InitOK
<1>2. RInv /\ [\E t \in Threads : Step(t)]_vars => RInv'
  BY StepOK
<1>3. RInv => TypeOK
  BY DEF RInv, Typed
<1> QED BY <1>1, <1>2, <1>3, PTL DEF CatalogSpec

-----------------------------------------------------------------------------
(* One thread, and all calls of a handle: prepare() of resources and of    *)
(* new objects, set(), assign() from another handle, copies, destructors.  *)
(* With one thread the table is exact.  It is wrong only about the handle of the      *)
(* call that runs, and only while this call lets go of its object or makes a new one. *)
IdAt(r) == idOf[Object(r)]

Known(g) == impl[g] # Null => lookup[IdAt(impl[g])] = impl[g]

Dropping == {"drop", "count", "unregister", "dropped"}

Then == {"own", "take", "check", "registered", "reset"}

(* Where the thread can be, and what its local variables are there.                   *)
Shape(s) ==
    /\ s \in ThreadState
    /\ s.pc # "idle" => s.h \in Handles
    /\ s.pc \in Dropping => s.then \in Then
    /\ s.pc \in Dropping /\ s.then = "check" => s.id \in NewIds
    /\ s.pc \in {"check", "create", "fetch", "fetched", "unregisterLast", "registered"} =>
           s.id \in AllIds
    /\ s.pc \in Dropping /\ s.then \in {"check", "registered"} => s.id \in AllIds
    /\ s.raw # NoObject <=>
         \/ s.pc \in {"own", "registered"}
         \/ s.pc \in Dropping /\ s.then \in {"own", "registered"}
    /\ s.data # Null <=> s.pc = "take" \/ (s.pc \in Dropping /\ s.then = "take")
    /\ s.tmp # Null => s.pc \in {"count", "unregister", "dropped"}

TableOK == \A i \in AllIds : lookup[i] # Null => IdAt(lookup[i]) = i

OthersKnown(t) == \A g \in Handles : g # Mine(t) \/ At(t, "idle") => Known(g)

(* The object of the running call is in the table, or no object of its id is.         *)
MineOK(t) == thr[t].pc # "idle" /\ Current(t) # Null =>
                lookup[IdAt(Current(t))] \in {Null, Current(t)}

(* Nobody else refers to the object that is about to be taken out.                    *)
Lone(t) == /\ Current(t) # Null /\ thr[t].data # Current(t)
           /\ \A g \in Handles : g # Mine(t) => impl[g] # Current(t)

(* A bare pointer is that of a new object, or assign got it from another handle.      *)
NewRaw(t) == /\ \A r \in Refs : Used(r) => Object(r) # thr[t].raw
             /\ lookup[idOf[thr[t].raw]] = Null

Lent(t) == /\ thr[t].pc # "own"
           /\ thr[t].pc \in Dropping => thr[t].then # "own"
           /\ thr[t].id = idOf[thr[t].raw]
           /\ \E g \in Handles : g # Mine(t) /\ impl[g] # Null /\ Object(impl[g]) = thr[t].raw

RawOK(t) == thr[t].raw # NoObject =>
               idOf[thr[t].raw] \in AllIds /\ (NewRaw(t) \/ Lent(t))

PlaceOK(t) ==
    /\ At(t, "ok") => Known(Mine(t))
    /\ thr[t].pc \in {"check", "create"} /\ thr[t].id \in Ids => Known(Mine(t))
    /\ At(t, "create") => lookup[thr[t].id] = Null
    /\ At(t, "count") => Current(t) # Null /\ thr[t].tmp = lookup[IdAt(Current(t))]
    /\ thr[t].pc \in {"unregister", "unregisterLast"} => Lone(t)
    /\ At(t, "unregisterLast") => thr[t].id = IdAt(Current(t))
    /\ At(t, "register") => Current(t) # Null
    /\ thr[t].data # Null => lookup[IdAt(thr[t].data)] = thr[t].data

UsedOnHeap == \A r \in Refs : Used(r) => idOf[Object(r)] \in AllIds

Pointed == TypeOK /\ NothingDangles /\ OneOwner /\ UsedOnHeap

Table(t) == TableOK /\ OthersKnown(t) /\ MineOK(t)

CInv(t) == Pointed /\ Shape(thr[t]) /\ Table(t) /\ RawOK(t) /\ PlaceOK(t)

-----------------------------------------------------------------------------
(* The heap: a step of the only thread that keeps a reference to the object it has    *)
(* the bare pointer of deletes nothing that is pointed to.                            *)
KeepsIds == \A r \in Refs : Used(r)' => idOf'[Object(r)] = idOf[Object(r)]

RawLives(t) == \A q \in Refs : Used(q) /\ Object(q) = thr'[t].raw => Used(q)'

LEMMA HeapLives ==
  ASSUME NEW t, Threads = {t}, Pointed, Heap(idOf), RawLives(t),
         thr[t].raw # NoObject => idOf[thr[t].raw] \in AllIds,
         \A r \in Refs : Starts(r) => /\ Object(r) = thr[t].raw
                                      /\ \A q \in Refs : Used(q) => Object(q) # Object(r),
         \A r, q \in Refs : Starts(r) /\ Starts(q) => r = q,
         thr'[t].raw \in Objects \cup {NoObject}
  PROVE  /\ OneOwner' /\ NothingDangles' /\ UsedOnHeap' /\ KeepsIds
         /\ idOf' \in [Objects -> AllIds \cup {NoId}]
         /\ thr'[t].raw # NoObject => idOf'[thr'[t].raw] = idOf[thr'[t].raw]
<1> DEFINE gone == {Object(r) : r \in {q \in Refs : Count(q) > 0 /\ Count(q)' = 0}}
           pointed == {o \in Objects : Raw(o)' \/ \E k \in Owners : Count(<<o, k>>)' > 0}
<1>1. /\ freed' = (freed \cup gone) \cap pointed
      /\ idOf' = [o \in Objects |-> IF o \in pointed THEN idOf[o] ELSE NoId]
  BY DEF Heap
<1>2. CountIsUse /\ CountIsUse'
  BY CountUsed, PTL
<1>3. ASSUME NEW o \in gone
      PROVE  \E q \in Refs : Object(q) = o /\ Used(q) /\ ~Used(q)'
  BY <1>2 DEF CountIsUse
<1>4. ASSUME NEW o \in Objects
      PROVE  o \in pointed <=> Raw(o)' \/ \E r \in Refs : Object(r) = o /\ Used(r)'
  <2>1. \A r \in Refs : Count(r)' > 0 <=> Used(r)'
    BY <1>2 DEF CountIsUse
  <2>2. \A k \in Owners : <<o, k>> \in Refs /\ Object(<<o, k>>) = o
    BY DEF Refs, Object
  <2>3. \A r \in Refs : Object(r) = o => \E k \in Owners : r = <<o, k>>
    BY DEF Refs, Object
  <2> QED BY <2>1, <2>2, <2>3
<1>5. ASSUME NEW r \in Refs, NEW q \in Refs, Used(r)', Used(q)', Object(r) = Object(q)
      PROVE  r = q
  <2>1. CASE Used(r) /\ Used(q)
    BY <1>5, <2>1 DEF Pointed, OneOwner
  <2>2. CASE ~Used(r) /\ ~Used(q)
    BY <1>5, <2>2 DEF Starts
  <2>3. CASE (Used(r) /\ ~Used(q)) \/ (~Used(r) /\ Used(q))
    BY <1>5, <2>3 DEF Starts
  <2> QED BY <2>1, <2>2, <2>3
<1>6. ASSUME NEW o \in gone, o \in pointed PROVE FALSE
  <2>1. PICK q \in Refs : Object(q) = o /\ Used(q) /\ ~Used(q)'
    BY <1>3
  <2>2. o \in Objects
    BY <2>1 DEF Object, Refs
  <2>3. CASE Raw(o)'
    <3>1. thr'[t].raw = o
      BY <2>3 DEF Raw
    <3> QED BY <2>1, <3>1 DEF RawLives
  <2>4. ASSUME NEW r \in Refs, Object(r) = o, Used(r)' PROVE FALSE
    BY <2>1, <2>4 DEF Pointed, OneOwner, Starts
  <2> QED BY <1>4, <1>6, <2>2, <2>3, <2>4
<1>7. freed' = {}
  BY <1>1, <1>6 DEF Pointed, NothingDangles
<1> HIDE DEF gone, pointed
<1>8. KeepsIds
  <2> SUFFICES ASSUME NEW r \in Refs, Used(r)' PROVE idOf'[Object(r)] = idOf[Object(r)]
    BY DEF KeepsIds
  <2>1. Object(r) \in Objects
    BY DEF Object, Refs
  <2> QED BY <1>1, <1>4, <2>1
<1>9. ASSUME NEW r \in Refs, Used(r)' PROVE idOf'[Object(r)] \in AllIds
  <2>1. Object(r) \in Objects /\ Object(r) # NoObject
    BY DEF Object, Refs, Objects, NoObject
  <2>2. idOf[Object(r)] \in AllIds
    BY <1>9, <2>1 DEF Pointed, UsedOnHeap, Starts
  <2> QED BY <1>8, <1>9, <2>2 DEF KeepsIds
<1>10. idOf' \in [Objects -> AllIds \cup {NoId}]
  BY <1>1 DEF Pointed, TypeOK
<1>11. ASSUME thr'[t].raw # NoObject PROVE idOf'[thr'[t].raw] = idOf[thr'[t].raw]
  <2>1. thr'[t].raw \in Objects
    BY <1>11
  <2>2. thr'[t].raw \in pointed
    BY <1>4, <2>1 DEF Raw
  <2> QED BY <1>1, <2>1, <2>2
<1> QED BY <1>5, <1>7, <1>8, <1>9, <1>10, <1>11 DEF OneOwner, NothingDangles, UsedOnHeap

(* What a step of the thread leaves behind.                                           *)
LEMMA Turn ==
  ASSUME NEW t, Threads = {t}, TypeOK, NEW s \in ThreadState, thr' = [thr EXCEPT ![t] = s]
  PROVE  thr' \in [Threads -> ThreadState] /\ thr'[t] = s
BY DEF TypeOK

(* A step that stores only references that were in use.                               *)
LEMMA StoresLive ==
  ASSUME NEW t, Threads = {t}, Pointed, RawOK(t),
         NEW s \in ThreadState, thr' = [thr EXCEPT ![t] = s],
         s.tmp \in Held, s.data \in Held,
         impl' \in [Handles -> Held], lookup' \in [AllIds -> Held],
         \/ UNCHANGED <<idOf, freed>>
         \/ Heap(idOf) /\ RawLives(t)
  PROVE  /\ Pointed' /\ KeepsIds /\ thr'[t] = s
         /\ \A r \in Refs : Used(r)' => Used(r)
         /\ s.raw # NoObject => idOf'[s.raw] = idOf[s.raw]
<1>1. TypeOK
  BY DEF Pointed
<1>2. thr' \in [Threads -> ThreadState] /\ thr'[t] = s
  BY <1>1, Turn
<1>3. \A r \in Refs : Used(r)' => Used(r)
  <2> SUFFICES ASSUME NEW r \in Refs, Used(r)' PROVE r \in Held
    BY NullIsNoRef DEF Held
  <2>1. CASE \E h \in Handles : impl'[h] = r
    BY <2>1
  <2>2. CASE \E i \in AllIds : lookup'[i] = r
    BY <2>2
  <2>3. CASE \E w \in Threads : thr'[w].tmp = r \/ thr'[w].data = r
    BY <1>2, <2>3
  <2> QED BY <2>1, <2>2, <2>3 DEF Used
<1>4. s.raw \in Objects \cup {NoObject}
  BY DEF ThreadState
<1>5. /\ OneOwner' /\ NothingDangles' /\ UsedOnHeap' /\ KeepsIds
      /\ idOf' \in [Objects -> AllIds \cup {NoId}]
      /\ s.raw # NoObject => idOf'[s.raw] = idOf[s.raw]
  <2>1. CASE Heap(idOf) /\ RawLives(t)
    <3>1. \A r \in Refs : ~Starts(r)
      BY <1>3 DEF Starts
    <3>2. thr[t].raw # NoObject => idOf[thr[t].raw] \in AllIds
      BY DEF RawOK
    <3> QED BY <1>2, <1>4, <2>1, <3>1, <3>2, HeapLives
  <2>2. CASE UNCHANGED <<idOf, freed>>
    <3>1. OneOwner' /\ NothingDangles'
      BY <1>3, <2>2 DEF Pointed, OneOwner, NothingDangles
    <3>2. UsedOnHeap' /\ KeepsIds
      BY <1>3, <2>2 DEF Pointed, UsedOnHeap, KeepsIds
    <3>3. idOf' \in [Objects -> AllIds \cup {NoId}]
      BY <2>2 DEF Pointed, TypeOK
    <3> QED BY <2>2, <3>1, <3>2, <3>3
  <2> QED BY <2>1, <2>2
<1>6. TypeOK'
  <2>1. Held \subseteq Refs \cup {Null}
    BY DEF Held
  <2>2. impl' \in [Handles -> Refs \cup {Null}] /\ lookup' \in [AllIds -> Refs \cup {Null}]
    BY <2>1
  <2> QED BY <1>2, <1>5, <2>2 DEF TypeOK, NothingDangles
<1> QED BY <1>2, <1>3, <1>5, <1>6 DEF Pointed

(* The bare pointer of an object that is in use came from another handle, which keeps *)
(* the object.                                                                        *)
LEMMA LentLives ==
  ASSUME NEW t, Threads = {t}, Pointed, RawOK(t),
         \A g \in Handles : g # Mine(t) => impl'[g] = impl[g],
         thr'[t].raw \in {NoObject, thr[t].raw}
  PROVE  RawLives(t)
<1> SUFFICES ASSUME NEW q \in Refs, Used(q), Object(q) = thr'[t].raw PROVE Used(q)'
  BY DEF RawLives
<1>1. Object(q) # NoObject
  BY DEF Object, Refs, Objects, NoObject
<1>2. Object(q) = thr[t].raw /\ Lent(t)
  BY <1>1 DEF RawOK, NewRaw
<1>3. PICK g \in Handles : g # Mine(t) /\ impl[g] # Null /\ Object(impl[g]) = thr[t].raw
  BY <1>2 DEF Lent
<1>4. impl[g] \in Refs /\ Used(impl[g])
  BY <1>3 DEF Pointed, TypeOK, Used
<1>5. impl[g] = q
  BY <1>2, <1>3, <1>4 DEF Pointed, OneOwner
<1> QED BY <1>3, <1>5 DEF Used

-----------------------------------------------------------------------------
(* The table: a step that changes no handle and no entry leaves it exact.             *)
LEMMA IdsStay ==
  ASSUME NEW t, Threads = {t}, Pointed', KeepsIds
  PROVE  /\ \A g \in Handles : impl'[g] # Null =>
                /\ idOf'[Object(impl'[g])] = idOf[Object(impl'[g])]
                /\ idOf'[Object(impl'[g])] \in AllIds
         /\ \A i \in AllIds : lookup'[i] # Null =>
                idOf'[Object(lookup'[i])] = idOf[Object(lookup'[i])]
         /\ thr'[t].data # Null => idOf'[Object(thr'[t].data)] = idOf[Object(thr'[t].data)]
<1>1. /\ impl' \in [Handles -> Refs \cup {Null}]
      /\ lookup' \in [AllIds -> Refs \cup {Null}]
      /\ thr' \in [Threads -> ThreadState]
  BY DEF Pointed, TypeOK
<1>2. thr'[t].data \in Refs \cup {Null}
  BY <1>1 DEF ThreadState
<1>3. ASSUME NEW g \in Handles, impl'[g] # Null
      PROVE  /\ idOf'[Object(impl'[g])] = idOf[Object(impl'[g])]
             /\ idOf'[Object(impl'[g])] \in AllIds
  <2>1. PICK r \in Refs : r = impl'[g] /\ Used(r)'
    BY <1>1, <1>3 DEF Used
  <2> QED BY <2>1 DEF KeepsIds, Pointed, UsedOnHeap
<1>4. ASSUME NEW i \in AllIds, lookup'[i] # Null
      PROVE  idOf'[Object(lookup'[i])] = idOf[Object(lookup'[i])]
  <2>1. PICK r \in Refs : r = lookup'[i] /\ Used(r)'
    BY <1>1, <1>4 DEF Used
  <2> QED BY <2>1 DEF KeepsIds
<1>5. ASSUME thr'[t].data # Null
      PROVE  idOf'[Object(thr'[t].data)] = idOf[Object(thr'[t].data)]
  <2>1. PICK r \in Refs : r = thr'[t].data /\ Used(r)'
    BY <1>2, <1>5 DEF Used
  <2> QED BY <2>1 DEF KeepsIds
<1> QED BY <1>3, <1>4, <1>5

LEMMA MoveTable ==
  ASSUME NEW t, Threads = {t}, CInv(t), Pointed', KeepsIds,
         UNCHANGED <<impl, lookup>>,
         \/ thr[t].pc = "idle"
         \/ thr[t].pc # "idle" /\ thr'[t].pc # "idle" /\ thr'[t].h = thr[t].h
         \/ thr[t].pc # "idle" /\ thr'[t].pc = "idle" /\ Known(Mine(t)),
         thr'[t].pc # "idle" => thr'[t].h \in Handles
  PROVE  /\ Table(t)'
         /\ \A g \in Handles : Known(g)' <=> Known(g)
         /\ \A g \in Handles : impl[g] # Null => IdAt(impl[g])' = IdAt(impl[g])
<1>1. \A g \in Handles : impl[g] # Null => IdAt(impl[g])' = IdAt(impl[g])
  BY IdsStay DEF IdAt
<1>2. \A g \in Handles : Known(g)' <=> Known(g)
  BY <1>1 DEF Known
<1>3. TableOK'
  BY IdsStay DEF CInv, Table, TableOK, IdAt
<1>4. OthersKnown(t)'
  BY <1>2 DEF CInv, Table, OthersKnown, Mine, At
<1>5. MineOK(t)'
  <2> SUFFICES ASSUME NEW h \in Handles, thr'[t].h = h, thr'[t].pc # "idle", impl[h] # Null
               PROVE  lookup[IdAt(impl[h])] \in {Null, impl[h]}
    BY <1>1 DEF MineOK, Current, Mine, IdAt
  <2>1. CASE thr[t].pc = "idle"
    <3>1. Known(h)
      BY <2>1 DEF CInv, Table, OthersKnown, At
    <3> QED BY <3>1 DEF Known
  <2>2. CASE thr[t].pc # "idle"
    <3>1. thr[t].h = h
      BY <2>2
    <3> QED BY <2>2, <3>1 DEF CInv, Table, MineOK, Current, Mine
  <2> QED BY <2>1, <2>2
<1> QED BY <1>1, <1>2, <1>3, <1>4, <1>5 DEF Table

(* A call starts.                                                                     *)
LEMMA StartKeeps ==
  ASSUME NEW t, Threads = {t}, CInv(t), NEW s, Start(t, s), Shape(s),
         s.pc \in {"check", "drop", "unregisterLast", "release"},
         s.tmp = Null, s.data \in Held,
         s.raw # NoObject =>
             /\ s.pc = "drop" /\ s.then = "registered"
             /\ idOf[s.raw] \in AllIds /\ s.id = idOf[s.raw]
             /\ \E g \in Handles : g # s.h /\ impl[g] # Null /\ Object(impl[g]) = s.raw,
         s.pc = "unregisterLast" =>
             /\ impl[s.h] # Null /\ s.id = IdAt(impl[s.h])
             /\ \A g \in Handles : g # s.h => impl[g] # impl[s.h],
         s.data # Null => lookup[IdAt(s.data)] = s.data
  PROVE  CInv(t)' /\ KeepsIds
<1>1. Pointed /\ RawOK(t) /\ thr[t].pc = "idle" /\ s \in ThreadState
  BY DEF CInv, Start, At, Shape
<1>2. thr' = [thr EXCEPT ![t] = s] /\ UNCHANGED <<impl, lookup, idOf, freed>>
  BY DEF Start, Become
<1>3. impl' \in [Handles -> Held] /\ lookup' \in [AllIds -> Held] /\ s.tmp \in Held
  BY <1>1, <1>2, HeldAll DEF Pointed, Held
<1>4. Pointed' /\ KeepsIds /\ thr'[t] = s
  BY <1>1, <1>2, <1>3, StoresLive
<1>5. s.h \in Handles
  BY DEF Shape
<1>6. /\ Table(t)'
      /\ \A g \in Handles : Known(g)' <=> Known(g)
  BY <1>1, <1>2, <1>4, <1>5, MoveTable
<1>7. Known(s.h)
  BY <1>1, <1>5 DEF CInv, Table, OthersKnown, At
<1>8. RawOK(t)'
  BY <1>2, <1>4 DEF RawOK, Lent, Mine, Dropping
<1>9. PlaceOK(t)'
  <2>1. Lone(t)' \/ s.pc # "unregisterLast"
    <3>1. s.pc = "unregisterLast" => s.data = Null
      BY DEF Shape, Dropping
    <3> QED BY <1>2, <1>4, <3>1 DEF Lone, Current, Mine
  <2>2. s.pc = "unregisterLast" => s.id = IdAt(Current(t))'
    BY <1>2, <1>4 DEF Current, Mine, IdAt
  <2>3. s.data # Null => lookup'[IdAt(thr[t].data)'] = s.data
    BY <1>2, <1>4 DEF IdAt
  <2>4. Known(Mine(t))'
    BY <1>4, <1>5, <1>6, <1>7 DEF Mine, Known
  <2> QED BY <1>4, <2>1, <2>2, <2>3, <2>4 DEF PlaceOK, At
<1> QED BY <1>4, <1>6, <1>8, <1>9 DEF CInv

(* A new object gets a place that nothing points to, and an id that has no entry.     *)
LEMMA AllocKeeps ==
  ASSUME NEW t, Threads = {t}, CInv(t), FreeObjects # {},
         NEW i \in AllIds, lookup[i] = Null,
         idOf' = [idOf EXCEPT ![NewObject] = i], UNCHANGED <<impl, lookup, freed>>,
         NEW s, thr' = [thr EXCEPT ![t] = s], Shape(s),
         s.pc = "drop", s.raw = NewObject, s.tmp = Null, s.data = Null,
         thr[t].pc = "idle" \/ (thr[t].pc # "idle" /\ s.h = thr[t].h)
  PROVE  CInv(t)' /\ KeepsIds
<1> DEFINE n == NewObject
<1>1. n \in Objects /\ idOf[n] = NoId
  <2>1. FreeObjects \in SUBSET Nat
    BY BoundsAssumption DEF FreeObjects, Objects
  <2>2. Min(FreeObjects) \in FreeObjects
    BY <2>1, LeastNumber
  <2> QED BY <2>2 DEF NewObject, FreeObjects
<1>2. NoId \notin AllIds
  BY IdsAssumption DEF AllIds
<1>3. Pointed /\ TypeOK /\ s \in ThreadState
  BY DEF CInv, Shape, Pointed
<1>4. thr' \in [Threads -> ThreadState] /\ thr'[t] = s
  BY <1>3, Turn
<1> HIDE DEF n
<1>5. idOf' = [idOf EXCEPT ![n] = i] /\ s.raw = n
  BY DEF n
<1>6. \A r \in Refs : Used(r)' => Used(r)
  BY <1>4, NullIsNoRef DEF Used
<1>7. \A r \in Refs : Used(r) => Object(r) # n
  BY <1>1, <1>2 DEF CInv, Pointed, UsedOnHeap
<1>8. KeepsIds
  <2> SUFFICES ASSUME NEW r \in Refs, Used(r)' PROVE idOf'[Object(r)] = idOf[Object(r)]
    BY DEF KeepsIds
  <2>1. Object(r) \in Objects /\ Object(r) # n
    BY <1>6, <1>7 DEF Object, Refs
  <2> QED BY <1>3, <1>5, <2>1 DEF TypeOK
<1>9. Pointed'
  <2>1. OneOwner'
    BY <1>6 DEF CInv, Pointed, OneOwner
  <2>2. UsedOnHeap'
    BY <1>6, <1>8 DEF CInv, Pointed, UsedOnHeap, KeepsIds
  <2>3. idOf' \in [Objects -> AllIds \cup {NoId}]
    BY <1>3, <1>5 DEF TypeOK
  <2>4. TypeOK' /\ NothingDangles'
    BY <1>3, <1>4, <2>3 DEF TypeOK, Pointed, NothingDangles
  <2> QED BY <2>1, <2>2, <2>4 DEF Pointed
<1>10. s.h \in Handles
  BY DEF Shape
<1>11. Table(t)'
  BY <1>4, <1>8, <1>9, <1>10, MoveTable
<1>12. RawOK(t)'
  <2>1. idOf'[n] = i
    BY <1>1, <1>3, <1>5 DEF TypeOK
  <2>2. NewRaw(t)'
    BY <1>4, <1>5, <1>6, <1>7, <2>1 DEF NewRaw
  <2> QED BY <1>4, <1>5, <2>1, <2>2 DEF RawOK
<1>13. PlaceOK(t)'
  BY <1>4 DEF PlaceOK, At
<1> QED BY <1>4, <1>8, <1>9, <1>11, <1>12, <1>13 DEF CInv

-----------------------------------------------------------------------------
(* use_count() of an object that is in the table: it tells whether one more refers    *)
(* to the object.                                                                     *)
Another(h, r) == \E g \in Handles : g # h /\ impl[g] = r

LEMMA Members ==
  ASSUME NEW S, IsFiniteSet(S), NEW T \in SUBSET S, NEW a \in T
  PROVE  /\ Cardinality(T) \in Nat /\ Cardinality(T) >= 1
         /\ \A b \in T : b # a => Cardinality(T) >= 2
<1>1. IsFiniteSet(T) /\ Cardinality(T) \in Nat
  BY FS_Subset, FS_CardinalityType
<1>2. Cardinality({a}) = 1 /\ {a} \in SUBSET T
  BY FS_Singleton
<1>3. Cardinality(T) >= 1
  BY <1>1, <1>2, FS_Subset
<1>4. ASSUME NEW b \in T, b # a PROVE Cardinality(T) >= 2
  <2>1. IsFiniteSet({a}) /\ Cardinality({a} \cup {b}) = 2
    <3>1. IsFiniteSet({a}) /\ b \notin {a}
      BY <1>4, FS_Singleton
    <3> QED BY <1>2, <3>1, FS_AddElement
  <2>2. {a} \cup {b} \in SUBSET T
    OBVIOUS
  <2> QED BY <1>1, <2>1, <2>2, FS_Subset
<1> QED BY <1>1, <1>3, <1>4

LEMMA UseCount ==
  ASSUME NEW r \in Refs, NEW h \in Handles, impl[h] = r, NEW i \in AllIds, lookup[i] = r
  PROVE  /\ Count(r) \in Nat
         /\ Another(h, r) => Count(r) >= 3
         /\ \A t \in Threads : thr[t].tmp = r /\ (Another(h, r) \/ thr[t].data = r) =>
                Count(r) >= 4
<1> DEFINE H == {g \in Handles : impl[g] = r}
           L == {j \in AllIds : lookup[j] = r}
           M == {t \in Threads : thr[t].tmp = r}
           D == {t \in Threads : thr[t].data = r}
<1>1. Count(r) = Cardinality(H) + Cardinality(L) + Cardinality(M) + Cardinality(D)
  BY NullIsNoRef DEF Count
<1>2. H \in SUBSET Handles /\ L \in SUBSET AllIds /\ M \in SUBSET Threads /\ D \in SUBSET Threads
  OBVIOUS
<1>3. h \in H /\ i \in L
  OBVIOUS
<1>4. Another(h, r) => \E g \in H : g # h
  BY DEF Another
<1>5. \A t \in Threads : (thr[t].tmp = r => t \in M) /\ (thr[t].data = r => t \in D)
  OBVIOUS
<1> HIDE DEF H, L, M, D
<1>6. /\ Cardinality(H) \in Nat /\ Cardinality(H) >= 1
      /\ Another(h, r) => Cardinality(H) >= 2
  BY <1>2, <1>3, <1>4, FiniteSets, Members
<1>7. Cardinality(L) \in Nat /\ Cardinality(L) >= 1
  BY <1>2, <1>3, FiniteSets, Members
<1>8. Cardinality(M) \in Nat /\ Cardinality(D) \in Nat
  BY <1>2, FiniteSets, PartCount
<1>9. ASSUME NEW t \in Threads
      PROVE  /\ thr[t].tmp = r => Cardinality(M) >= 1
             /\ thr[t].data = r => Cardinality(D) >= 1
  BY <1>2, <1>5, FiniteSets, Members
<1> QED BY <1>1, <1>6, <1>7, <1>8, <1>9

-----------------------------------------------------------------------------
(* The calls.                                                                         *)
(* At most one handle changes in a step.                                              *)
OneHandle ==
    impl' = impl \/ \E h \in Handles, r \in Refs \cup {Null} : impl' = [impl EXCEPT ![h] = r]

Kept(t) == CInv(t)' /\ KeepsIds /\ OneHandle

(* The handles are all in the table when a call starts.                               *)
LEMMA CallsKept ==
  ASSUME NEW t, Threads = {t}, CInv(t), NEW h \in Handles, At(t, "idle"),
         \/ \E i \in Ids : Prepare(t, h, i) \/ PrepareIid(t, h, i)
         \/ Destroy(t, h)
         \/ SetNull(t, h)
         \/ \E i \in NewIds : PrepareInternal(t, h, i) \/ PrepareNew(t, h, i)
         \/ \E g \in Handles : h # g /\ Assign(t, h, g)
  PROVE  Kept(t)
<1>1. impl \in [Handles -> Refs \cup {Null}] /\ lookup \in [AllIds -> Refs \cup {Null}]
  BY DEF CInv, Pointed, TypeOK
<1>2. NoObject \in Objects \cup {NoObject} /\ Null \in Refs \cup {Null} /\ Null \in Held
  BY DEF Held
<1>3. impl \in [Handles -> Held] /\ lookup \in [AllIds -> Held]
  BY HeldAll DEF CInv, Pointed
<1>4. \A g \in Handles : Known(g)
  BY DEF CInv, Table, OthersKnown
<1>5. \A g \in Handles : impl[g] # Null =>
         /\ Object(impl[g]) \in Objects /\ Object(impl[g]) # NoObject
         /\ idOf[Object(impl[g])] \in AllIds
  <2> SUFFICES ASSUME NEW g \in Handles, impl[g] # Null
               PROVE  /\ Object(impl[g]) \in Objects /\ Object(impl[g]) # NoObject
                      /\ idOf[Object(impl[g])] \in AllIds
    OBVIOUS
  <2>1. impl[g] \in Refs /\ Used(impl[g])
    BY <1>1 DEF Used
  <2> QED BY <2>1 DEF CInv, Pointed, UsedOnHeap, Object, Refs, Objects, NoObject
<1>6. ASSUME NEW s, Start(t, s) PROVE OneHandle
  BY <1>6 DEF Start, OneHandle
<1>7. ASSUME NEW s, Start(t, s), s \in ThreadState, s.h = h,
             s.tmp = Null, s.data = Null, s.raw = NoObject,
             \/ s.pc = "check" /\ s.id \in AllIds
             \/ s.pc = "drop" /\ s.then = "reset"
             \/ s.pc = "drop" /\ s.then = "check" /\ s.id \in NewIds
             \/ s.pc = "release"
             \/ /\ s.pc = "unregisterLast" /\ impl[h] # Null
                /\ s.id = idOf[Object(impl[h])] /\ ~Another(h, impl[h])
      PROVE  Kept(t)
  <2>1. NewIds \subseteq AllIds
    BY DEF AllIds
  <2>2. Shape(s)
    BY <1>5, <1>7, <2>1 DEF Shape, Dropping, Then
  <2>3. s.pc = "unregisterLast" =>
           /\ impl[s.h] # Null /\ s.id = IdAt(impl[s.h])
           /\ \A g \in Handles : g # s.h => impl[g] # impl[s.h]
    BY <1>7 DEF IdAt, Another
  <2>4. s.pc \in {"check", "drop", "unregisterLast", "release"}
    BY <1>7
  <2> QED BY <1>2, <1>6, <1>7, <2>2, <2>3, <2>4, StartKeeps DEF Kept
<1>8. CASE \E i \in Ids : Prepare(t, h, i) \/ PrepareIid(t, h, i)
  <2>1. PICK i \in Ids : Prepare(t, h, i) \/ PrepareIid(t, h, i)
    BY <1>8
  <2>2. i \in AllIds
    BY DEF AllIds
  <2>3. CASE Prepare(t, h, i)
    <3> DEFINE s == Call(h, i, "check")
    <3>1. /\ s \in ThreadState /\ s.pc = "check" /\ s.h = h /\ s.id = i
          /\ s.raw = NoObject /\ s.tmp = Null /\ s.data = Null
      BY <2>2 DEF Call, ThreadState, Steps
    <3> HIDE DEF s
    <3>2. Start(t, s)
      BY <2>3 DEF Prepare, s
    <3> QED BY <1>7, <2>2, <3>1, <3>2
  <2>4. CASE PrepareIid(t, h, i)
    <3> DEFINE s == [Call(h, i, "check") EXCEPT !.iid = TRUE]
    <3>1. /\ s \in ThreadState /\ s.pc = "check" /\ s.h = h /\ s.id = i
          /\ s.raw = NoObject /\ s.tmp = Null /\ s.data = Null
      BY <2>2 DEF Call, ThreadState, Steps
    <3> HIDE DEF s
    <3>2. Start(t, s)
      BY <2>4 DEF PrepareIid, s
    <3> QED BY <1>7, <2>2, <3>1, <3>2
  <2> QED BY <2>1, <2>3, <2>4
<1>9. CASE SetNull(t, h)
  <2> DEFINE s == [Call(h, NoId, "drop") EXCEPT !.then = "reset"]
  <2>1. /\ s \in ThreadState /\ s.pc = "drop" /\ s.h = h /\ s.then = "reset"
        /\ s.raw = NoObject /\ s.tmp = Null /\ s.data = Null
    BY DEF Call, ThreadState, Steps
  <2> HIDE DEF s
  <2>2. Start(t, s)
    BY <1>9 DEF SetNull, s
  <2> QED BY <1>7, <2>1, <2>2
<1>10. ASSUME NEW i \in NewIds, PrepareNew(t, h, i) PROVE Kept(t)
  <2> DEFINE s == [Call(h, i, "drop") EXCEPT !.then = "check"]
  <2>1. i \in AllIds
    BY DEF AllIds
  <2>2. /\ s \in ThreadState /\ s.pc = "drop" /\ s.h = h /\ s.then = "check" /\ s.id = i
        /\ s.raw = NoObject /\ s.tmp = Null /\ s.data = Null
    BY <2>1 DEF Call, ThreadState, Steps
  <2> HIDE DEF s
  <2>3. Start(t, s)
    BY <1>10 DEF PrepareNew, s
  <2> QED BY <1>7, <2>2, <2>3
<1>11. ASSUME NEW i \in NewIds, PrepareInternal(t, h, i) PROVE Kept(t)
  <2> DEFINE s == [Call(h, i, "drop") EXCEPT !.data = lookup[i], !.then = "take"]
  <2>1. i \in AllIds /\ lookup[i] # Null
    BY <1>11 DEF AllIds, PrepareInternal, Registered
  <2>2. lookup[i] \in Refs \cup {Null} /\ lookup[i] \in Held
    BY <1>1, <1>3, <2>1
  <2>3. /\ s \in ThreadState /\ s.pc = "drop" /\ s.h = h /\ s.then = "take"
        /\ s.raw = NoObject /\ s.tmp = Null /\ s.data = lookup[i]
    BY <2>1, <2>2 DEF Call, ThreadState, Steps
  <2> HIDE DEF s
  <2>4. Start(t, s)
    BY <1>11 DEF PrepareInternal, s
  <2>5. Shape(s)
    BY <2>1, <2>3 DEF Shape, Dropping, Then
  <2>6. IdAt(lookup[i]) = i
    BY <2>1 DEF CInv, Table, TableOK
  <2> QED BY <1>6, <2>2, <2>3, <2>4, <2>5, <2>6, StartKeeps DEF Kept
<1>12. ASSUME NEW g \in Handles, h # g, Assign(t, h, g) PROVE Kept(t)
  <2> DEFINE o == Object(impl[g])
             s == [Call(h, idOf[o], "drop") EXCEPT !.raw = o, !.then = "registered"]
  <2>1. impl[g] # Null /\ o \in Objects /\ o # NoObject /\ idOf[o] \in AllIds
    BY <1>5, <1>12 DEF Assign
  <2>2. Start(t, s)
    BY <1>12 DEF Assign
  <2>3. \E f \in Handles : f # h /\ impl[f] # Null /\ Object(impl[f]) = o
    BY <1>12, <2>1
  <2> HIDE DEF o
  <2>4. /\ s \in ThreadState /\ s.pc = "drop" /\ s.h = h /\ s.then = "registered"
        /\ s.id = idOf[o] /\ s.raw = o /\ s.tmp = Null /\ s.data = Null
    BY <2>1 DEF Call, ThreadState, Steps
  <2> HIDE DEF s
  <2>5. Shape(s)
    BY <2>1, <2>4 DEF Shape, Dropping, Then
  <2> QED BY <1>2, <1>6, <2>1, <2>2, <2>3, <2>4, <2>5, StartKeeps DEF Kept
<1>13. CASE Destroy(t, h)
  <2> DEFINE i == idOf[Object(impl[h])]
  <2>1. impl[h] # Null /\ i \in AllIds
    BY <1>5, <1>13 DEF Destroy
  <2>2. \/ Start(t, Call(h, i, "release"))
        \/ Start(t, Call(h, i, "unregisterLast")) /\ Count(impl[h]) = 2
    BY <1>13 DEF Destroy
  <2>3. i = idOf[Object(impl[h])]
    OBVIOUS
  <2> HIDE DEF i
  <2>4. Count(impl[h]) = 2 => ~Another(h, impl[h])
    <3>1. lookup[i] = impl[h] /\ impl[h] \in Refs
      BY <1>1, <1>4, <2>1, <2>3 DEF Known, IdAt
    <3> QED BY <2>1, <3>1, UseCount
  <2>5. ASSUME NEW pc \in {"release", "unregisterLast"}, Start(t, Call(h, i, pc)),
               pc = "unregisterLast" => ~Another(h, impl[h])
        PROVE  Kept(t)
    <3> DEFINE s == Call(h, i, pc)
    <3>1. /\ s \in ThreadState /\ s.pc = pc /\ s.h = h /\ s.id = i
          /\ s.raw = NoObject /\ s.tmp = Null /\ s.data = Null
      BY <2>1 DEF Call, ThreadState, Steps
    <3>2. Start(t, s)
      BY <2>5
    <3> HIDE DEF s
    <3> QED BY <1>7, <2>1, <2>3, <2>5, <3>1, <3>2
  <2> QED BY <2>2, <2>4, <2>5
<1> QED BY <1>8, <1>9, <1>10, <1>11, <1>12, <1>13

(* set(new T), and the making of an object in prepare().                              *)
LEMMA SetNewKept ==
  ASSUME NEW t, Threads = {t}, CInv(t), NEW h \in Handles, NEW i \in NewIds, SetNew(t, h, i)
  PROVE  Kept(t)
<1> DEFINE n == NewObject
           s == [Call(h, i, "drop") EXCEPT !.raw = n, !.then = "registered"]
<1>1. /\ thr[t].pc = "idle" /\ FreeObjects # {} /\ idOf' = [idOf EXCEPT ![NewObject] = i]
      /\ UNCHANGED <<impl, lookup, freed>> /\ thr' = [thr EXCEPT ![t] = s]
  BY DEF SetNew, At, Become
<1>2. i \in AllIds
  BY DEF AllIds
<1>3. lookup[i] = Null
  <2>1. lookup[i] \in Refs \cup {Null} /\ \A o \in Objects : idOf[o] # i
    BY <1>2 DEF CInv, Pointed, TypeOK, SetNew, Unused
  <2>2. lookup[i] # Null => IdAt(lookup[i]) = i
    BY <1>2 DEF CInv, Table, TableOK
  <2> QED BY <2>1, <2>2 DEF IdAt, Object, Refs
<1>4. n \in Objects /\ n # NoObject
  <2>1. FreeObjects \in SUBSET Nat
    BY BoundsAssumption DEF FreeObjects, Objects
  <2>2. Min(FreeObjects) \in FreeObjects
    BY <1>1, <2>1, LeastNumber
  <2> QED BY <2>2 DEF NewObject, FreeObjects, Objects, NoObject
<1> HIDE DEF n
<1>5. /\ s \in ThreadState /\ s.pc = "drop" /\ s.h = h /\ s.then = "registered" /\ s.id = i
      /\ s.raw = n /\ s.tmp = Null /\ s.data = Null
  BY <1>2, <1>4 DEF Call, ThreadState, Steps
<1> HIDE DEF s
<1>6. Shape(s)
  BY <1>2, <1>4, <1>5 DEF Shape, Dropping, Then
<1>7. CInv(t)' /\ KeepsIds
  BY <1>1, <1>2, <1>3, <1>5, <1>6, AllocKeeps DEF n
<1> QED BY <1>1, <1>7 DEF Kept, OneHandle

LEMMA CreateKept ==
  ASSUME NEW t, Threads = {t}, CInv(t), Create(t)
  PROVE  Kept(t)
<1> DEFINE n == NewObject
           s == [thr[t] EXCEPT !.pc = "drop", !.raw = n, !.then = "own"]
<1>1. /\ thr[t].pc = "create" /\ FreeObjects # {}
      /\ idOf' = [idOf EXCEPT ![NewObject] = thr[t].id]
      /\ UNCHANGED <<impl, lookup, freed>> /\ thr' = [thr EXCEPT ![t] = s]
  BY DEF Create, At
<1>2. /\ thr[t] \in ThreadState /\ thr[t].id \in AllIds /\ thr[t].h \in Handles
      /\ thr[t].data = Null /\ thr[t].tmp = Null
  BY <1>1 DEF CInv, Shape, Dropping
<1>3. lookup[thr[t].id] = Null
  BY <1>1 DEF CInv, PlaceOK, At
<1>4. n \in Objects /\ n # NoObject
  <2>1. FreeObjects \in SUBSET Nat
    BY BoundsAssumption DEF FreeObjects, Objects
  <2>2. Min(FreeObjects) \in FreeObjects
    BY <1>1, <2>1, LeastNumber
  <2> QED BY <2>2 DEF NewObject, FreeObjects, Objects, NoObject
<1> HIDE DEF n
<1>5. /\ s \in ThreadState /\ s.pc = "drop" /\ s.h = thr[t].h /\ s.then = "own"
      /\ s.raw = n /\ s.tmp = Null /\ s.data = Null
  BY <1>2, <1>4 DEF ThreadState, Steps
<1> HIDE DEF s
<1>6. Shape(s)
  BY <1>2, <1>4, <1>5 DEF Shape, Dropping, Then
<1>7. CInv(t)' /\ KeepsIds
  BY <1>1, <1>2, <1>3, <1>5, <1>6, AllocKeeps DEF n
<1> QED BY <1>1, <1>7 DEF Kept, OneHandle

-----------------------------------------------------------------------------
(* Steps in a call that change the place of the thread and its local variables only.  *)
LEMMA MoveKept ==
  ASSUME NEW t, Threads = {t}, CInv(t), thr[t].pc # "idle",
         UNCHANGED <<impl, lookup>>, Heap(idOf) \/ UNCHANGED <<idOf, freed>>,
         NEW s, thr' = [thr EXCEPT ![t] = s], Shape(s),
         s.pc \in Steps \ {"idle", "ok", "register", "unregisterLast"},
         s.h = thr[t].h, s.id = thr[t].id, s.data = thr[t].data, s.then = thr[t].then,
         s.tmp \in Held, s.raw \in {NoObject, thr[t].raw},
         s.pc \in Dropping => thr[t].pc \in Dropping,
         s.pc = "own" => NewRaw(t),
         s.pc \in {"check", "create"} /\ s.id \in Ids => Known(Mine(t)),
         s.pc = "create" => lookup[s.id] = Null,
         s.pc = "count" => Current(t) # Null /\ s.tmp = lookup[IdAt(Current(t))],
         s.pc = "unregister" => Lone(t)
  PROVE  Kept(t)
<1>1. Pointed /\ RawOK(t) /\ s \in ThreadState /\ TypeOK /\ s.h \in Handles
  BY DEF CInv, Shape, Pointed
<1>2. thr' \in [Threads -> ThreadState] /\ thr'[t] = s
  BY <1>1, Turn
<1>3. impl' \in [Handles -> Held] /\ lookup' \in [AllIds -> Held] /\ s.data \in Held
  BY <1>1, HeldAll
<1>4. RawLives(t)
  BY <1>1, <1>2, LentLives
<1>5. /\ Pointed' /\ KeepsIds
      /\ \A r \in Refs : Used(r)' => Used(r)
      /\ s.raw # NoObject => idOf'[s.raw] = idOf[s.raw]
  BY <1>1, <1>3, <1>4, StoresLive
<1>6. /\ Table(t)'
      /\ \A g \in Handles : Known(g)' <=> Known(g)
      /\ \A g \in Handles : impl[g] # Null => IdAt(impl[g])' = IdAt(impl[g])
  BY <1>1, <1>2, <1>5, MoveTable
<1>7. RawOK(t)'
  <2> SUFFICES ASSUME s.raw # NoObject
               PROVE  idOf'[s.raw] \in AllIds /\ (NewRaw(t)' \/ Lent(t)')
    BY <1>2 DEF RawOK
  <2>1. s.raw = thr[t].raw /\ idOf'[s.raw] = idOf[s.raw] /\ idOf[s.raw] \in AllIds
    BY <1>1, <1>5 DEF RawOK
  <2>2. CASE NewRaw(t)
    BY <1>2, <1>5, <2>1, <2>2 DEF NewRaw
  <2>3. CASE Lent(t) /\ s.pc # "own"
    BY <1>2, <2>1, <2>3 DEF Lent, Mine
  <2> QED BY <1>1, <2>1, <2>2, <2>3 DEF RawOK
<1>8. PlaceOK(t)'
  <2>1. Known(Mine(t))' <=> Known(Mine(t))
    BY <1>1, <1>2, <1>6 DEF Mine, Known
  <2>2. Current(t)' = Current(t) /\ (Current(t) # Null => IdAt(Current(t))' = IdAt(Current(t)))
    BY <1>1, <1>2, <1>6 DEF Current, Mine, IdAt
  <2>3. Lone(t) => Lone(t)'
    BY <1>2, <2>2 DEF Lone, Mine
  <2>4. s.data # Null => lookup'[IdAt(thr[t].data)'] = s.data
    <3> SUFFICES ASSUME s.data # Null PROVE lookup[idOf'[Object(s.data)]] = s.data
      BY <1>2 DEF IdAt
    <3>1. idOf'[Object(s.data)] = idOf[Object(s.data)]
      BY <1>2, <1>5, IdsStay
    <3> QED BY <3>1 DEF CInv, PlaceOK, IdAt
  <2> QED BY <1>2, <2>1, <2>2, <2>3, <2>4 DEF PlaceOK, At
<1>9. OneHandle
  BY DEF OneHandle
<1> QED BY <1>2, <1>5, <1>6, <1>7, <1>8, <1>9 DEF CInv, Kept

(* Where removeCurrent() returns to; a bare pointer that is owned now is a new one's. *)
LEMMA ReturnsTo ==
  ASSUME NEW t, Threads = {t}, CInv(t), thr[t].pc \in {"drop", "dropped"},
         NEW s, s \in ThreadState, s.pc = thr[t].then, s.tmp = Null,
         s.h = thr[t].h, s.id = thr[t].id, s.data = thr[t].data, s.then = thr[t].then,
         s.raw = thr[t].raw
  PROVE  /\ Shape(s)
         /\ s.pc \in {"own", "take", "check", "registered", "reset"}
         /\ s.pc = "own" => NewRaw(t)
         /\ s.pc = "check" => s.id \notin Ids
<1>1. Shape(thr[t])
  BY DEF CInv
<1>2. s.pc \in Then /\ thr[t].pc \in Dropping
  BY <1>1 DEF Shape, Dropping
<1>3. Shape(s)
  BY <1>1, <1>2 DEF Shape, Dropping, Then
<1>4. s.pc = "own" => NewRaw(t)
  BY <1>1, <1>2 DEF CInv, RawOK, Lent, Shape
<1>5. s.pc = "check" => s.id \notin Ids
  BY <1>1, <1>2, IdsAssumption DEF Shape
<1> QED BY <1>2, <1>3, <1>4, <1>5 DEF Then

LEMMA DropKept ==
  ASSUME NEW t, Threads = {t}, CInv(t), Drop(t)
  PROVE  Kept(t)
<1>1. /\ thr[t].pc = "drop" /\ UNCHANGED <<impl, lookup>> /\ Heap(idOf)
      /\ thr[t] \in ThreadState /\ thr[t].h \in Handles /\ Shape(thr[t])
      /\ thr[t].tmp = Null
  BY DEF Drop, At, CInv, Shape
<1>2. TypeOK /\ Null \in Held
  BY DEF CInv, Pointed, Held
<1>3. CASE Current(t) = Null
  <2> DEFINE s == [thr[t] EXCEPT !.pc = thr[t].then]
  <2>1. thr' = [thr EXCEPT ![t] = s]
    BY <1>3 DEF Drop
  <2>2. /\ s \in ThreadState /\ s.pc = thr[t].then /\ s.tmp = Null /\ s.h = thr[t].h
        /\ s.id = thr[t].id /\ s.data = thr[t].data /\ s.then = thr[t].then
        /\ s.raw = thr[t].raw
    BY <1>1 DEF ThreadState
  <2> HIDE DEF s
  <2>3. /\ Shape(s)
        /\ s.pc \in {"own", "take", "check", "registered", "reset"}
        /\ s.pc = "own" => NewRaw(t)
        /\ s.pc = "check" => s.id \notin Ids
    BY <1>1, <2>2, ReturnsTo
  <2> QED BY <1>1, <1>2, <2>1, <2>2, <2>3, MoveKept DEF Steps, Dropping
<1>4. CASE Current(t) # Null
  <2> DEFINE r == lookup[idOf[Object(Current(t))]]
             s == [thr[t] EXCEPT !.pc = "count", !.tmp = r]
  <2>1. thr' = [thr EXCEPT ![t] = s]
    BY <1>4 DEF Drop
  <2>2. r \in Held /\ r \in Refs \cup {Null}
    <3>1. Current(t) \in Refs
      BY <1>1, <1>2, <1>4 DEF TypeOK, Current, Mine
    <3>2. Used(Current(t))
      BY <1>1 DEF Used, Current, Mine
    <3>3. idOf[Object(Current(t))] \in AllIds
      BY <3>1, <3>2 DEF CInv, Pointed, UsedOnHeap
    <3> QED BY <1>2, <3>3, HeldAll DEF TypeOK
  <2>3. r = lookup[IdAt(Current(t))]
    BY DEF IdAt
  <2> HIDE DEF r
  <2>4. /\ s \in ThreadState /\ s.pc = "count" /\ s.tmp = r /\ s.h = thr[t].h
        /\ s.id = thr[t].id /\ s.data = thr[t].data /\ s.then = thr[t].then
        /\ s.raw = thr[t].raw
    BY <1>1, <2>2 DEF ThreadState, Steps
  <2> HIDE DEF s
  <2>5. Shape(s)
    BY <1>1, <2>4 DEF Shape, Dropping
  <2> QED BY <1>1, <1>4, <2>1, <2>2, <2>3, <2>4, <2>5, MoveKept DEF Steps, Dropping
<1> QED BY <1>3, <1>4

LEMMA DroppedKept ==
  ASSUME NEW t, Threads = {t}, CInv(t), Dropped(t)
  PROVE  Kept(t)
<1> DEFINE s == [thr[t] EXCEPT !.pc = thr[t].then, !.tmp = Null]
<1>1. /\ thr[t].pc = "dropped" /\ UNCHANGED <<impl, lookup>> /\ Heap(idOf)
      /\ thr[t] \in ThreadState /\ Null \in Held
  BY DEF Dropped, At, CInv, Shape, Held
<1>2. thr' = [thr EXCEPT ![t] = s]
  BY DEF Dropped
<1>3. /\ s \in ThreadState /\ s.pc = thr[t].then /\ s.tmp = Null /\ s.h = thr[t].h
      /\ s.id = thr[t].id /\ s.data = thr[t].data /\ s.then = thr[t].then
      /\ s.raw = thr[t].raw
  BY <1>1 DEF ThreadState
<1> HIDE DEF s
<1>4. /\ Shape(s)
      /\ s.pc \in {"own", "take", "check", "registered", "reset"}
      /\ s.pc = "own" => NewRaw(t)
      /\ s.pc = "check" => s.id \notin Ids
  BY <1>1, <1>3, ReturnsTo
<1> QED BY <1>1, <1>2, <1>3, <1>4, MoveKept DEF Steps, Dropping

(* Steps that only go on.                                                             *)
LEMMA GoesOn ==
  ASSUME NEW t, Threads = {t}, CInv(t), NEW pc \in Steps
  PROVE  LET s == [thr[t] EXCEPT !.pc = pc]
         IN  /\ s \in ThreadState /\ s.pc = pc /\ s.tmp = thr[t].tmp /\ s.h = thr[t].h
             /\ s.id = thr[t].id /\ s.data = thr[t].data /\ s.then = thr[t].then
             /\ s.raw = thr[t].raw /\ s.tmp \in Held /\ s.data \in Held
             /\ Goto(t, pc) => thr' = [thr EXCEPT ![t] = s]
<1> DEFINE s == [thr[t] EXCEPT !.pc = pc]
<1>1. TypeOK /\ thr[t] \in ThreadState
  BY DEF CInv, Pointed, Shape
<1>2. thr[t].tmp \in Held /\ thr[t].data \in Held
  BY <1>1, HeldAll
<1>3. /\ s \in ThreadState /\ s.pc = pc /\ s.tmp = thr[t].tmp /\ s.h = thr[t].h
      /\ s.id = thr[t].id /\ s.data = thr[t].data /\ s.then = thr[t].then
      /\ s.raw = thr[t].raw
  BY <1>1 DEF ThreadState
<1>4. Goto(t, pc) => thr' = [thr EXCEPT ![t] = s]
  BY DEF Goto
<1> QED BY <1>2, <1>3, <1>4

LEMMA CountUsesKept ==
  ASSUME NEW t, Threads = {t}, CInv(t), CountUses(t)
  PROVE  Kept(t)
<1>1. thr[t].pc = "count" /\ UNCHANGED <<impl, lookup, idOf, freed>>
  BY DEF CountUses, At
<1>2. /\ Current(t) # Null /\ thr[t].tmp = lookup[IdAt(Current(t))]
      /\ thr[t].h \in Handles /\ thr[t] \in ThreadState
  BY <1>1 DEF CInv, Shape, PlaceOK, At
<1>3. Current(t) \in Refs /\ IdAt(Current(t)) \in AllIds
  <2>1. Current(t) \in Refs /\ Used(Current(t))
    BY <1>2 DEF CInv, Pointed, TypeOK, Current, Mine, Used
  <2> QED BY <2>1 DEF CInv, Pointed, UsedOnHeap, IdAt
<1>4. Count(thr[t].tmp) <= 3 => Lone(t)
  <2>1. CASE thr[t].tmp = Null
    <3>1. \A g \in Handles : g # Mine(t) => impl[g] # Current(t)
      BY <1>2, <2>1 DEF CInv, Table, OthersKnown, Known
    <3>2. thr[t].data # Current(t)
      BY <1>2, <2>1 DEF CInv, PlaceOK
    <3> QED BY <1>2, <3>1, <3>2 DEF Lone
  <2>2. CASE thr[t].tmp # Null
    <3>1. thr[t].tmp = Current(t)
      BY <1>1, <1>2, <2>2 DEF CInv, Table, MineOK
    <3>2. Mine(t) \in Handles /\ impl[Mine(t)] = Current(t)
      BY <1>2 DEF Current, Mine
    <3>3. /\ Count(Current(t)) \in Nat
          /\ Another(Mine(t), Current(t)) \/ thr[t].data = Current(t) => Count(Current(t)) >= 4
      BY <1>2, <1>3, <3>1, <3>2, UseCount
    <3> QED BY <1>2, <3>1, <3>3 DEF Lone, Another
  <2> QED BY <2>1, <2>2
<1>5. PICK pc \in {"unregister", "dropped"} : Goto(t, pc) /\ (pc = "unregister" => Lone(t))
  BY <1>4 DEF CountUses
<1> DEFINE s == [thr[t] EXCEPT !.pc = pc]
<1>6. pc \in Steps
  BY DEF Steps
<1>7. /\ s \in ThreadState /\ s.pc = pc /\ s.tmp = thr[t].tmp /\ s.h = thr[t].h
      /\ s.id = thr[t].id /\ s.data = thr[t].data /\ s.then = thr[t].then
      /\ s.raw = thr[t].raw /\ s.tmp \in Held /\ thr' = [thr EXCEPT ![t] = s]
  BY <1>5, <1>6, GoesOn
<1> HIDE DEF s
<1>8. Shape(s)
  BY <1>1, <1>7 DEF CInv, Shape, Dropping
<1> QED BY <1>1, <1>5, <1>7, <1>8, MoveKept DEF Steps, Dropping

LEMMA CheckKept ==
  ASSUME NEW t, Threads = {t}, CInv(t), Check(t)
  PROVE  Kept(t)
<1>1. thr[t].pc = "check" /\ UNCHANGED <<impl, lookup, idOf, freed>>
  BY DEF Check, At
<1>2. PICK pc \in {"fetch", "create"} :
          Goto(t, pc) /\ (pc = "create" => lookup[thr[t].id] = Null)
  BY DEF Check, Registered
<1>3. thr[t].id \in Ids => Known(Mine(t))
  BY <1>1 DEF CInv, PlaceOK
<1> DEFINE s == [thr[t] EXCEPT !.pc = pc]
<1>4. pc \in Steps
  BY DEF Steps
<1>5. /\ s \in ThreadState /\ s.pc = pc /\ s.tmp = thr[t].tmp /\ s.h = thr[t].h
      /\ s.id = thr[t].id /\ s.data = thr[t].data /\ s.then = thr[t].then
      /\ s.raw = thr[t].raw /\ s.tmp \in Held /\ thr' = [thr EXCEPT ![t] = s]
  BY <1>2, <1>4, GoesOn
<1> HIDE DEF s
<1>6. Shape(s)
  BY <1>1, <1>5 DEF CInv, Shape, Dropping
<1> QED BY <1>1, <1>2, <1>3, <1>5, <1>6, MoveKept DEF Steps, Dropping

(* A bare pointer that assign() got from another handle is always registered.         *)
LEMMA CheckSetKept ==
  ASSUME NEW t, Threads = {t}, CInv(t), CheckSet(t)
  PROVE  Kept(t)
<1>1. /\ thr[t].pc = "registered" /\ UNCHANGED <<impl, lookup>> /\ Heap(idOf)
      /\ thr[t] \in ThreadState /\ TypeOK
  BY DEF CheckSet, At, CInv, Shape, Pointed
<1>2. thr[t].tmp \in Held /\ thr[t].data \in Held
  BY <1>1, HeldAll
<1>3. CASE Registered(thr[t].id)
  <2> DEFINE s == [thr[t] EXCEPT !.pc = "fetched", !.raw = NoObject]
  <2>1. thr' = [thr EXCEPT ![t] = s]
    BY <1>3 DEF CheckSet
  <2>2. /\ s \in ThreadState /\ s.pc = "fetched" /\ s.tmp = thr[t].tmp /\ s.h = thr[t].h
        /\ s.id = thr[t].id /\ s.data = thr[t].data /\ s.then = thr[t].then
        /\ s.raw = NoObject
    BY <1>1 DEF ThreadState, Steps
  <2> HIDE DEF s
  <2>3. Shape(s)
    BY <1>1, <2>2 DEF CInv, Shape, Dropping
  <2> QED BY <1>1, <1>2, <2>1, <2>2, <2>3, MoveKept DEF Steps, Dropping
<1>4. CASE ~Registered(thr[t].id)
  <2> DEFINE s == [thr[t] EXCEPT !.pc = "own"]
  <2>1. "own" \in Steps /\ Goto(t, "own")
    BY <1>4 DEF Steps, CheckSet
  <2>2. /\ s \in ThreadState /\ s.pc = "own" /\ s.tmp = thr[t].tmp /\ s.h = thr[t].h
        /\ s.id = thr[t].id /\ s.data = thr[t].data /\ s.then = thr[t].then
        /\ s.raw = thr[t].raw /\ s.tmp \in Held /\ thr' = [thr EXCEPT ![t] = s]
    BY <2>1, GoesOn
  <2> HIDE DEF s
  <2>3. Shape(s)
    BY <1>1, <2>2 DEF CInv, Shape, Dropping
  <2>4. NewRaw(t)
    <3>1. thr[t].raw # NoObject
      BY <1>1 DEF CInv, Shape
    <3>2. ASSUME Lent(t) PROVE FALSE
      <4>1. PICK g \in Handles : g # Mine(t) /\ impl[g] # Null /\ Object(impl[g]) = thr[t].raw
        BY <3>2 DEF Lent
      <4>2. lookup[IdAt(impl[g])] = impl[g] /\ IdAt(impl[g]) = thr[t].id
        BY <3>2, <4>1 DEF CInv, Table, OthersKnown, Known, Lent, IdAt
      <4> QED BY <1>4, <4>1, <4>2 DEF Registered
    <3> QED BY <3>1, <3>2 DEF CInv, RawOK
  <2> QED BY <1>1, <2>2, <2>3, <2>4, MoveKept DEF Steps, Dropping
<1> QED BY <1>3, <1>4

-----------------------------------------------------------------------------
(* The entry that is taken out of the table is that of an object nobody else refers   *)
(* to.                                                                                *)
LEMMA TakeOutKept ==
  ASSUME NEW t, Threads = {t}, CInv(t), thr[t].pc \in {"unregister", "unregisterLast"},
         impl' = impl, lookup' = [lookup EXCEPT ![IdAt(Current(t))] = Null], Heap(idOf),
         NEW s, thr' = [thr EXCEPT ![t] = s], Shape(s), s.pc \in {"dropped", "release"},
         s.h = thr[t].h, s.id = thr[t].id, s.data = thr[t].data, s.then = thr[t].then,
         s.tmp = thr[t].tmp, s.raw = thr[t].raw,
         s.pc = "dropped" => thr[t].pc = "unregister"
  PROVE  Kept(t)
<1> DEFINE c == Current(t)
           i == IdAt(c)
<1>1. /\ Pointed /\ RawOK(t) /\ s \in ThreadState /\ TypeOK /\ Mine(t) \in Handles
      /\ Table(t) /\ Lone(t) /\ Shape(thr[t])
  BY DEF CInv, Shape, Pointed, Mine, PlaceOK
<1>2. c # Null /\ c \in Refs /\ impl[Mine(t)] = c
  BY <1>1 DEF Lone, Current, TypeOK
<1>3. Used(c) /\ i \in AllIds
  BY <1>1, <1>2 DEF Used, Pointed, UsedOnHeap, IdAt
<1>4. lookup[i] \in {Null, c}
  BY <1>1, <1>2 DEF Table, MineOK
<1>5. \A g \in Handles : g # Mine(t) /\ impl[g] # Null =>
         impl[g] # c /\ lookup[IdAt(impl[g])] = impl[g] /\ IdAt(impl[g]) # i
  BY <1>1, <1>4 DEF Table, OthersKnown, Known, Lone
<1> HIDE DEF c, i
<1>6. lookup' = [lookup EXCEPT ![i] = Null]
  BY DEF c, i
<1>7. thr' \in [Threads -> ThreadState] /\ thr'[t] = s
  BY <1>1, Turn
<1>8. /\ impl' \in [Handles -> Held] /\ lookup' \in [AllIds -> Held]
      /\ s.data \in Held /\ s.tmp \in Held
  <2>1. Null \in Held
    BY DEF Held
  <2> QED BY <1>1, <1>6, <2>1, HeldAll
<1>9. RawLives(t)
  BY <1>1, <1>7, LentLives
<1>10. /\ Pointed' /\ KeepsIds
       /\ \A r \in Refs : Used(r)' => Used(r)
       /\ s.raw # NoObject => idOf'[s.raw] = idOf[s.raw]
  BY <1>1, <1>8, <1>9, StoresLive
<1>11. \A g \in Handles : impl[g] # Null => idOf'[Object(impl[g])] = IdAt(impl[g])
  BY <1>7, <1>10, IdsStay DEF IdAt
<1>12. /\ \A j \in AllIds : lookup'[j] # Null => lookup'[j] = lookup[j] /\ j # i
       /\ \A j \in AllIds : j # i => lookup'[j] = lookup[j]
       /\ lookup'[i] = Null
  BY <1>1, <1>3, <1>6 DEF TypeOK
<1>13. TableOK'
  <2> SUFFICES ASSUME NEW j \in AllIds, lookup'[j] # Null PROVE idOf'[Object(lookup'[j])] = j
    BY DEF TableOK, IdAt
  <2>1. idOf'[Object(lookup'[j])] = idOf[Object(lookup'[j])]
    BY <1>10, IdsStay
  <2> QED BY <1>1, <1>12, <2>1 DEF Table, TableOK, IdAt
<1>14. Mine(t)' = Mine(t) /\ thr'[t].pc # "idle" /\ Current(t)' = c
  BY <1>2, <1>7 DEF Mine, Current
<1>15. OthersKnown(t)'
  <2> SUFFICES ASSUME NEW g \in Handles, g # Mine(t), impl[g] # Null
               PROVE  lookup'[idOf'[Object(impl[g])]] = impl[g]
    BY <1>14 DEF OthersKnown, Known, At, IdAt
  <2>1. IdAt(impl[g]) \in AllIds
    <3>1. Used(impl[g]) /\ impl[g] \in Refs
      BY <1>1 DEF Used, TypeOK
    <3> QED BY <1>1, <3>1 DEF Pointed, UsedOnHeap, IdAt
  <2> QED BY <1>5, <1>11, <1>12, <2>1
<1>16. IdAt(Current(t))' = i
  BY <1>2, <1>11, <1>14, <1>1 DEF IdAt, i
<1>17. MineOK(t)'
  BY <1>12, <1>14, <1>16 DEF MineOK
<1>18. RawOK(t)'
  <2> SUFFICES ASSUME s.raw # NoObject
               PROVE  idOf'[s.raw] \in AllIds /\ (NewRaw(t)' \/ Lent(t)')
    BY <1>7 DEF RawOK
  <2>1. idOf'[s.raw] = idOf[s.raw] /\ idOf[s.raw] \in AllIds
    BY <1>1, <1>10 DEF RawOK
  <2>2. CASE NewRaw(t)
    BY <1>7, <1>10, <1>12, <2>1, <2>2 DEF NewRaw
  <2>3. CASE Lent(t)
    <3>1. thr[t].pc = "unregister"
      BY <1>1 DEF Shape, Dropping
    <3> QED BY <1>7, <1>14, <2>1, <2>3, <3>1 DEF Lent, Dropping
  <2> QED BY <1>1, <2>1, <2>2, <2>3 DEF RawOK
<1>19. PlaceOK(t)'
  <2>1. s.data # Null => lookup'[IdAt(thr[t].data)'] = s.data
    <3> SUFFICES ASSUME s.data # Null PROVE lookup'[idOf'[Object(s.data)]] = s.data
      BY <1>7 DEF IdAt
    <3>1. idOf'[Object(s.data)] = IdAt(s.data)
      BY <1>7, <1>10, IdsStay DEF IdAt
    <3>2. lookup[IdAt(s.data)] = s.data /\ s.data # c
      BY <1>1 DEF CInv, PlaceOK, Lone, c
    <3>3. IdAt(s.data) # i
      BY <1>4, <3>2
    <3>4. IdAt(s.data) \in AllIds
      <4>1. s.data \in Refs /\ Used(s.data)
        BY <1>8, NullIsNoRef DEF Held
      <4> QED BY <1>1, <4>1 DEF Pointed, UsedOnHeap, IdAt
    <3> QED BY <1>12, <3>1, <3>2, <3>3, <3>4
  <2> QED BY <1>7, <2>1 DEF PlaceOK, At
<1>20. OneHandle
  BY DEF OneHandle
<1> QED BY <1>7, <1>10, <1>13, <1>15, <1>17, <1>18, <1>19, <1>20 DEF CInv, Kept, Table

LEMMA UnregisterKept ==
  ASSUME NEW t, Threads = {t}, CInv(t), Unregister(t) \/ UnregisterLast(t)
  PROVE  Kept(t)
<1>1. PICK pc \in {"dropped", "release"} :
         /\ Goto(t, pc) /\ impl' = impl /\ Heap(idOf)
         /\ IF pc = "dropped" THEN thr[t].pc = "unregister" /\ Unregister(t)
                              ELSE thr[t].pc = "unregisterLast" /\ UnregisterLast(t)
  BY DEF Unregister, UnregisterLast, At
<1>2. lookup' = [lookup EXCEPT ![IdAt(Current(t))] = Null]
  BY <1>1 DEF Unregister, UnregisterLast, IdAt, CInv, PlaceOK, At
<1> DEFINE s == [thr[t] EXCEPT !.pc = pc]
<1>3. pc \in Steps
  BY DEF Steps
<1>4. /\ s \in ThreadState /\ s.pc = pc /\ s.tmp = thr[t].tmp /\ s.h = thr[t].h
      /\ s.id = thr[t].id /\ s.data = thr[t].data /\ s.then = thr[t].then
      /\ s.raw = thr[t].raw /\ thr' = [thr EXCEPT ![t] = s]
  BY <1>1, <1>3, GoesOn
<1> HIDE DEF s
<1>5. Shape(s)
  BY <1>1, <1>4 DEF CInv, Shape, Dropping
<1> QED BY <1>1, <1>2, <1>4, <1>5, TakeOutKept

(* registerObject(): no other object has the entry.                                   *)
LEMMA RegisterKept ==
  ASSUME NEW t, Threads = {t}, CInv(t), Register(t)
  PROVE  Kept(t)
<1> DEFINE c == Current(t)
           i == IdAt(c)
           s == [thr[t] EXCEPT !.pc = "ok"]
<1>1. /\ thr[t].pc = "register" /\ impl' = impl /\ Heap(idOf) /\ Goto(t, "ok")
      /\ lookup' = [lookup EXCEPT ![i] = c]
  BY DEF Register, At, IdAt
<1>2. /\ Pointed /\ RawOK(t) /\ TypeOK /\ Mine(t) \in Handles
      /\ Table(t) /\ Shape(thr[t]) /\ c # Null
      /\ thr[t].raw = NoObject /\ thr[t].data = Null
  BY <1>1 DEF CInv, Shape, Pointed, Mine, PlaceOK, At, Dropping
<1>3. c \in Refs /\ impl[Mine(t)] = c
  BY <1>2 DEF Current, TypeOK
<1>4. Used(c) /\ i \in AllIds
  BY <1>2, <1>3 DEF Used, Pointed, UsedOnHeap, IdAt
<1>5. lookup[i] \in {Null, c}
  BY <1>1, <1>2 DEF Table, MineOK
<1>6. "ok" \in Steps
  BY DEF Steps
<1>7. /\ s \in ThreadState /\ s.pc = "ok" /\ s.h = thr[t].h
      /\ s.tmp = thr[t].tmp /\ s.data = Null /\ s.raw = NoObject
      /\ s.tmp \in Held /\ s.data \in Held /\ thr' = [thr EXCEPT ![t] = s]
  BY <1>1, <1>2, <1>6, GoesOn
<1>8. Shape(s)
  BY <1>1, <1>2, <1>7 DEF Shape, Dropping
<1> HIDE DEF c, i, s
<1>9. thr'[t] = s
  BY <1>2, <1>7, Turn
<1>10. impl' \in [Handles -> Held] /\ lookup' \in [AllIds -> Held]
  <2>1. c \in Held
    BY <1>3, <1>4 DEF Held
  <2> QED BY <1>1, <1>2, <2>1, HeldAll
<1>11. RawLives(t)
  BY <1>2, <1>7, <1>9, <1>1, LentLives
<1>12. Pointed' /\ KeepsIds
  BY <1>1, <1>2, <1>7, <1>10, <1>11, StoresLive
<1>13. \A g \in Handles : impl[g] # Null => idOf'[Object(impl[g])] = IdAt(impl[g])
  BY <1>1, <1>12, IdsStay DEF IdAt
<1>14. \A j \in AllIds : IF j = i THEN lookup'[j] = c ELSE lookup'[j] = lookup[j]
  BY <1>1, <1>2 DEF TypeOK
<1>15. TableOK'
  <2> SUFFICES ASSUME NEW j \in AllIds, lookup'[j] # Null PROVE idOf'[Object(lookup'[j])] = j
    BY DEF TableOK, IdAt
  <2>1. idOf'[Object(lookup'[j])] = idOf[Object(lookup'[j])]
    BY <1>12, IdsStay
  <2> QED BY <1>2, <1>14, <2>1 DEF Table, TableOK, IdAt, i
<1>16. \A g \in Handles : Known(g)'
  <2> SUFFICES ASSUME NEW g \in Handles, impl[g] # Null
               PROVE  lookup'[IdAt(impl[g])] = impl[g]
    BY <1>1, <1>13 DEF Known, IdAt
  <2>1. CASE g = Mine(t)
    BY <1>3, <1>4, <1>14, <2>1 DEF i
  <2>2. CASE g # Mine(t)
    <3>1. lookup[IdAt(impl[g])] = impl[g]
      BY <1>2, <2>2 DEF Table, OthersKnown, Known
    <3>2. IdAt(impl[g]) \in AllIds
      <4>1. Used(impl[g]) /\ impl[g] \in Refs
        BY <1>2 DEF Used, TypeOK
      <4> QED BY <1>2, <4>1 DEF Pointed, UsedOnHeap, IdAt
    <3> QED BY <1>5, <1>14, <3>1, <3>2
  <2> QED BY <2>1, <2>2
<1>17. OthersKnown(t)' /\ MineOK(t)' /\ Known(Mine(t))'
  <2>1. Mine(t)' = Mine(t)
    BY <1>7, <1>9 DEF Mine
  <2>2. Known(Mine(t))'
    BY <1>2, <1>16, <2>1
  <2> QED BY <1>2, <1>16, <2>1, <2>2 DEF OthersKnown, MineOK, Known, Current, IdAt
<1>18. RawOK(t)' /\ PlaceOK(t)'
  BY <1>7, <1>9, <1>17 DEF RawOK, PlaceOK, At
<1>19. OneHandle
  BY <1>1 DEF OneHandle
<1> QED BY <1>8, <1>9, <1>12, <1>15, <1>17, <1>18, <1>19 DEF CInv, Kept, Table

-----------------------------------------------------------------------------
(* A handle is emptied, or gets an object that is in the table.                       *)
LEMMA SettleKept ==
  ASSUME NEW t, Threads = {t}, CInv(t),
         NEW h \in Handles, thr[t].pc = "idle" \/ h = Mine(t),
         NEW r \in Held, r # Null => lookup[IdAt(r)] = r,
         impl' = [impl EXCEPT ![h] = r], lookup' = lookup,
         Heap(idOf) \/ UNCHANGED <<idOf, freed>>,
         NEW s, thr' = [thr EXCEPT ![t] = s], Shape(s),
         s.pc \in {"idle", "ok", "register"}, s.pc = "register" => r # Null,
         s.pc # "idle" => s.h = h
  PROVE  Kept(t)
<1>1. /\ Pointed /\ RawOK(t) /\ TypeOK /\ Table(t)
      /\ s \in ThreadState /\ s.raw = NoObject /\ s.data = Null /\ s.tmp = Null
  BY DEF CInv, Shape, Pointed, Dropping
<1>2. thr'[t] = s
  BY <1>1, Turn
<1>3. impl' \in [Handles -> Held] /\ lookup' \in [AllIds -> Held] /\ Null \in Held
  BY <1>1, HeldAll DEF Held
<1>4. RawLives(t)
  BY <1>1, <1>2 DEF RawLives, Object, Refs, Objects, NoObject
<1>5. Pointed' /\ KeepsIds
  BY <1>1, <1>3, <1>4, StoresLive
<1>6. /\ \A g \in Handles : impl'[g] # Null => idOf'[Object(impl'[g])] = IdAt(impl'[g])
      /\ \A i \in AllIds : lookup'[i] # Null => idOf'[Object(lookup'[i])] = IdAt(lookup'[i])
  BY <1>5, IdsStay DEF IdAt
<1>7. TableOK'
  BY <1>1, <1>6 DEF Table, TableOK, IdAt
<1>8. \A g \in Handles : Known(g)'
  <2> SUFFICES ASSUME NEW g \in Handles, impl'[g] # Null
               PROVE  lookup[IdAt(impl'[g])] = impl'[g]
    BY <1>6 DEF Known, IdAt
  <2>1. CASE g = h
    BY <1>1, <2>1 DEF TypeOK
  <2>2. CASE g # h
    BY <1>1, <2>2 DEF TypeOK, Table, OthersKnown, Known, At
  <2> QED BY <2>1, <2>2
<1>9. OthersKnown(t)'
  BY <1>8 DEF OthersKnown
<1>10. thr'[t].pc # "idle" => Known(Mine(t))' /\ Mine(t)' = h /\ Current(t)' = r
  <2>1. ASSUME thr'[t].pc # "idle" PROVE Mine(t)' = h
    BY <1>2, <2>1 DEF Mine
  <2>2. impl'[h] = r
    BY <1>1 DEF TypeOK
  <2>3. ASSUME thr'[t].pc # "idle" PROVE Known(Mine(t))'
    BY <1>8, <2>1, <2>3
  <2> QED BY <2>1, <2>2, <2>3 DEF Current
<1>11. MineOK(t)'
  BY <1>10 DEF MineOK, Known, Current
<1>12. RawOK(t)' /\ PlaceOK(t)'
  BY <1>1, <1>2, <1>10 DEF RawOK, PlaceOK, At
<1>13. OneHandle
  BY DEF OneHandle, Held
<1> QED BY <1>2, <1>5, <1>7, <1>9, <1>11, <1>12, <1>13 DEF CInv, Kept, Table

LEMMA RestShape ==
  Shape(Rest) /\ Rest.pc = "idle"
<1>1. Rest \in ThreadState /\ Rest.pc = "idle" /\ Rest.raw = NoObject
      /\ Rest.tmp = Null /\ Rest.data = Null
  BY DEF Rest, Call, ThreadState, Steps
<1> QED BY <1>1 DEF Shape, Dropping

(* A call that ends leaves its handle empty or known.                                 *)
LEMMA EndKept ==
  ASSUME NEW t, Threads = {t}, CInv(t), NEW r \in {Null, Current(t)},
         Mine(t) \in Handles, r # Null => Known(Mine(t)),
         Become(t, Rest), impl' = [impl EXCEPT ![Mine(t)] = r], lookup' = lookup,
         Heap(idOf) \/ UNCHANGED <<idOf, freed>>
  PROVE  Kept(t)
<1>1. impl \in [Handles -> Held] /\ Null \in Held
  BY HeldAll DEF CInv, Pointed, Held
<1>2. r \in Held
  BY <1>1 DEF Current
<1>3. r # Null => lookup[IdAt(r)] = r
  BY DEF Known, Current
<1>4. thr' = [thr EXCEPT ![t] = Rest]
  BY DEF Become
<1> QED BY <1>2, <1>3, <1>4, RestShape, SettleKept

LEMMA EndsKept ==
  ASSUME NEW t, Threads = {t}, CInv(t),
         \/ Release(t) \/ CreateFails(t) \/ Reset(t)
         \/ Return(t) \/ (thr[t].id \in Ids /\ PrepareFails(t))
  PROVE  Kept(t)
<1>1. thr[t].pc # "idle" /\ Become(t, Rest) /\ lookup' = lookup
  BY DEF Release, CreateFails, Reset, Return, PrepareFails, At
<1>2. Mine(t) \in Handles /\ impl \in [Handles -> Refs \cup {Null}]
  BY <1>1 DEF CInv, Shape, Mine, Pointed, TypeOK
<1>3. CASE Release(t) \/ CreateFails(t) \/ Reset(t)
  <2>1. impl' = [impl EXCEPT ![Mine(t)] = Null] /\ Heap(idOf)
    BY <1>3 DEF Release, CreateFails, Reset
  <2> QED BY <1>1, <1>2, <2>1, EndKept
<1>4. CASE Return(t) \/ (thr[t].id \in Ids /\ PrepareFails(t))
  <2>1. impl' = [impl EXCEPT ![Mine(t)] = Current(t)] /\ UNCHANGED <<idOf, freed>>
    BY <1>2, <1>4 DEF Return, PrepareFails, Current
  <2>2. Known(Mine(t))
    BY <1>4 DEF Return, PrepareFails, At, CInv, PlaceOK
  <2> QED BY <1>1, <1>2, <2>1, <2>2, EndKept
<1> QED BY <1>3, <1>4

LEMMA CopyKept ==
  ASSUME NEW t, Threads = {t}, CInv(t), NEW h \in Handles, NEW g \in Handles, Copy(t, h, g)
  PROVE  Kept(t)
<1>1. /\ thr[t].pc = "idle" /\ impl' = [impl EXCEPT ![h] = impl[g]] /\ lookup' = lookup
      /\ Heap(idOf) /\ TypeOK /\ Shape(thr[t])
  BY DEF Copy, At, CInv, Pointed
<1>2. impl[g] \in Held
  BY <1>1, HeldAll
<1>3. impl[g] # Null => lookup[IdAt(impl[g])] = impl[g]
  BY <1>1 DEF CInv, Table, OthersKnown, Known, At
<1>4. thr' = [thr EXCEPT ![t] = thr[t]]
  BY <1>1 DEF Copy, TypeOK
<1> QED BY <1>1, <1>2, <1>3, <1>4, SettleKept

LEMMA FetchKept ==
  ASSUME NEW t, Threads = {t}, CInv(t), Fetch(t)
  PROVE  Kept(t)
<1> DEFINE r == lookup[thr[t].id]
<1>1. /\ thr[t].pc \in {"fetch", "fetched"} /\ impl' = [impl EXCEPT ![Mine(t)] = r]
      /\ lookup' = lookup /\ Heap(idOf)
  BY DEF Fetch
<1>2. /\ Mine(t) \in Handles /\ thr[t].id \in AllIds /\ TypeOK /\ thr[t] \in ThreadState
      /\ thr[t].raw = NoObject /\ thr[t].data = Null /\ thr[t].tmp = Null
  BY <1>1 DEF CInv, Pointed, Shape, Mine, Dropping
<1>3. r \in Held
  BY <1>2, HeldAll
<1>4. r # Null => lookup[IdAt(r)] = r
  BY <1>2 DEF CInv, Table, TableOK
<1>5. \/ Become(t, Rest)
      \/ \E pc \in {"ok", "register"} : Goto(t, pc) /\ (pc = "register" => r # Null)
  BY DEF Fetch, Registered
<1> HIDE DEF r
<1>6. CASE Become(t, Rest)
  <2>1. thr' = [thr EXCEPT ![t] = Rest]
    BY <1>6 DEF Become
  <2> QED BY <1>1, <1>2, <1>3, <1>4, <2>1, RestShape, SettleKept
<1>7. ASSUME NEW pc \in {"ok", "register"}, Goto(t, pc), pc = "register" => r # Null
      PROVE  Kept(t)
  <2> DEFINE s == [thr[t] EXCEPT !.pc = pc]
  <2>1. pc \in Steps
    BY DEF Steps
  <2>2. /\ s \in ThreadState /\ s.pc = pc /\ s.h = Mine(t)
        /\ s.tmp = Null /\ s.data = Null /\ s.raw = NoObject /\ thr' = [thr EXCEPT ![t] = s]
    BY <1>2, <1>7, <2>1, GoesOn DEF Mine
  <2> HIDE DEF s
  <2>3. Shape(s)
    BY <1>2, <2>2 DEF Shape, Dropping
  <2> QED BY <1>1, <1>2, <1>3, <1>4, <1>7, <2>2, <2>3, SettleKept
<1> QED BY <1>5, <1>6, <1>7

LEMMA TakeKept ==
  ASSUME NEW t, Threads = {t}, CInv(t), Take(t)
  PROVE  Kept(t)
<1> DEFINE s == [thr[t] EXCEPT !.pc = "ok", !.data = Null]
<1>1. /\ thr[t].pc = "take" /\ impl' = [impl EXCEPT ![Mine(t)] = thr[t].data]
      /\ lookup' = lookup /\ Heap(idOf) /\ thr' = [thr EXCEPT ![t] = s]
  BY DEF Take, At
<1>2. /\ Mine(t) \in Handles /\ thr[t] \in ThreadState /\ TypeOK
      /\ thr[t].raw = NoObject /\ thr[t].tmp = Null /\ thr[t].data # Null
  BY <1>1 DEF CInv, Shape, Mine, Dropping, Pointed
<1>3. thr[t].data \in Held /\ lookup[IdAt(thr[t].data)] = thr[t].data
  BY <1>2, HeldAll DEF CInv, PlaceOK
<1>4. /\ s \in ThreadState /\ s.pc = "ok" /\ s.h = Mine(t)
      /\ s.tmp = Null /\ s.data = Null /\ s.raw = NoObject
  BY <1>2 DEF ThreadState, Steps, Mine
<1> HIDE DEF s
<1>5. Shape(s)
  BY <1>2, <1>4 DEF Shape, Dropping
<1> QED BY <1>1, <1>2, <1>3, <1>4, <1>5, SettleKept

(* The handle takes the bare pointer of a new object.                                 *)
LEMMA OwnKept ==
  ASSUME NEW t, Threads = {t}, CInv(t), Own(t)
  PROVE  Kept(t)
<1> DEFINE o == thr[t].raw
           k == NewOwner(o)
           s == [thr[t] EXCEPT !.pc = "register", !.raw = NoObject]
           c == <<o, k>>
<1>1. /\ thr[t].pc = "own" /\ impl' = [impl EXCEPT ![Mine(t)] = c] /\ lookup' = lookup
      /\ Heap(idOf) /\ thr' = [thr EXCEPT ![t] = s]
  BY DEF Own, At
<1>2. /\ Pointed /\ TypeOK /\ Table(t) /\ Mine(t) \in Handles /\ thr[t] \in ThreadState
      /\ o # NoObject /\ o \in Objects /\ thr[t].data = Null /\ thr[t].tmp = Null
  BY <1>1 DEF CInv, Pointed, Shape, Mine, Dropping, ThreadState
<1>3. idOf[o] \in AllIds /\ lookup[idOf[o]] = Null /\ \A r \in Refs : Used(r) => Object(r) # o
  BY <1>1, <1>2 DEF CInv, RawOK, Lent, NewRaw
<1>4. k \in Owners
  <2> DEFINE Unowned == {j \in Owners : Count(<<o, j>>) = 0}
  <2>1. \A j \in Owners : <<o, j>> \in Refs /\ Object(<<o, j>>) = o
    BY <1>2 DEF Refs, Object
  <2>2. \A j \in Owners : Count(<<o, j>>) = 0
    BY <1>3, <2>1, CountUsed DEF CountIsUse
  <2>3. 1 \in Owners /\ Owners \in SUBSET Nat
    BY BoundsAssumption DEF Owners
  <2>4. Unowned \in SUBSET Nat /\ Unowned # {} /\ Unowned \subseteq Owners
    BY <2>2, <2>3
  <2>5. k = Min(Unowned)
    BY DEF NewOwner
  <2> HIDE DEF Unowned, k, o
  <2>6. Min(Unowned) \in Unowned
    BY <2>4, LeastNumber
  <2> QED BY <2>4, <2>5, <2>6
<1>5. c \in Refs /\ Object(c) = o /\ c # Null
  BY <1>2, <1>4, NullIsNoRef DEF Refs, Object
<1>6. /\ s \in ThreadState /\ s.pc = "register" /\ s.h = Mine(t)
      /\ s.tmp = Null /\ s.data = Null /\ s.raw = NoObject
  BY <1>2 DEF ThreadState, Steps, Mine
<1> HIDE DEF c, s, k, o
<1>7. Shape(s)
  BY <1>2, <1>6 DEF Shape, Dropping
<1>8. thr' \in [Threads -> ThreadState] /\ thr'[t] = s
  BY <1>1, <1>2, <1>6, Turn
<1>9. \A r \in Refs : Used(r)' => Used(r) \/ r = c
  <2> SUFFICES ASSUME NEW r \in Refs, Used(r)', r # c PROVE r \in Held
    BY NullIsNoRef DEF Held
  <2>1. impl \in [Handles -> Held] /\ lookup \in [AllIds -> Held]
    BY <1>2, HeldAll
  <2>2. CASE \E h \in Handles : impl'[h] = r
    BY <1>1, <2>1, <2>2
  <2>3. CASE \E i \in AllIds : lookup'[i] = r
    BY <1>1, <2>1, <2>3
  <2>4. CASE \E w \in Threads : thr'[w].tmp = r \/ thr'[w].data = r
    BY <1>6, <1>8, <2>4, NullIsNoRef
  <2> QED BY <2>2, <2>3, <2>4 DEF Used
<1>10. /\ OneOwner' /\ NothingDangles' /\ UsedOnHeap' /\ KeepsIds
       /\ idOf' \in [Objects -> AllIds \cup {NoId}]
  <2>1. \A r \in Refs : Starts(r) => r = c
    BY <1>9 DEF Starts
  <2>2. \A r \in Refs : Starts(r) => /\ Object(r) = thr[t].raw
                                     /\ \A q \in Refs : Used(q) => Object(q) # Object(r)
    BY <1>3, <1>5, <2>1 DEF o
  <2>3. \A r, q \in Refs : Starts(r) /\ Starts(q) => r = q
    BY <2>1
  <2>4. RawLives(t)
    BY <1>6, <1>8 DEF RawLives, Object, Refs, Objects, NoObject
  <2>5. thr[t].raw # NoObject => idOf[thr[t].raw] \in AllIds
    BY <1>3 DEF o
  <2>6. thr'[t].raw \in Objects \cup {NoObject}
    BY <1>6, <1>8
  <2> QED BY <1>1, <1>2, <2>2, <2>3, <2>4, <2>5, <2>6, HeapLives
<1>11. impl' \in [Handles -> Refs \cup {Null}]
  BY <1>1, <1>2, <1>5 DEF TypeOK
<1>12. TypeOK'
  BY <1>1, <1>2, <1>8, <1>10, <1>11 DEF TypeOK, NothingDangles
<1>13. Pointed'
  BY <1>10, <1>12 DEF Pointed
<1>14. /\ \A g \in Handles : impl'[g] # Null => idOf'[Object(impl'[g])] = IdAt(impl'[g])
       /\ \A i \in AllIds : lookup'[i] # Null => idOf'[Object(lookup'[i])] = IdAt(lookup'[i])
  BY <1>10, <1>13, IdsStay DEF IdAt
<1>15. TableOK'
  BY <1>1, <1>2, <1>14 DEF Table, TableOK, IdAt
<1>16. Mine(t)' = Mine(t) /\ thr'[t].pc = "register" /\ Current(t)' = c
  BY <1>1, <1>2, <1>6, <1>8 DEF Mine, Current, TypeOK
<1>17. OthersKnown(t)'
  <2> SUFFICES ASSUME NEW g \in Handles, g # Mine(t) PROVE Known(g)'
    BY <1>16 DEF OthersKnown, At
  <2>1. impl'[g] = impl[g] /\ Known(g)
    BY <1>1, <1>2 DEF TypeOK, Table, OthersKnown
  <2> QED BY <1>1, <1>14, <2>1 DEF Known, IdAt
<1>18. MineOK(t)'
  <2>1. impl'[Mine(t)] = c
    BY <1>1, <1>2 DEF TypeOK
  <2>2. idOf'[Object(c)] = idOf[o]
    BY <1>2, <1>5, <1>14, <2>1 DEF IdAt
  <2>3. IdAt(Current(t))' = idOf[o]
    BY <1>16, <2>2 DEF IdAt
  <2> QED BY <1>1, <1>3, <1>16, <2>3 DEF MineOK
<1>19. RawOK(t)' /\ PlaceOK(t)'
  BY <1>5, <1>6, <1>8, <1>16 DEF RawOK, PlaceOK, At
<1>20. \E h \in Handles, r \in Refs \cup {Null} : impl' = [impl EXCEPT ![h] = r]
  BY <1>1, <1>2, <1>5
<1> QED BY <1>7, <1>8, <1>10, <1>13, <1>15, <1>17, <1>18, <1>19, <1>20
        DEF CInv, Kept, Table, OneHandle

-----------------------------------------------------------------------------
LEMMA CInit ==
  ASSUME NEW t, Threads = {t}, Init
  PROVE  CInv(t)
<1>1. RInv
  BY InitOK
<1>2. Pointed
  BY <1>1 DEF RInv, Typed, OnTheHeap, Pointed, UsedOnHeap
<1>3. /\ thr[t] = Rest
      /\ \A g \in Handles : impl[g] = Null
      /\ \A i \in AllIds : lookup[i] = Null
  BY DEF Init
<1>4. Rest.pc = "idle" /\ Rest.raw = NoObject /\ Rest.data = Null
  BY DEF Rest, Call
<1>5. Table(t)
  BY <1>3, <1>4 DEF Table, TableOK, OthersKnown, MineOK, Known
<1>6. RawOK(t) /\ PlaceOK(t)
  BY <1>3, <1>4 DEF RawOK, PlaceOK, At
<1> QED BY <1>2, <1>3, <1>5, <1>6, RestShape DEF CInv

LEMMA CStutters ==
  ASSUME NEW t, CInv(t), UNCHANGED vars
  PROVE  Kept(t)
<1>1. /\ impl' = impl /\ lookup' = lookup /\ idOf' = idOf /\ freed' = freed /\ thr' = thr
  BY DEF vars
<1>2. \A r : Used(r)' <=> Used(r)
  BY <1>1 DEF Used
<1>3. Pointed' /\ KeepsIds /\ OneHandle
  BY <1>1, <1>2 DEF CInv, Pointed, TypeOK, NothingDangles, OneOwner, UsedOnHeap, KeepsIds, OneHandle
<1>4. Table(t)'
  BY <1>1 DEF CInv, Table, TableOK, OthersKnown, MineOK, Known, IdAt, Current, Mine, At
<1>5. RawOK(t)'
  BY <1>1, <1>2 DEF CInv, RawOK, NewRaw, Lent, Mine
<1>6. PlaceOK(t)'
  BY <1>1 DEF CInv, PlaceOK, Known, IdAt, Current, Mine, At, Lone
<1> QED BY <1>1, <1>3, <1>4, <1>5, <1>6 DEF CInv, Kept

LEMMA CStep ==
  ASSUME NEW t, Threads = {t}, CInv(t), [CarefulNext]_vars
  PROVE  Kept(t)
<1>1. CASE StepNew(t)
  <2>1. \A h \in HandlesOf[t] : h \in Handles
    BY HandleOf
  <2>2. CASE Calls(t)
    <3>1. PICK h \in HandlesOf[t] : \/ \E i \in Ids : Prepare(t, h, i) \/ PrepareIid(t, h, i)
                                   \/ Destroy(t, h)
                                   \/ \E g \in HandlesOf[t] : Copy(t, h, g)
      BY <2>2 DEF Calls
    <3>2. CASE \E g \in HandlesOf[t] : Copy(t, h, g)
      BY <2>1, <3>2, CopyKept
    <3>3. CASE (\E i \in Ids : Prepare(t, h, i) \/ PrepareIid(t, h, i)) \/ Destroy(t, h)
      <4>1. At(t, "idle")
        BY <3>3 DEF Prepare, PrepareIid, Destroy, Start
      <4> QED BY <2>1, <3>3, <4>1, CallsKept
    <3> QED BY <3>1, <3>2, <3>3
  <2>3. CASE NewCalls(t)
    <3>1. PICK h \in HandlesOf[t], i \in NewIds :
              \/ PrepareInternal(t, h, i) \/ PrepareNew(t, h, i)
              \/ SetNew(t, h, i) \/ SetNull(t, h)
      BY <2>3 DEF NewCalls
    <3>2. CASE SetNew(t, h, i)
      BY <2>1, <3>2, SetNewKept
    <3>3. CASE PrepareInternal(t, h, i) \/ PrepareNew(t, h, i) \/ SetNull(t, h)
      <4>1. At(t, "idle")
        BY <3>3 DEF PrepareInternal, PrepareNew, SetNull, Start
      <4> QED BY <2>1, <3>3, <4>1, CallsKept
    <3> QED BY <3>1, <3>2, <3>3
  <2>4. CASE AssignOther(t)
    <3>1. PICK h \in HandlesOf[t], g \in HandlesOf[t] : h # g /\ Assign(t, h, g)
      BY <2>4 DEF AssignOther
    <3>2. At(t, "idle")
      BY <3>1 DEF Assign, Start
    <3> QED BY <2>1, <3>1, <3>2, CallsKept
  <2>5. CASE Continue(t)
    <3>1. CASE UnregisterLast(t) \/ Unregister(t)
      BY <3>1, UnregisterKept
    <3>2. CASE Release(t) \/ Reset(t) \/ Return(t)
      BY <3>2, EndsKept
    <3> QED BY <2>5, <3>1, <3>2, DropKept, CountUsesKept, DroppedKept, CheckKept, CheckSetKept,
               OwnKept, RegisterKept, FetchKept, TakeKept DEF Continue
  <2>6. CASE Create(t) \/ CreateFails(t) \/ (thr[t].id \in Ids /\ PrepareFails(t))
    BY <2>6, CreateKept, EndsKept
  <2> QED BY <1>1, <2>2, <2>3, <2>4, <2>5, <2>6 DEF StepNew
<1>2. CASE UNCHANGED vars
  BY <1>2, CStutters
<1> QED BY <1>1, <1>2 DEF CarefulNext

(* All handles to an id refer to the same instance, in every state.                   *)
SameInstance ==
    \A g, h \in Handles :
        impl[g] # Null /\ impl[h] # Null /\ IdAt(impl[g]) = IdAt(impl[h]) => impl[g] = impl[h]

LEMMA OneInstance ==
  ASSUME NEW t
  PROVE  CInv(t) => SameInstance
<1> SUFFICES ASSUME CInv(t), NEW g \in Handles, NEW h \in Handles,
                    impl[g] # Null, impl[h] # Null, IdAt(impl[g]) = IdAt(impl[h])
             PROVE  impl[g] = impl[h]
  BY DEF SameInstance
<1>1. ASSUME NEW f \in Handles, impl[f] # Null
      PROVE  lookup[IdAt(impl[f])] = impl[f] \/ (f = Mine(t) /\ lookup[IdAt(impl[f])] = Null)
  BY <1>1 DEF CInv, Table, OthersKnown, MineOK, Known, Current, At
<1>2. lookup[IdAt(impl[g])] = impl[g] \/ (g = Mine(t) /\ lookup[IdAt(impl[g])] = Null)
  BY <1>1
<1>3. lookup[IdAt(impl[h])] = impl[h] \/ (h = Mine(t) /\ lookup[IdAt(impl[h])] = Null)
  BY <1>1
<1> QED BY <1>2, <1>3

Refers == [h \in Handles |->
             IF impl[h] = Null THEN Null
             ELSE <<idOf[Object(impl[h])], Object(impl[h])>>]

(* A step of the code is a step, or nothing, of what IlwisData promises.              *)
LEMMA StepIsOfHandles ==
  ASSUME NEW t, Threads = {t}, CInv(t), Kept(t)
  PROVE  [Instances!Next]_Refers
<1>1. CInv(t)' /\ KeepsIds /\ OneHandle
  BY DEF Kept
<1>2. /\ impl \in [Handles -> Refs \cup {Null}]
      /\ impl' \in [Handles -> Refs \cup {Null}]
  BY <1>1 DEF CInv, Pointed, TypeOK
<1>3. \A g \in Handles : impl'[g] # Null =>
         /\ idOf'[Object(impl'[g])] = idOf[Object(impl'[g])]
         /\ idOf'[Object(impl'[g])] \in AllIds
  BY <1>1, IdsStay DEF CInv
<1>4. \A g \in Handles : impl'[g] = impl[g] => Refers'[g] = Refers[g]
  BY <1>3 DEF Refers
<1>5. CASE impl' = impl
  BY <1>4, <1>5 DEF Refers
<1>6. ASSUME NEW h \in Handles, NEW r \in Refs \cup {Null}, impl' = [impl EXCEPT ![h] = r]
      PROVE  Instances!Next
  <2>1. impl'[h] = r /\ \A g \in Handles \ {h} : impl'[g] = impl[g]
    BY <1>2, <1>6
  <2>2. CASE r = Null
    <3>1. Refers' = [Refers EXCEPT ![h] = Null]
      BY <1>4, <2>1, <2>2 DEF Refers
    <3> QED BY <3>1 DEF Instances!Next, Instances!Release, Refers
  <2>3. CASE r # Null
    <3> DEFINE i == idOf'[Object(r)]
               o == Object(r)
    <3>1. i \in AllIds /\ o \in Objects
      BY <1>3, <2>1, <2>3 DEF Object, Refs
    <3>2. Refers' = [Refers EXCEPT ![h] = <<i, o>>]
      BY <1>4, <2>1, <2>3 DEF Refers
    <3>3. ASSUME NEW g \in Handles \ {h}, Refers[g] # Null, Refers[g][1] = i
          PROVE  Refers[g][2] = o
      <4>1. impl[g] # Null /\ Refers[g][2] = Object(impl[g]) /\ idOf[Object(impl[g])] = i
        BY <3>3 DEF Refers
      <4>2. IdAt(impl[g])' = IdAt(impl[h])'
        BY <1>3, <2>1, <4>1 DEF IdAt
      <4>3. impl'[g] = impl'[h]
        <5>1. SameInstance'
          BY <1>1, OneInstance, PTL
        <5> QED BY <2>1, <2>3, <4>1, <4>2, <5>1 DEF SameInstance
      <4> QED BY <2>1, <4>1, <4>3
    <3> HIDE DEF i, o
    <3>4. Instances!Refer(h, i, o)
      BY <3>2, <3>3 DEF Instances!Refer, Refers
    <3> QED BY <3>1, <3>4 DEF Instances!Next
  <2> QED BY <2>2, <2>3
<1> QED BY <1>1, <1>5, <1>6 DEF OneHandle

-----------------------------------------------------------------------------
(* One thread; all calls but the assignment of a handle to itself, while the           *)
(* preparing of new objects does not fail.                                             *)
LEMMA CareKeepsTheTable ==
  ASSUME NEW t, Threads = {t}
  PROVE  CarefulSpec => []CInv(t)
<1>1. Init => CInv(t)
  BY CInit
<1>2. CInv(t) /\ [CarefulNext]_vars => CInv(t)'
  BY CStep DEF Kept
<1> QED BY <1>1, <1>2, PTL DEF CarefulSpec

(* The state of the handles, the table and the calls is well formed while one thread   *)
(* calls (ilwisdata.h).                                                                *)
THEOREM HandlesAreTyped ==
  ASSUME NEW t, Threads = {t}
  PROVE  CarefulSpec => []TypeOK
<1>1. CInv(t) => TypeOK
  BY DEF CInv, Pointed
<1> QED BY <1>1, CareKeepsTheTable, PTL

(* With one thread no handle, local variable or entry of the table points to a deleted *)
(* object, also when objects are made, set, assigned and replaced (ilwisdata.h: set(), *)
(* assign(), prepare()).                                                               *)
THEOREM CareNeverDangles ==
  ASSUME NEW t, Threads = {t}
  PROVE  CarefulSpec => []NothingDangles
<1>1. CInv(t) => NothingDangles
  BY DEF CInv, Pointed
<1> QED BY <1>1, CareKeepsTheTable, PTL

(* With one thread every object that a handle refers to is in the table between calls, *)
(* so that the next prepare() of its id gives this instance (mastercatalog.cpp:        *)
(* isRegistered()).                                                                    *)
THEOREM UsedObjectsAreRegistered ==
  ASSUME NEW t, Threads = {t}
  PROVE  CarefulSpec => []InUseIsRegistered
<1>1. CInv(t) => InUseIsRegistered
  BY DEF CInv, Table, OthersKnown, Known, IdAt, InUseIsRegistered
<1> QED BY <1>1, CareKeepsTheTable, PTL

(* With one thread the handles keep the promise of ilwisdata.h: handles to one id      *)
(* refer to one instance, in every state of every call.                                *)
THEOREM EveryObjectIsSingleton ==
  ASSUME NEW t, Threads = {t}
  PROVE  CarefulSpec => IsSingleton
<1>1. Init => Instances!Init
  BY DEF Init, Instances!Init
<1>2. CInv(t) /\ [CarefulNext]_vars => [Instances!Next]_Refers
  BY CStep, StepIsOfHandles
<1> QED BY <1>1, <1>2, CareKeepsTheTable, PTL DEF CarefulSpec, IsSingleton, Instances!Spec, Refers
=============================================================================
