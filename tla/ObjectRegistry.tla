---------------------------- MODULE ObjectRegistry ----------------------------
(***************************************************************************)
(* The handles to objects and the table of the objects that are in use:    *)
(* IlwisData of core/ilwisobjects/ilwisdata.h, with _lookup and get,       *)
(* isRegistered, registerObject and unregister of                          *)
(* core/catalog/mastercatalog.cpp.                                         *)
(*                                                                         *)
(* A handle holds a std::shared_ptr; the table holds one more for every    *)
(* object that is in use, and the last handle takes the object out of it.  *)
(* Which handle is the last one is read from use_count().                  *)
(*                                                                         *)
(* The methods of the catalog run under its mutex, those of the handles    *)
(* under none: every access to the table, every use_count() and every      *)
(* assignment of the shared_ptr is a step of its own.  A handle belongs to *)
(* one thread.  A shared_ptr is the object with the number of the control  *)
(* block it is counted by: reset(T* ) makes a new one.                     *)
(***************************************************************************)
EXTENDS Naturals, FiniteSets, FiniteSetsExt

CONSTANTS Threads,
          HandlesOf,    \* HandlesOf[t]: the handles of thread t
          Ids,          \* the ids of resources in the catalog
          NewIds,       \* the ids that prepare() and new objects get
          MaxObjects,   \* bound: objects on the heap
          MaxOwners     \* bound: control blocks of one object

Handles == UNION {HandlesOf[t] : t \in Threads}
Objects == 1 .. MaxObjects
Owners == 1 .. MaxOwners

ASSUME DistinctAssumption ==
    \A t, w \in Threads : t # w => HandlesOf[t] \cap HandlesOf[w] = {}
ASSUME FiniteAssumption == /\ IsFiniteSet(Threads) /\ IsFiniteSet(Handles)
                           /\ IsFiniteSet(Ids) /\ IsFiniteSet(NewIds)
ASSUME BoundsAssumption == MaxObjects \in Nat /\ MaxOwners \in Nat \ {0}

Refs == Objects \X Owners
Null == <<0, 0>>
Object(r) == r[1]

NoId == "no id"
ASSUME IdsAssumption == NoId \notin Ids \cup NewIds /\ Ids \cap NewIds = {}
NoHandle == "no handle"
NoObject == 0

VARIABLES impl,      \* impl[h]: _implementation of handle h
          lookup,    \* lookup[i]: the entry for i in _lookup
          idOf,      \* idOf[o]: the id of object o, NoId: not on the heap
          freed,     \* the objects that are deleted but still pointed to
          thr        \* thr[t]: where thread t is, and its local variables

vars == <<impl, lookup, idOf, freed, thr>>

AllIds == Ids \cup NewIds

Steps == {"check", "create", "drop", "count", "unregister", "dropped", "own",
          "register", "registered", "fetch", "fetched", "take", "reset",
          "unregisterLast", "release", "ok", "idle"}

(* The local variables of the methods; "then" is where removeCurrent()     *)
(* returns to.  A call without a failure ends with step "ok".              *)
ThreadState == [pc : Steps, h : Handles \cup {NoHandle},
                id : AllIds \cup {NoId}, iid : BOOLEAN,
                raw : Objects \cup {NoObject}, tmp : Refs \cup {Null},
                data : Refs \cup {Null}, then : Steps]

Call(h, id, pc) == [pc |-> pc, h |-> h, id |-> id, iid |-> FALSE,
                    raw |-> NoObject, tmp |-> Null, data |-> Null, then |-> "idle"]

Rest == Call(NoHandle, NoId, "idle")

TypeOK == /\ impl \in [Handles -> Refs \cup {Null}]
          /\ lookup \in [AllIds -> Refs \cup {Null}]
          /\ idOf \in [Objects -> AllIds \cup {NoId}]
          /\ freed \in SUBSET Objects
          /\ thr \in [Threads -> ThreadState]

-----------------------------------------------------------------------------
(* use_count(): handles, the table and local variables count.              *)
Count(r) ==
    IF r = Null THEN 0
    ELSE   Cardinality({h \in Handles : impl[h] = r})
         + Cardinality({i \in AllIds : lookup[i] = r})
         + Cardinality({t \in Threads : thr[t].tmp = r})
         + Cardinality({t \in Threads : thr[t].data = r})

Raw(o) == \E t \in Threads : thr[t].raw = o

(* The objects whose last owner lets go are deleted.  What no pointer is   *)
(* left to is free to be allocated again.  "ids" are the objects' ids, the *)
(* new object's included.                                                  *)
Heap(ids) ==
    LET gone == {Object(r) : r \in {q \in Refs : Count(q) > 0 /\ Count(q)' = 0}}
        pointed == {o \in Objects : Raw(o)' \/ \E k \in Owners : Count(<<o, k>>)' > 0}
    IN  /\ freed' = (freed \cup gone) \cap pointed
        /\ idOf' = [o \in Objects |-> IF o \in pointed THEN ids[o] ELSE NoId]

FreeObjects == {o \in Objects : idOf[o] = NoId}
NewObject == Min(FreeObjects)
NewOwner(o) == Min({k \in Owners : Count(<<o, k>>) = 0})

Registered(i) == lookup[i] # Null

Become(t, s) == thr' = [thr EXCEPT ![t] = s]
Goto(t, pc) == thr' = [thr EXCEPT ![t].pc = pc]
At(t, pc) == thr[t].pc = pc

Mine(t) == thr[t].h
Current(t) == impl[Mine(t)]

-----------------------------------------------------------------------------
Init == /\ impl = [h \in Handles |-> Null]
        /\ lookup = [i \in AllIds |-> Null]
        /\ idOf = [o \in Objects |-> NoId]
        /\ freed = {}
        /\ thr = [t \in Threads |-> Rest]

(* A call starts.  The resource is found in the catalog, and the type that *)
(* is asked for is its type: the other calls change nothing.               *)
Start(t, s) == /\ At(t, "idle")
               /\ Become(t, s)
               /\ UNCHANGED <<impl, lookup, idOf, freed>>

(* prepare(name), prepare(resource); prepare(iid).                         *)
Prepare(t, h, i) == Start(t, Call(h, i, "check"))
PrepareIid(t, h, i) == Start(t, [Call(h, i, "check") EXCEPT !.iid = TRUE])

(* prepare(name) with the name of an object that is not in the catalog; if *)
(* it is not in use any more the name is taken as that of a resource.      *)
PrepareInternal(t, h, i) ==
    /\ Registered(i)
    /\ Start(t, [Call(h, i, "drop") EXCEPT !.data = lookup[i], !.then = "take"])

Unused(i) == /\ \A o \in Objects : idOf[o] # i
             /\ \A t \in Threads : thr[t].id # i

(* prepare(): a new object, with a new id.                                 *)
PrepareNew(t, h, i) ==
    /\ Unused(i)
    /\ Start(t, [Call(h, i, "drop") EXCEPT !.then = "check"])

(* set(new T): an object that was made outside the handle.                 *)
SetNew(t, h, i) ==
    /\ At(t, "idle")
    /\ Unused(i) /\ FreeObjects # {}
    /\ Become(t, [Call(h, i, "drop") EXCEPT !.raw = NewObject, !.then = "registered"])
    /\ UNCHANGED <<impl, lookup, freed>>
    /\ idOf' = [idOf EXCEPT ![NewObject] = i]

(* assign(g), which is operator=; it calls set() with the bare pointer.  An *)
(* empty g changes nothing: the call throws, or h is empty as well.        *)
Assign(t, h, g) ==
    /\ impl[g] # Null
    /\ Start(t, [Call(h, idOf[Object(impl[g])], "drop") EXCEPT
                    !.raw = Object(impl[g]), !.then = "registered"])

(* set(0); so does assign(g) of an object of another type (dynamic_cast).  *)
SetNull(t, h) ==
    Start(t, [Call(h, NoId, "drop") EXCEPT !.then = "reset"])

(* The copy constructor; the new handle gets the place of an empty one.    *)
Copy(t, h, g) ==
    /\ At(t, "idle")
    /\ impl[h] = Null
    /\ impl' = [impl EXCEPT ![h] = impl[g]]
    /\ UNCHANGED <<lookup, thr>>
    /\ Heap(idOf)

(* A mutant of Destroy: the entry in the table does not count.             *)
DestroyMiscounted(t, h) ==
    /\ impl[h] # Null
    /\ Start(t, Call(h, idOf[Object(impl[h])],
                     IF Count(impl[h]) <= 3 THEN "unregisterLast" ELSE "release"))

(* The destructor: "2 means last object will disappear".                   *)
Destroy(t, h) ==
    /\ impl[h] # Null
    /\ Start(t, Call(h, idOf[Object(impl[h])],
                     IF Count(impl[h]) = 2 THEN "unregisterLast" ELSE "release"))

UnregisterLast(t) ==
    /\ At(t, "unregisterLast")
    /\ lookup' = [lookup EXCEPT ![thr[t].id] = Null]
    /\ Goto(t, "release")
    /\ UNCHANGED impl
    /\ Heap(idOf)

Release(t) ==
    /\ At(t, "release")
    /\ impl' = [impl EXCEPT ![Mine(t)] = Null]
    /\ Become(t, Rest)
    /\ UNCHANGED lookup
    /\ Heap(idOf)

-----------------------------------------------------------------------------
(* removeCurrent().                                                        *)
Drop(t) ==
    /\ At(t, "drop")
    /\ thr' = IF Current(t) = Null
              THEN [thr EXCEPT ![t].pc = thr[t].then]
              ELSE [thr EXCEPT ![t].pc = "count",
                               ![t].tmp = lookup[idOf[Object(Current(t))]]]
    /\ UNCHANGED <<impl, lookup>>
    /\ Heap(idOf)

(* A mutant of CountUses: "the one just created" is counted twice.         *)
CountUsesMore(t) ==
    /\ At(t, "count")
    /\ Goto(t, IF Count(thr[t].tmp) <= 4 THEN "unregister" ELSE "dropped")
    /\ UNCHANGED <<impl, lookup, idOf, freed>>

(* "current _impl + one in the lookup + the one just created"              *)
CountUses(t) ==
    /\ At(t, "count")
    /\ Goto(t, IF Count(thr[t].tmp) <= 3 THEN "unregister" ELSE "dropped")
    /\ UNCHANGED <<impl, lookup, idOf, freed>>

Unregister(t) ==
    /\ At(t, "unregister")
    /\ lookup' = [lookup EXCEPT ![idOf[Object(Current(t))]] = Null]
    /\ Goto(t, "dropped")
    /\ UNCHANGED impl
    /\ Heap(idOf)

Dropped(t) ==
    /\ At(t, "dropped")
    /\ thr' = [thr EXCEPT ![t].pc = thr[t].then, ![t].tmp = Null]
    /\ UNCHANGED <<impl, lookup>>
    /\ Heap(idOf)

-----------------------------------------------------------------------------
(* isRegistered(): an object that is in use is fetched, or it is created.  *)
Check(t) ==
    /\ At(t, "check")
    /\ Goto(t, IF Registered(thr[t].id) THEN "fetch" ELSE "create")
    /\ UNCHANGED <<impl, lookup, idOf, freed>>

(* IlwisObject::create() and prepare() of the object give one that is      *)
(* ready; prepare(iid) does not look at what prepare() returned.           *)
Create(t) ==
    /\ At(t, "create")
    /\ FreeObjects # {}
    /\ thr' = [thr EXCEPT ![t].pc = "drop", ![t].raw = NewObject, ![t].then = "own"]
    /\ idOf' = [idOf EXCEPT ![NewObject] = thr[t].id]
    /\ UNCHANGED <<impl, lookup, freed>>

(* create() gives no object: the handle is emptied before removeCurrent(). *)
CreateFails(t) ==
    /\ At(t, "create")
    /\ impl' = [impl EXCEPT ![Mine(t)] = Null]
    /\ Become(t, Rest)
    /\ UNCHANGED lookup
    /\ Heap(idOf)

(* prepare() of the object fails, and the object is deleted.               *)
PrepareFails(t) ==
    /\ At(t, "create") /\ ~thr[t].iid
    /\ Become(t, Rest)
    /\ UNCHANGED <<impl, lookup, idOf, freed>>

(* A mutant of CheckSet: set() takes every bare pointer for a new object.  *)
CheckSetNever(t) ==
    /\ At(t, "registered")
    /\ Goto(t, "own")
    /\ UNCHANGED <<impl, lookup>>
    /\ Heap(idOf)

(* The test in set().                                                      *)
CheckSet(t) ==
    /\ At(t, "registered")
    /\ IF Registered(thr[t].id)
       THEN thr' = [thr EXCEPT ![t].pc = "fetched", ![t].raw = NoObject]
       ELSE Goto(t, "own")
    /\ UNCHANGED <<impl, lookup>>
    /\ Heap(idOf)

(* A mutant of Own: the handle holds the bare pointer.                     *)
OwnUncounted(t) ==
    /\ At(t, "own")
    /\ impl' = [impl EXCEPT ![Mine(t)] = <<thr[t].raw, 0>>]
    /\ thr' = [thr EXCEPT ![t].pc = "register", ![t].raw = NoObject]
    /\ UNCHANGED lookup
    /\ Heap(idOf)

(* _implementation.reset(data), or = ESPIlwisObject(data).                 *)
Own(t) ==
    /\ At(t, "own")
    /\ impl' = [impl EXCEPT ![Mine(t)] = <<thr[t].raw, NewOwner(thr[t].raw)>>]
    /\ thr' = [thr EXCEPT ![t].pc = "register", ![t].raw = NoObject]
    /\ UNCHANGED lookup
    /\ Heap(idOf)

Register(t) ==
    /\ At(t, "register")
    /\ lookup' = [lookup EXCEPT ![idOf[Object(Current(t))]] = Current(t)]
    /\ Goto(t, "ok")
    /\ UNCHANGED impl
    /\ Heap(idOf)

(* A mutant of Fetch: the handle becomes an owner of its own.              *)
FetchBare(t) ==
    /\ thr[t].pc \in {"fetch", "fetched"}
    /\ LET o == Object(lookup[thr[t].id])
       IN  impl' = [impl EXCEPT ![Mine(t)] =
                       IF o = NoObject THEN Null ELSE <<o, NewOwner(o)>>]
    /\ Goto(t, "ok")
    /\ UNCHANGED lookup
    /\ Heap(idOf)

(* _implementation = get(id), by prepare() and by set().  prepare(iid)     *)
(* checks what it got, and registers it once more.                         *)
Fetch(t) ==
    /\ thr[t].pc \in {"fetch", "fetched"}
    /\ impl' = [impl EXCEPT ![Mine(t)] = lookup[thr[t].id]]
    /\ IF thr[t].iid
       THEN IF Registered(thr[t].id) THEN Goto(t, "register")
                                     ELSE Become(t, Rest)
       ELSE Goto(t, "ok")
    /\ UNCHANGED lookup
    /\ Heap(idOf)

Take(t) ==
    /\ At(t, "take")
    /\ impl' = [impl EXCEPT ![Mine(t)] = thr[t].data]
    /\ thr' = [thr EXCEPT ![t].pc = "ok", ![t].data = Null]
    /\ UNCHANGED lookup
    /\ Heap(idOf)

(* set(nullptr), after removeCurrent().                                    *)
Reset(t) ==
    /\ At(t, "reset")
    /\ impl' = [impl EXCEPT ![Mine(t)] = Null]
    /\ Become(t, Rest)
    /\ UNCHANGED lookup
    /\ Heap(idOf)

(* The call returns (prepare() with true).                                 *)
Return(t) ==
    /\ At(t, "ok")
    /\ Become(t, Rest)
    /\ UNCHANGED <<impl, lookup, idOf, freed>>

-----------------------------------------------------------------------------
Calls(t) == \E h \in HandlesOf[t] :
    \/ \E i \in Ids : Prepare(t, h, i) \/ PrepareIid(t, h, i)
    \/ Destroy(t, h)
    \/ \E g \in HandlesOf[t] : Copy(t, h, g)

NewCalls(t) == \E h \in HandlesOf[t], i \in NewIds :
    \/ PrepareInternal(t, h, i)
    \/ PrepareNew(t, h, i)
    \/ SetNew(t, h, i)
    \/ SetNull(t, h)

(* Assignment from another handle; then from any.                          *)
AssignOther(t) == \E h, g \in HandlesOf[t] : h # g /\ Assign(t, h, g)
AssignAny(t) == \E h, g \in HandlesOf[t] : Assign(t, h, g)

Created(t) == Create(t) \/ CreateFails(t) \/ PrepareFails(t)

Continue(t) == \/ UnregisterLast(t) \/ Release(t)
               \/ Drop(t) \/ CountUses(t) \/ Unregister(t) \/ Dropped(t)
               \/ Check(t) \/ CheckSet(t) \/ Own(t)
               \/ Register(t) \/ Fetch(t) \/ Take(t) \/ Reset(t) \/ Return(t)

Step(t) == Calls(t) \/ Continue(t) \/ Created(t)

StepNew(t) == \/ Calls(t) \/ NewCalls(t) \/ AssignOther(t) \/ Continue(t)
              \/ Create(t)
              \/ CreateFails(t)
              \/ thr[t].id \in Ids /\ PrepareFails(t)

(* Objects of the catalog only; all calls but assignment of a handle to    *)
(* itself, while the preparing of new objects does not fail; all calls.    *)
CatalogSpec == Init /\ [][\E t \in Threads : Step(t)]_vars
CarefulNext == \E t \in Threads : StepNew(t)
CarefulSpec == Init /\ [][CarefulNext]_vars
Next == \E t \in Threads :
            Calls(t) \/ NewCalls(t) \/ AssignAny(t) \/ Continue(t) \/ Created(t)
Spec == Init /\ [][Next]_vars

-----------------------------------------------------------------------------
(* Handles to the same id refer to the same instance, also while calls     *)
(* replace, copy and drop them (ilwisdata.h, the comment of IlwisData).    *)
Instances == INSTANCE ObjectHandles WITH
    Ids <- AllIds, Nothing <- Null,
    refers <- [h \in Handles |->
                 IF impl[h] = Null THEN Null
                 ELSE <<idOf[Object(impl[h])], Object(impl[h])>>]

IsSingleton == Instances!Spec

(* No handle and no entry of the table points to an object that is deleted.*)
NothingDangles == freed = {}

(* Between calls the table knows every object that a handle refers to, so  *)
(* that the next prepare() of its id gives this instance.                  *)
InUseIsRegistered ==
    (\A t \in Threads : At(t, "idle")) =>
        \A h \in Handles : impl[h] # Null =>
            lookup[idOf[Object(impl[h])]] = impl[h]
==============================================================================
