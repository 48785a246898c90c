------------------------------ MODULE LazyBlock ------------------------------
(***************************************************************************)
(* One block of a raster that fits in memory, used by several threads:     *)
(* GridBlockInternal::prepare, at, fill and needData of                    *)
(* core/ilwisobjects/coverage/grid.h and grid.cpp.                         *)
(*                                                                         *)
(* When Grid::_allInMemory is set, value() and setValue() take no lock.    *)
(* The block is filled at its first use: prepare() tests _initialized,     *)
(* takes the mutex of the block, tests again, and calls the connector of   *)
(* the raster, which puts the data into the block with Grid::setBlockData. *)
(* GridCache has these calls as single actions; here every read and write  *)
(* of what threads share is a step.  The cells of the block are one value; *)
(* memory is taken to be sequentially consistent.                          *)
(***************************************************************************)
EXTENDS Naturals, FiniteSets

CONSTANTS Threads,
          Values,      \* what threads write
          Loaded       \* what the connector has for this block

Nothing == "no cells"  \* _data has no size yet
Undef == "undef"       \* the cells hold rUNDEF
NoThread == "no thread"

ASSUME ValuesAssumption == {Nothing, Undef} \cap (Values \cup {Loaded}) = {}
ASSUME ThreadsAssumption == NoThread \notin Threads

VARIABLES serves,       \* does the connector load data on demand?
          initialized,  \* _initialized
          data,         \* _data
          owner,        \* the thread that holds _mutex
          pc,           \* pc[t]: the step that thread t is at
          wants,        \* wants[t]: what t writes, Undef when it reads
          loads,        \* how often the connector has loaded the block
          got,          \* got[t]: what t read last
          written       \* the value that was written last

vars == <<serves, initialized, data, owner, pc, wants, loads, got, written>>

Contents == Values \cup {Loaded, Undef}
Steps == {"idle", "test", "lock", "again", "resize", "set", "load", "unlock", "use"}

TypeOK == /\ serves \in BOOLEAN
          /\ initialized \in BOOLEAN
          /\ data \in Contents \cup {Nothing}
          /\ owner \in Threads \cup {NoThread}
          /\ pc \in [Threads -> Steps]
          /\ wants \in [Threads -> Values \cup {Undef}]
          /\ loads \in Nat
          /\ got \in [Threads -> Contents \cup {Nothing}]
          /\ written \in Values \cup {Nothing}

Init == /\ serves \in BOOLEAN
        /\ initialized = FALSE
        /\ data = Nothing
        /\ owner = NoThread
        /\ pc = [t \in Threads |-> "idle"]
        /\ wants = [t \in Threads |-> Undef]
        /\ loads = 0
        /\ got = [t \in Threads |-> Nothing]
        /\ written = Nothing

Goto(t, s) == pc' = [pc EXCEPT ![t] = s]

-----------------------------------------------------------------------------
(* Grid::value() or setValue(), to at().                                   *)
Call(t, v) ==
    /\ pc[t] = "idle"
    /\ wants' = [wants EXCEPT ![t] = v]
    /\ Goto(t, "test")
    /\ UNCHANGED <<serves, initialized, data, owner, loads, got, written>>

(* "if (!_initialized)", without the mutex.                                *)
Test(t) ==
    /\ pc[t] = "test"
    /\ Goto(t, IF initialized THEN "use" ELSE "lock")
    /\ UNCHANGED <<serves, initialized, data, owner, wants, loads, got, written>>

Lock(t) ==
    /\ pc[t] = "lock" /\ owner = NoThread
    /\ owner' = t
    /\ Goto(t, "again")
    /\ UNCHANGED <<serves, initialized, data, wants, loads, got, written>>

(* A mutant of Again: the test is not repeated under the mutex.            *)
AgainNever(t) ==
    /\ pc[t] = "again"
    /\ Goto(t, "resize")
    /\ UNCHANGED <<serves, initialized, data, owner, wants, loads, got, written>>

(* "may happen due to multithreading".                                     *)
Again(t) ==
    /\ pc[t] = "again"
    /\ Goto(t, IF initialized THEN "unlock" ELSE "resize")
    /\ UNCHANGED <<serves, initialized, data, owner, wants, loads, got, written>>

(* A mutant of Resize: the block counts as initialized before it has cells.*)
ResizeLate(t) ==
    /\ pc[t] = "resize"
    /\ initialized' = TRUE
    /\ Goto(t, "set")
    /\ UNCHANGED <<serves, data, owner, wants, loads, got, written>>

(* _data.resize() and std::fill().                                         *)
Resize(t) ==
    /\ pc[t] = "resize"
    /\ data' = Undef
    /\ Goto(t, "set")
    /\ UNCHANGED <<serves, initialized, owner, wants, loads, got, written>>

(* No memory: at() throws, which gives the mutex back.                     *)
ResizeFails(t) ==
    /\ pc[t] = "resize"
    /\ owner' = NoThread
    /\ Goto(t, "idle")
    /\ UNCHANGED <<serves, initialized, data, wants, loads, got, written>>

SetInitialized(t) ==
    /\ pc[t] = "set"
    /\ initialized' = TRUE
    /\ Goto(t, "load")
    /\ UNCHANGED <<serves, data, owner, wants, loads, got, written>>

(* needData(): the connector calls setBlockData(), and that fill(), which  *)
(* finds the cells there, and copies.                                      *)
Load(t) ==
    /\ pc[t] = "load"
    /\ IF serves THEN data' = Loaded /\ loads' = loads + 1
                 ELSE UNCHANGED <<serves, data, loads>>
    /\ Goto(t, "unlock")
    /\ UNCHANGED <<serves, initialized, owner, wants, got, written>>

(* A mutant of Unlock: the mutex is left locked.                           *)
UnlockNever(t) ==
    /\ pc[t] = "unlock"
    /\ Goto(t, "use")
    /\ UNCHANGED <<serves, initialized, data, owner, wants, loads, got, written>>

Unlock(t) ==
    /\ pc[t] = "unlock"
    /\ owner' = NoThread
    /\ Goto(t, "use")
    /\ UNCHANGED <<serves, initialized, data, wants, loads, got, written>>

(* at() returns a reference into the block, which is read or written.      *)
Use(t) ==
    /\ pc[t] = "use"
    /\ IF wants[t] = Undef
       THEN got' = [got EXCEPT ![t] = data] /\ UNCHANGED <<serves, data, written>>
       ELSE data' = wants[t] /\ written' = wants[t] /\ UNCHANGED got
    /\ Goto(t, "idle")
    /\ UNCHANGED <<serves, initialized, owner, wants, loads>>

-----------------------------------------------------------------------------
Prepare(t) == \/ Test(t) \/ Lock(t) \/ Again(t) \/ Resize(t)
              \/ ResizeFails(t) \/ SetInitialized(t) \/ Load(t) \/ Unlock(t)

Step(t) == Prepare(t) \/ Use(t)

Next == \E t \in Threads : Step(t) \/ \E v \in Values \cup {Undef} : Call(t, v)

(* The scheduler runs every thread.  The mutex need not be fair: a block   *)
(* that is initialized is not locked any more.                             *)
Fairness == \A t \in Threads : WF_vars(Step(t))

Spec == Init /\ [][Next]_vars /\ Fairness

-----------------------------------------------------------------------------
(* The steps under the mutex.                                              *)
Inside == {"again", "resize", "set", "load", "unlock"}

(* Of all threads that find the block uninitialized one asks the connector *)
(* for its data (prepare(), the second test).                              *)
LoadedOnce == loads <= 1

(* Nobody gets to cells that are not there: the reference at() returns is  *)
(* into a vector that has its size (at(), _data[index]).                   *)
CellsExist == \A t \in Threads : pc[t] = "use" => data # Nothing

(* Every call returns, with a reference or with an exception: unless the   *)
(* memory runs out for ever, and each time for the thread that comes first,*)
(* the mutex of the block is never waited for in vain (Locker in prepare()).*)
CallsReturn ==
    <>[][\A t \in Threads : ~ResizeFails(t)]_vars =>
        \A t \in Threads : pc[t] = "test" ~> pc[t] = "idle"

(* Preparing the block does not overwrite what another thread has written  *)
(* meanwhile, when there is nothing to load (prepare(), std::fill).        *)
PlainWritesStay == ~serves /\ written # Nothing => data = written

(* Nor when the connector loads the block: that another thread comes in    *)
(* "may happen due to multithreading" (grid.h, prepare()).                 *)
WritesStay == written # Nothing => data = written
==============================================================================
