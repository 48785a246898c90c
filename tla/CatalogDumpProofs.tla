-------------------------- MODULE CatalogDumpProofs --------------------------
(***************************************************************************)
(* What a session takes over from the sessions before it, proved for any   *)
(* urls and any bound on the ids.                                          *)
(***************************************************************************)
EXTENDS CatalogDump, TLAPS

(* A dump with the magic number is the one that the last completed store() *)
(* wrote, and its maxid is not below any of its ids.                       *)
GoodDump == dump.magic => /\ dump.records = stored
                          /\ \A r \in dump.records : r.id <= dump.maxid

(* While store() is under way the magic number is not there, and maxid is  *)
(* that of the records written so far.                                     *)
GoodStore == phase = "storing" => /\ ~dump.magic
                                  /\ \A r \in dump.records : r.id <= maxid

(* Before load() a session has nothing of the sessions before it.          *)
Taken == ~loaded => hashes = {}

LoadedInv == Taken /\ LoadedIsWhole /\ IdsContinue

DumpInv == TypeOK /\ GoodDump /\ GoodStore /\ LoadedInv

-----------------------------------------------------------------------------
LEMMA InitInv == Init => DumpInv
<1> SUFFICES ASSUME Init PROVE DumpInv
    OBVIOUS
<1>1. NoDump \in DumpState /\ NoDump.magic = FALSE
      BY DEF NoDump, DumpState
<1>2. TypeOK
      BY <1>1 DEF Init, TypeOK
<1>3. GoodDump /\ GoodStore /\ LoadedInv
      BY <1>1 DEF Init, GoodDump, GoodStore, LoadedInv, Taken, LoadedIsWhole, IdsContinue
<1> QED
    BY <1>2, <1>3 DEF DumpInv

LEMMA NextType == TypeOK /\ [Next]_vars => TypeOK'
<1> SUFFICES ASSUME TypeOK, [Next]_vars PROVE TypeOK'
    OBVIOUS
<1> USE DEF TypeOK
<1>1. CASE Start
      BY <1>1 DEF Start
<1>2. CASE Crash
      BY <1>2 DEF Crash, Down
<1>3. ASSUME NEW u \in Urls, Prepare(u) PROVE TypeOK'
      <2>1. [id |-> baseId, url |-> u] \in Resource
            BY DEF Resource
      <2> QED
          BY <1>3, <2>1 DEF Prepare
<1>4. ASSUME NEW r \in hashes, Find(r) PROVE TypeOK'
      BY <1>4 DEF Find
<1>5. CASE Load
      BY <1>5 DEF Load, DumpState
<1>6. CASE StoreOpen
      BY <1>6 DEF StoreOpen, NoDump, DumpState
<1>7. CASE StoreHeader
      BY <1>7 DEF StoreHeader, Down, DumpState
<1>8. ASSUME NEW r \in query, StoreRecord(r) PROVE TypeOK'
      <2>1. r \in Resource /\ r.id \in Nat
            BY DEF Resource
      <2> QED
          BY <1>8, <2>1 DEF StoreRecord, DumpState
<1>9. CASE UNCHANGED vars
      BY <1>9 DEF vars
<1> QED
    BY <1>1, <1>2, <1>3, <1>4, <1>5, <1>6, <1>7, <1>8, <1>9 DEF Next, Store

LEMMA NextDump == DumpInv /\ [Next]_vars => (GoodDump /\ GoodStore)'
<1> SUFFICES ASSUME DumpInv, [Next]_vars PROVE (GoodDump /\ GoodStore)'
    OBVIOUS
<1> USE DEF DumpInv, GoodDump, GoodStore
<1>1. CASE Start
      BY <1>1 DEF Start
<1>2. CASE Crash
      BY <1>2 DEF Crash, Down
<1>3. ASSUME NEW u \in Urls, Prepare(u) PROVE (GoodDump /\ GoodStore)'
      BY <1>3 DEF Prepare
<1>4. ASSUME NEW r \in hashes, Find(r) PROVE (GoodDump /\ GoodStore)'
      BY <1>4 DEF Find
<1>5. CASE Load
      BY <1>5 DEF Load
<1>6. CASE StoreOpen
      BY <1>6 DEF StoreOpen, NoDump
<1>7. CASE StoreHeader
      BY <1>7 DEF StoreHeader, Down, TypeOK, DumpState
<1>8. ASSUME NEW r \in query, StoreRecord(r) PROVE (GoodDump /\ GoodStore)'
      <2>1. dump' = [dump EXCEPT !.records = @ \cup {r}] /\ phase = "storing"
            BY <1>8 DEF StoreRecord
      <2>2. ~dump'.magic /\ dump'.records = dump.records \cup {r}
            BY <2>1 DEF TypeOK, DumpState
      <2>3. r.id \in Nat /\ \A s \in dump.records : s.id \in Nat
            BY DEF TypeOK, DumpState, Resource
      <2>4. \A s \in dump'.records : s.id <= maxid'
            BY <1>8, <2>1, <2>2, <2>3 DEF StoreRecord, TypeOK
      <2> QED
          BY <2>2, <2>4
<1>9. CASE UNCHANGED vars
      BY <1>9 DEF vars
<1> QED
    BY <1>1, <1>2, <1>3, <1>4, <1>5, <1>6, <1>7, <1>8, <1>9 DEF Next, Store

LEMMA NextLoaded == DumpInv /\ [Next]_vars => LoadedInv'
<1> SUFFICES ASSUME DumpInv, [Next]_vars PROVE LoadedInv'
    OBVIOUS
<1> USE DEF DumpInv, LoadedInv, Taken, LoadedIsWhole, IdsContinue
<1>1. CASE Start
      BY <1>1 DEF Start
<1>2. CASE Crash
      BY <1>2 DEF Crash, Down
<1>3. ASSUME NEW u \in Urls, Prepare(u) PROVE LoadedInv'
      <2>1. baseId \in Nat /\ \A r \in hashes : r.id \in Nat
            BY DEF TypeOK, Resource
      <2> QED
          BY <1>3, <2>1 DEF Prepare
<1>4. ASSUME NEW r \in hashes, Find(r) PROVE LoadedInv'
      BY <1>4 DEF Find
<1>5. CASE Load
      BY <1>5 DEF Load, GoodDump
<1>6. CASE StoreOpen
      BY <1>6 DEF StoreOpen
<1>7. CASE StoreHeader
      BY <1>7 DEF StoreHeader, Down
<1>8. ASSUME NEW r \in query, StoreRecord(r) PROVE LoadedInv'
      BY <1>8 DEF StoreRecord
<1>9. CASE UNCHANGED vars
      BY <1>9 DEF vars
<1> QED
    BY <1>1, <1>2, <1>3, <1>4, <1>5, <1>6, <1>7, <1>8, <1>9 DEF Next, Store

LEMMA DumpInvariant == Spec => []DumpInv
<1>1. DumpInv /\ [Next]_vars => DumpInv'
      BY NextType, NextDump, NextLoaded DEF DumpInv
<1> QED
    BY InitInv, <1>1, PTL DEF Spec

(* Wherever the sessions before it ended, a session takes over all that    *)
(* the last completed store() wrote, or nothing.                           *)
THEOREM LoadsAllOrNothing == Spec => []LoadedIsWhole
<1>1. DumpInv => LoadedIsWhole
      BY DEF DumpInv, LoadedInv
<1> QED
    BY DumpInvariant, <1>1, PTL

(* After load() Identity gives no id below that of a resource which find() *)
(* can return.                                                             *)
THEOREM IdsGoOn == Spec => []IdsContinue
<1>1. DumpInv => IdsContinue
      BY DEF DumpInv, LoadedInv
<1> QED
    BY DumpInvariant, <1>1, PTL
==============================================================================
