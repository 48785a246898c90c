----------------------------- MODULE CatalogDump -----------------------------
(***************************************************************************)
(* The ids of resources, and the dump of the catalog that carries them     *)
(* from one session to the next: Identity of core/identity.cpp and         *)
(* MasterCatalogCache of core/catalog/mastercatalogcache.cpp.              *)
(*                                                                         *)
(* exitIlwis() writes the resources that lie outside ILWIS, with the       *)
(* highest of their ids, to mastercatalog.dump; a number at the beginning  *)
(* of the file is written last.  The first catalog connector of the next   *)
(* session reads it and continues with the ids from there.  The explorers  *)
(* of the plugins, which are not part of the repository, take a resource   *)
(* from what was read when the file it is about has not changed.           *)
(*                                                                         *)
(* A session may end anywhere.  What the buffer of the file holds is lost  *)
(* with it, which is as if fewer records had been written.                 *)
(***************************************************************************)
EXTENDS Naturals

CONSTANTS Files,    \* urls of resources outside ILWIS
          Internal, \* urls of resources in ILWIS ("ilwis:...")
          MaxId     \* bound: the ids given in a session stay below it

ASSUME UrlsAssumption == Files \cap Internal = {}
ASSUME MaxIdAssumption == MaxId \in Nat

Urls == Files \cup Internal
Resource == [id : Nat, url : Urls]

VARIABLES phase,    \* of the session: "down", "running" or "storing"
          baseId,   \* Identity::_baseId
          catalog,  \* the resources of this session
          loaded,   \* is there a CatalogConnector::_mcCache?
          hashes,   \* what it holds: MasterCatalogCache::_hashes
          dump,     \* mastercatalog.dump
          query,    \* the resources that store() still has to write
          maxid,    \* the highest id of those it has written
          stored    \* the resources of the last store() that was completed

vars == <<phase, baseId, catalog, loaded, hashes, dump, query, maxid, stored>>

DumpState == [magic : BOOLEAN, maxid : Nat, records : SUBSET Resource]

TypeOK == /\ phase \in {"down", "running", "storing"}
          /\ baseId \in Nat
          /\ catalog \in SUBSET Resource
          /\ loaded \in BOOLEAN
          /\ hashes \in SUBSET Resource
          /\ dump \in DumpState
          /\ query \in SUBSET Resource
          /\ maxid \in Nat
          /\ stored \in SUBSET Resource

NoDump == [magic |-> FALSE, maxid |-> 0, records |-> {}]

Init == /\ phase = "down"
        /\ baseId = 0
        /\ catalog = {}
        /\ loaded = FALSE
        /\ hashes = {}
        /\ dump = NoDump
        /\ query = {}
        /\ maxid = 0
        /\ stored = {}

-----------------------------------------------------------------------------
Start == /\ phase = "down"
         /\ phase' = "running"
         /\ UNCHANGED <<baseId, catalog, loaded, hashes, dump, query, maxid, stored>>

(* The process ends: what it has in memory is gone.                        *)
Down == /\ phase' = "down"
        /\ baseId' = 0
        /\ catalog' = {}
        /\ loaded' = FALSE
        /\ hashes' = {}
        /\ query' = {}
        /\ maxid' = 0

(* The process ends without exitIlwis(), or in the middle of it, or with a *)
(* file that does not open or does not take the data: after that the       *)
(* QDataStream writes nothing any more.                                    *)
Crash == /\ phase # "down"
         /\ Down
         /\ UNCHANGED <<dump, stored>>

InCatalog(u) == \E r \in catalog : r.url = u

(* Resource::prepare() for a url that is not in the catalog.                *)
Prepare(u) ==
    /\ phase = "running"
    /\ ~InCatalog(u)
    /\ baseId < MaxId
    /\ catalog' = catalog \cup {[id |-> baseId, url |-> u]}
    /\ baseId' = baseId + 1
    /\ UNCHANGED <<phase, loaded, hashes, dump, query, maxid, stored>>

(* An explorer of a plugin finds the resource with find().                 *)
Find(r) ==
    /\ phase = "running"
    /\ r \in hashes
    /\ ~InCatalog(r.url)
    /\ catalog' = catalog \cup {r}
    /\ UNCHANGED <<phase, baseId, loaded, hashes, dump, query, maxid, stored>>

(* A mutant of Load: the ids start from 0 again.                           *)
LoadFromZero ==
    /\ phase = "running" /\ ~loaded
    /\ loaded' = TRUE
    /\ hashes' = IF dump.magic THEN dump.records ELSE {}
    /\ UNCHANGED <<phase, baseId, catalog, dump, query, maxid, stored>>

(* The first CatalogConnector, with load().                                *)
Load == /\ phase = "running" /\ ~loaded
        /\ loaded' = TRUE
        /\ IF dump.magic THEN hashes' = dump.records /\ baseId' = dump.maxid
                         ELSE UNCHANGED <<hashes, baseId>>
        /\ UNCHANGED <<phase, catalog, dump, query, maxid, stored>>

(* A mutant of StoreOpen: the magic number is written first.               *)
StoreOpenMagic ==
    /\ phase = "running"
    /\ phase' = "storing"
    /\ dump' = [NoDump EXCEPT !.magic = TRUE]
    /\ query' = {r \in catalog : r.url \in Files}
    /\ UNCHANGED <<baseId, catalog, loaded, hashes, maxid, stored>>

(* exitIlwis() calls store(): two zeros stand for the header.              *)
StoreOpen ==
    /\ phase = "running"
    /\ phase' = "storing"
    /\ dump' = NoDump
    /\ query' = {r \in catalog : r.url \in Files}
    /\ UNCHANGED <<baseId, catalog, loaded, hashes, maxid, stored>>

StoreRecord(r) ==
    /\ phase = "storing"
    /\ r \in query
    /\ dump' = [dump EXCEPT !.records = @ \cup {r}]
    /\ query' = query \ {r}
    /\ maxid' = IF maxid < r.id THEN r.id ELSE maxid
    /\ UNCHANGED <<phase, baseId, catalog, loaded, hashes, stored>>

(* seek(0), the magic number and maxid; the file is closed.                *)
StoreHeader ==
    /\ phase = "storing" /\ query = {}
    /\ dump' = [dump EXCEPT !.magic = TRUE, !.maxid = maxid]
    /\ stored' = dump.records
    /\ Down

Store == StoreOpen \/ StoreHeader \/ \E r \in query : StoreRecord(r)

Next == \/ Start
        \/ Crash
        \/ \E u \in Urls : Prepare(u)
        \/ \E r \in hashes : Find(r)
        \/ Load
        \/ Store

Spec == Init /\ [][Next]_vars

-----------------------------------------------------------------------------
(* A session starts from a whole dump or from none: wherever the sessions  *)
(* before it ended, load() takes in all that the last completed store()    *)
(* wrote, or nothing ("the magic number ensure that the last stream was    *)
(* closed correctly and that the dump is written correct", load()).        *)
LoadedIsWhole == hashes \in {{}, stored}

(* After load() no id is given that is lower than that of a resource of an *)
(* earlier session that can still be found (Identity::setBaseId).          *)
IdsContinue == loaded => \A r \in hashes : r.id <= baseId

(* "id returns a unsigned 64-bit number unique for the objects using the   *)
(* identity" (identity.h): no two resources of a session have the same id. *)
IdsUnique == \A r, s \in catalog : r.id = s.id => r = s
==============================================================================
