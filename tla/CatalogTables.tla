---------------------------- MODULE CatalogTables ----------------------------
(***************************************************************************)
(* The tables of the master catalog (core/catalog/mastercatalog.cpp): the  *)
(* rows of the resources, their properties, the hashes of the known        *)
(* resources that MasterCatalog keeps beside them, and the objects in use. *)
(*                                                                         *)
(* Every operation of MasterCatalog holds its lock, so each is one action. *)
(* Between them other threads run: a scan finds files first and adds them  *)
(* later; the worker that computes envelopes selects all resources, and    *)
(* writes its copies back when it is done; and IlwisData::prepare() calls  *)
(* the catalog several times to open an object.  A statement on the tables *)
(* may fail; most callers do not look.                                     *)
(*                                                                         *)
(* A url stands for a url and a type.  A row is its id and its url: its    *)
(* name, which is the last part of the url until the one is changed        *)
(* without the other, and the other columns are left out.  The tables have *)
(* no key, so that the same row may be in several places, and a select     *)
(* gives the rows that fit in no order one may rely on.                    *)
(***************************************************************************)
EXTENDS Naturals, FiniteSets, Functions

CONSTANTS Urls,     \* of the files and objects of one container
          NoUrl,    \* of an object without a name
          Scanners, \* threads that scan the container
          Openers,  \* threads that open objects
          Places,   \* bound: places for rows in the table
          Free,     \* what a place without a row holds
          MaxId,    \* bound: ids given
          Failing   \* statements that may fail: "insert", "delete", "update"

ASSUME UrlsAssumption == NoUrl \notin Urls
ASSUME BoundAssumption == MaxId \in Nat /\ IsFiniteSet(Urls)

VARIABLES rows,    \* table mastercatalog: what is in each place
          props,   \* table catalogitemproperties: ids that have an envelope
          hashes,  \* MasterCatalog::_knownHashes
          lookup,  \* MasterCatalog::_lookup: the sources of objects in use, by id
          baseId,  \* Identity::_baseId
          found,   \* what the scan of a thread has found
          items,   \* Catalog::_items of the working catalog
          batch,   \* the resources the envelope worker has selected
          opening, \* how far a thread is with the object it opens
          touched  \* history: urls about which one of the steps below that
                   \* set the tables, or a table and an object, apart has
                   \* happened

vars == <<rows, props, hashes, lookup, baseId, found, items, batch, opening, touched>>

Ids == 0 .. MaxId - 1
Row == [id : Ids, url : Urls]

ASSUME FreeAssumption == Free \notin Row

(* The source of an object has the properties of the time it was opened.   *)
Source == [id : Ids, url : Urls \cup {NoUrl}, env : BOOLEAN]
RowOf(source) == [id |-> source.id, url |-> source.url]

(* prepare() has asked for the id of the url of a resource of its caller;   *)
(* it has selected the source of an object, the row or else that resource;  *)
(* it has found that none is registered with its id, and creates one.       *)
Idle == [step |-> "idle"]
Asked == [step : {"asked"}, id : Ids, resource : Row]
Chosen == [step : {"selected", "create"}, source : {s \in Source : s.url # NoUrl}]

TypeOK == /\ rows \in [Places -> Row \cup {Free}]
          /\ props \subseteq Ids
          /\ hashes \subseteq Urls
          /\ DOMAIN lookup \subseteq Ids
          /\ \A id \in DOMAIN lookup : lookup[id] \in Source /\ lookup[id].id = id
          /\ baseId \in 0 .. MaxId
          /\ found \in [Scanners -> SUBSET Row]
          /\ items \subseteq Row
          /\ batch \subseteq Row
          /\ opening \in [Openers -> {Idle} \cup Asked \cup Chosen]
          /\ touched \subseteq Urls

Init == /\ rows = [p \in Places |-> Free] /\ props = {} /\ hashes = {}
        /\ lookup = [id \in {} |-> 0]
        /\ baseId = 0
        /\ found = [s \in Scanners |-> {}]
        /\ items = {} /\ batch = {}
        /\ opening = [o \in Openers |-> Idle]
        /\ touched = {}

-----------------------------------------------------------------------------
UrlsOf(rs) == {r.url : r \in rs}
IdsOf(rs) == {r.id : r \in rs}

FreePlaces == {p \in Places : rows[p] = Free}
Rows == {rows[p] : p \in Places \ FreePlaces}
PlacesOf(url) == {p \in Places \ FreePlaces : rows[p].url = url}
RowsOf(url) == {r \in Rows : r.url = url}

contains(url) == url \in hashes /\ url \in UrlsOf(Rows)

HasSource(o) == opening[o].step \in {"selected", "create"}
BeingOpened == {opening[o].source : o \in {t \in Openers : HasSource(t)}}

(* The rows new are put in free places.                                    *)
Insert(new) == \E filled \in SUBSET FreePlaces : \E row \in Bijection(filled, new) :
                  rows' = [p \in Places |-> IF p \in filled THEN row[p] ELSE rows[p]]

(* Mutant of addItems: nothing is taken for known.                         *)
addItemsUnchecked(rs) == /\ hashes' = hashes \cup UrlsOf(rs)
                         /\ Insert(rs)
                         /\ UNCHANGED touched

(* addItems(rs): the resources that are not contained get a hash, and a row *)
(* unless the insert fails; store()'s result is not used.  A failure        *)
(* leaves a hash without a row.                                             *)
addItems(rs) ==
    LET new == {r \in rs : ~contains(r.url)}
    IN  \E bad \in SUBSET (IF "insert" \in Failing THEN new ELSE {}) :
          /\ hashes' = hashes \cup UrlsOf(new)
          /\ Insert(new \ bad)
          /\ touched' = touched \cup UrlsOf(bad)

(* removeItems(rs): for each its hash, its row and its properties, until a *)
(* statement fails.  The row is the one with the id, the hash is the one   *)
(* of the url.  begun are those whose hash went, deleted those whose row   *)
(* went too, done those for which all went well; at the failure the list,  *)
(* which a select gave in no known order, is left.                         *)
removeItems(rs) ==
    \E done \in SUBSET rs, begun \in SUBSET rs, deleted \in SUBSET rs :
      /\ done \subseteq deleted /\ deleted \subseteq begun
      /\ \/ done = rs
         \/ "delete" \in Failing /\ \E cut \in rs : begun = done \cup {cut}
      /\ LET stale == {r \in begun : \/ r \notin deleted
                                     \/ IdsOf(RowsOf(r.url)) # {r.id}}
             used == {r \in begun : r.id \in DOMAIN lookup \cup IdsOf(BeingOpened)}
             others == {r \in Rows : r.id \in IdsOf(deleted) /\ r.url \notin UrlsOf(begun)}
         IN  /\ hashes' = hashes \ UrlsOf(begun)
             /\ rows' = [p \in Places |-> IF p \notin FreePlaces /\ rows[p].id \in IdsOf(deleted)
                                          THEN Free ELSE rows[p]]
             /\ props' = props \ IdsOf(done)
             /\ touched' = touched \cup UrlsOf(stale \cup used \cup others)

(* updateItems(rs): for each the properties are deleted, the row with its  *)
(* id is replaced and the properties are written again; the hashes stay.   *)
(* When the update of a row fails its properties are not written.          *)
updateItems(rs, withEnvelope) ==
    \E bad \in SUBSET (IF "update" \in Failing THEN IdsOf(rs) ELSE {}) :
      LET done == {r \in rs : r.id \notin bad}
          written == {p \in Places \ FreePlaces : rows[p].id \in IdsOf(done)}
          new == [p \in written |-> CHOOSE r \in done : r.id = rows[p].id]
          changed == {p \in written : new[p].url # rows[p].url}
      IN  /\ rows' = [p \in Places |-> IF p \in written THEN new[p] ELSE rows[p]]
          /\ props' = (props \ IdsOf(rs)) \cup (IdsOf(done) \cap withEnvelope)
          /\ touched' = touched \cup {rows[p].url : p \in changed} \cup {new[p].url : p \in changed}
          /\ UNCHANGED hashes

-----------------------------------------------------------------------------
(* loadItems() of the explorers of a catalog makes a resource, with an id  *)
(* of its own, of every file; nothing is locked.  Files come and go         *)
(* without the program: any number of them may be there.                    *)
Find(s) ==
    /\ found[s] = {}
    /\ \E files \in (SUBSET Urls) \ {{}} :
         /\ baseId' = baseId + Cardinality(files)
         /\ baseId' <= MaxId
         /\ \E id \in Bijection(files, baseId .. baseId' - 1) :
              found' = [found EXCEPT ![s] = {[id |-> id[url], url |-> url] : url \in files}]
    /\ UNCHANGED <<rows, props, hashes, lookup, items, batch, opening, touched>>

AddFound(s) == /\ found[s] # {}
               /\ addItems(found[s])
               /\ found' = [found EXCEPT ![s] = {}]
               /\ UNCHANGED <<props, lookup, baseId, items, batch, opening>>

(* MasterCatalogModel::refreshCatalog() removes the items of the working    *)
(* catalog, before a thread scans it anew.  Catalog::items() selects them   *)
(* once and keeps them.                                                     *)
Refresh == LET its == IF items = {} THEN Rows ELSE items
           IN  /\ items' = its
               /\ removeItems(its)
               /\ UNCHANGED <<lookup, baseId, found, batch, opening>>

(* calculatelatLonEnvelopes() in a worker thread: all resources are         *)
(* selected, and those that have no envelope are written back with one.     *)
SelectAll == /\ batch = {}
             /\ batch' = {r \in Rows : r.id \notin props}
             /\ batch' # {}
             /\ UNCHANGED <<rows, props, hashes, lookup, baseId, found, items, opening, touched>>

WriteEnvelopes == /\ batch # {}
                  /\ updateItems(batch, IdsOf(batch))
                  /\ batch' = {}
                  /\ UNCHANGED <<lookup, baseId, found, items, opening>>

-----------------------------------------------------------------------------
Becomes(o, opened) == opening' = [opening EXCEPT ![o] = opened]
Choose(o, source) == Becomes(o, [step |-> "selected", source |-> source])

SourceOf(row) == [id |-> row.id, url |-> row.url, env |-> row.id \in props]

(* A thread opens an object.  name2Resource() or id2Resource() gives a row. *)
Select(o) == /\ opening[o] = Idle
             /\ \E row \in Rows : Choose(o, SourceOf(row))
             /\ UNCHANGED <<rows, props, hashes, lookup, baseId, found, items, batch, touched>>

(* There is no row: the resource of the caller is taken, with the          *)
(* properties it had.                                                      *)
TakeResource(o, resource) ==
    /\ \E env \in BOOLEAN :
          Choose(o, [id |-> resource.id, url |-> resource.url, env |-> env])
    /\ touched' = touched \cup {resource.url}

(* Or the caller has a resource, of the items of a catalog or as the       *)
(* worker: url2id() gives the id that its url has now, ...                 *)
Ask(o) ==
    /\ opening[o] = Idle
    /\ \E resource \in items \cup batch :
         \/ /\ \E row \in RowsOf(resource.url) :
                  Becomes(o, [step |-> "asked", id |-> row.id, resource |-> resource])
            /\ UNCHANGED touched
         \/ RowsOf(resource.url) = {} /\ TakeResource(o, resource)
    /\ UNCHANGED <<rows, props, hashes, lookup, baseId, found, items, batch>>

(* ... and id2Resource() the row with this id, if it is still there.       *)
SelectAsked(o) ==
    /\ opening[o].step = "asked"
    /\ \/ /\ \E row \in Rows : row.id = opening[o].id /\ Choose(o, SourceOf(row))
          /\ UNCHANGED touched
       \/ opening[o].id \notin IdsOf(Rows) /\ TakeResource(o, opening[o].resource)
    /\ UNCHANGED <<rows, props, hashes, lookup, baseId, found, items, batch>>

(* isRegistered(): an object in use is taken, if there is one.             *)
CheckRegistered(o) ==
    /\ opening[o].step = "selected"
    /\ Becomes(o, IF opening[o].source.id \in DOMAIN lookup THEN Idle
                  ELSE [opening[o] EXCEPT !.step = "create"])
    /\ UNCHANGED <<rows, props, hashes, lookup, baseId, found, items, batch, touched>>

(* The object cannot be created or prepared.                               *)
FailToCreate(o) == /\ opening[o].step = "create"
                   /\ Becomes(o, Idle)
                   /\ UNCHANGED <<rows, props, hashes, lookup, baseId, found, items, batch, touched>>

Register(objects, source) ==
    [id \in DOMAIN objects \cup {source.id} |-> IF id = source.id THEN source ELSE objects[id]]

(* registerObject() adds the source of the object, which is known already  *)
(* unless its row or hash is gone, and sets _lookup[data->id()] = data.    *)
registerObject(o) ==
    /\ opening[o].step = "create"
    /\ addItems({RowOf(opening[o].source)})
    /\ lookup' = Register(lookup, opening[o].source)
    /\ Becomes(o, Idle)
    /\ UNCHANGED <<props, baseId, found, items, batch>>

(* A new object has no name, and is registered without a row.               *)
NewObject == /\ baseId < MaxId
             /\ lookup' = Register(lookup, [id |-> baseId, url |-> NoUrl, env |-> FALSE])
             /\ baseId' = baseId + 1
             /\ UNCHANGED <<rows, props, hashes, found, items, batch, opening, touched>>

(* Mutant of Rename: an object that gets its first name gets no row.        *)
RenameOnly(id, url) == /\ id \in DOMAIN lookup /\ lookup[id].url # url
                       /\ lookup' = [lookup EXCEPT ![id].url = url]
                       /\ touched' = touched \cup ({lookup[id].url} \ {NoUrl})
                       /\ UNCHANGED <<rows, hashes, props, baseId, found, items, batch, opening>>

(* IlwisObject::name(): the source gets the url that goes with the name,    *)
(* its row, if it has one, only the name.  An object that had no name gets  *)
(* a row, unless its url is known.                                          *)
Rename(id, url) ==
    /\ id \in DOMAIN lookup /\ lookup[id].url # url
    /\ LET source == [lookup[id] EXCEPT !.url = url]
       IN  /\ lookup' = [lookup EXCEPT ![id] = source]
           /\ \/ /\ lookup[id].url = NoUrl /\ ~contains(url)
                 /\ addItems({RowOf(source)})
              \/ /\ lookup[id].url # NoUrl \/ contains(url)
                 /\ touched' = touched \cup ({lookup[id].url, url} \ {NoUrl})
                 /\ UNCHANGED <<rows, hashes>>
    /\ UNCHANGED <<props, baseId, found, items, batch, opening>>

(* OperationMetaData and Workflow::createMetadata() write the source of an  *)
(* object to its row.                                                       *)
UpdateObject(id) == /\ id \in DOMAIN lookup /\ lookup[id].url # NoUrl
                    /\ updateItems({RowOf(lookup[id])}, IF lookup[id].env THEN {id} ELSE {})
                    /\ UNCHANGED <<lookup, baseId, found, items, batch, opening>>

unregister(id) == /\ id \in DOMAIN lookup
                  /\ lookup' = Restrict(lookup, DOMAIN lookup \ {id})
                  /\ UNCHANGED <<rows, props, hashes, baseId, found, items, batch, opening, touched>>

Next == \/ \E s \in Scanners : Find(s) \/ AddFound(s)
        \/ Refresh
        \/ SelectAll \/ WriteEnvelopes
        \/ \E o \in Openers : \/ Select(o) \/ Ask(o) \/ SelectAsked(o)
                              \/ CheckRegistered(o) \/ FailToCreate(o) \/ registerObject(o)
        \/ NewObject
        \/ \E id \in Ids : UpdateObject(id) \/ unregister(id)
        \/ \E id \in Ids, url \in Urls : Rename(id, url)

Spec == Init /\ [][Next]_vars
-----------------------------------------------------------------------------
(* As long as none of the steps that record a url in touched happened to    *)
(* it, a url has one row at most, and is known by its hash exactly when it  *)
(* has one: a failed statement, a rename or a stale list of items does no   *)
(* harm to the other resources of the same call.                            *)
HashesMatchRows ==
    \A url \in Urls \ touched : /\ \A p, q \in PlacesOf(url) : p = q
                                /\ url \in hashes <=> PlacesOf(url) # {}

(* Such a url leads to the object that is in use for it: get(url) looks for *)
(* the id of the row in the table of objects.  The ways to lose it are a    *)
(* failed statement, a renaming, a refresh that removes the row of an       *)
(* object in use or being opened (the file gets another id, the object is   *)
(* registered with the old one), and opening a resource that has no row.    *)
ObjectsAreFound ==
    \A id \in DOMAIN lookup : lookup[id].url \in Urls \ touched =>
        IdsOf(RowsOf(lookup[id].url)) = {id}

(* contains(): "true when the combination is in the MasterCatalog".         *)
ContainsWhatItHas == \A url \in UrlsOf(Rows) : contains(url)
=============================================================================
