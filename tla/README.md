# IlwisCore in TLA+

IlwisCore is the core of ILWIS, a geographic information system: rasters,
feature coverages, tables and their metadata ("ILWIS objects"), a master
catalog of the resources they come from, operations on them that run in
several threads, and a desktop client. The modules in this directory model the
parts of it that keep state over a long time or share it between threads, and
state what those parts promise. TLC checks them on small instances, TLAPS
proves the most important promises for instances of every size.

Paths below are relative to `src/`.

## The system

| component | state | operations | interacts with | what makes it correct |
|---|---|---|---|---|
| Raster block cache (`Grid`, `GridBlockInternal`, `core/ilwisobjects/coverage/grid.*`) | blocks (in memory, initialized, swap file), the list `_cache`, `_inMemoryIndex`, `_allInMemory` | `value`, `setValue`, `setBlockData`, `blockAsMemory`, `update`, `unload`, `clone`, `prepare`, `setBandProperties` | connectors load a block on demand (`needData`); users keep a C++ reference into a block | a block holds what was last written to it; the list names the blocks in memory; memory is bounded |
| Lazy preparation of a block (`GridBlockInternal::prepare`) | `_initialized`, `_data`, `_mutex` | `at`, `prepare`, `needData`, `fill` | all threads of a parallel raster operation | loaded once; no reference without cells; what is read is loaded, what is written stays |
| Handles and registry (`IlwisData`, `core/ilwisobjects/ilwisdata.h`) | `_implementation` of every handle, `_lookup` of the catalog, the counts of the shared pointers | `prepare`, `set`, `assign`, copy, destructor, `removeCurrent` | the master catalog, under its mutex per call | one instance per id; an object in use is registered; an unused one disappears; nothing dangles |
| Ids and the dump of the catalog (`core/identity.*`, `core/catalog/mastercatalogcache.*`) | `_baseId`, `_hashes`, the file `mastercatalog.dump` | `Identity::prepare`, `setBaseId`, `store`, `load`, `find` | `exitIlwis`, the first `CatalogConnector`, explorers of plugins | a dump is taken in whole or not at all; ids are unique |
| Master catalog tables (`core/catalog/mastercatalog.*`) | the SQL tables `mastercatalog`, `catalogitemproperties`, `_knownHashes` | `addItems`, `removeItems`, `updateItems`, `changeResource`, `contains` | explorers, objects that are registered, the catalog models | hashes and rows agree, also when a statement fails; transactions end |
| Catalog connectors (`core/catalog/catalogconnector.cpp`, explorers) | `_mcCache`, explorers, the items found | `loadData`, threaded or not; refresh of the working catalog; the worker that computes envelopes | the master catalog, the dump | each resource found is added once; what was selected earlier does no harm when it is written back |
| Parallel raster operations and iterators (`core/ilwisobjects/operation/operationhelpergrid.*`, `core/ilwisobjects/coverage/pixeliterator.*`, `rasteroperations/*`) | boxes, positions, the output raster | `subdivideTasks`, `execute`, `move`, `end`, blocks of pixels, the sweeps of `distanceraster`, the two passes of `areanumbering` | the block cache, from several threads | every pixel is visited once and read from its cell; the boxes cover the raster; windows and groups are the right ones; a walk ends; areas have numbers of their own |
| Feature coverages (`featurecoverage.*`) | features, counts, two mutexes | `newFeature`, `setFeatureCount`, `copyTo` | connectors | loaded once; counts agree with the features |
| Objects and connectors (`ilwisobject.*`, `ilwisobjectconnector.*`) | connectors for input and output, `_changed`, `_valid` | `create`, `prepare`, `connectTo`, `store` | factories | a failed connection leaves the object usable |
| Context (`ilwiscontext.*`) | memory left, caches, configuration | `changeMemoryLeft` | every grid | what is given back is what was taken |
| Issue logger (`issuelogger.*`) | issues, repetition count, silent threads | `log`, `silent` | everything | a loop of equal messages is broken |
| Progress dialogs (`core/util/tranquilizer.*`, `ilwiscoreui/desktoptranquilizer.cpp`, `ilwiscoreui/tranquilizerhandler.cpp`) | dialogs, thread count, two event queues | prepare, update, stop, destroy, as queued signals; `exitUI` | workers, the tranquilizer thread, the thread of the user interface | a removed dialog stays away; every dialog is removed; progress never goes back |
| Workflows (`core/ilwisobjects/workflow/*`, `ilwiscoreui/models/workflow/*`) | the graph, the values of inputs, the form of open inputs | the edits of the canvas; `createMetadata`, `execute` | the canvas, the form, operations | an input has one source; edits keep the other parts; an operation runs once, after its sources, with its arguments |
| Operations and symbols (`core/ilwisobjects/operation`) | symbol table, execution context | `addSymbol`, `unloadRasters` | objects, script, user interface | a name stands for one object |

The rest (domains, tables, coordinate systems and projections, representations,
numerical operations, the script parser, drawers, the QML client) is sequential
data handling, floating point computation, generated or vendored code, or
drawing. `PROJECT.json` lists every component with the reason.

What is hard in this code:

* **Threads.** The raster operations run one task per core on the same raster,
  catalogs are scanned in threads, and the user interface has its own. Some
  state has a mutex per method (master catalog), some a double test
  (blocks), some none (handles).
* **References that outlive a lock.** `Grid::value` gives a reference into a
  block that the next access may swap out; `use_count()` is read and acted upon
  later.
* **Failure.** Swap files, memory and the creation of objects fail in the
  middle of operations that have already changed state.
* **Crashes.** Only the dump of the catalog outlives a session.
* **Order of events.** What a tranquilizer reports passes two event queues, and
  its creation passes one of them less than its removal.
* **Positions that move.** Vertices of a workflow, fields of its form, arguments
  of a call and entries of the block list are known by their position, which an
  edit of the others changes.
* **Boundaries.** Iterators keep a block, an offset and a linear position beside
  the pixel; each must be right at the end of a line, a block, a band and a box.

The hazards are listed one by one, with the property that watches each, in
`PROJECT.json`.

## Modules

| module | models |
|---|---|
| `RasterStore` | abstract: a raster is an array of blocks that hold what was last written to them |
| `GridCache` | `Grid` and `GridBlockInternal`; implements `RasterStore` |
| `LazyBlock` | `prepare()` and `at()` of one block, step by step, for several threads |
| `ObjectHandles` | abstract: all handles to an id refer to one instance |
| `ObjectRegistry` | `IlwisData` with the registration in the master catalog; implements `ObjectHandles` where the runs say so |
| `CatalogDump` | `Identity` and `MasterCatalogCache` over sessions that may crash |
| `CatalogTables` | the rows, properties and hashes of `MasterCatalog`, with scans, refreshes, failing statements and objects that are opened in steps |
| `Workflows` | abstract: operations that keep their identity, links and values |
| `WorkflowGraph` | `Workflow` and `WorkflowModel` under the edits of the canvas; implements `Workflows` |
| `WorkflowRun` | what an edited workflow runs as, a function of the graph |
| `Tranquilizers` | progress dialogs: owners, tasks, two event loops, the end of the program |
| `PixelIterators` | `PixelIterator` and the layout of a grid, as operators |
| `BlockIterators` | `BlockIterator`, `GridBlock` and `CellIterator`, as operators |
| `BoxWalk` | abstract: a walk over the pixels of a box |
| `RasterTasks` | `subdivideTasks` and `execute` with tasks that walk their boxes, pixel by pixel, window by window or group by group; implements `BoxWalk` |
| `DistanceRaster` | the sweeps of `distanceraster` |
| `AreaNumbering` | the two passes of `areanumbering` |
| `Rasters` | composes `RasterTasks`, `DistanceRaster` and `AreaNumbering`: one of them runs |
| `GridProofs`, `LazyBlockProofs`, `ObjectRegistryProofs`, `CatalogDumpProofs`, `CatalogTablesProofs`, `TranquilizersProofs`, `RastersProofs`, `WorkflowProofs` | theorems and proofs |
| `MC...` | constants for TLC |

A definition whose comment begins with "Mutant of" or "A mutant of" is a plausible mistake in
the definition of that name; a run with the mistake put in must fail. They are
no part of the model.

### GridCache

The variables carry the names of the members of `Grid`. `blk[b]` is a
`GridBlockInternal`: `inMemory` and `initialized` are its flags, `data` the
cells it has in memory, `swap` what its temporary file holds. The cells of a
block are one value: every operation of the grid treats them alike, and a torn
read is a value of its own. The methods that compute (`Save` for
`save2Cache`, `Load` for `loadFromCache`, `UpdateOk` for `update`, ...) are
operators on a record of the administration, `Admin`, so that an action makes
all the calls that the method makes, in their order.

`ref[u]` is the reference `Grid::value` has given user `u`; `ReadRef` and
`WriteRef` use it later, after other accesses. When the block was swapped out
in between the reference is `Wild`: a read may return anything, and a write
changes nothing that is looked at again.

`Grid::clone` goes block by block and takes no lock, so it is several
actions; `UseClone` continues with the clone as the raster. `Prepare` chooses
how many blocks the memory left allows, instead of counting bytes. A fault of
`Faults` is chosen per call. There is one specification per extent of what the
environment does: `AccessSpec`, `SwapSpec`, `FillSpec` and `MemorySpec` add
unloading, connectors that fill blocks, and connectors that take the memory of
a block; `UserSpec` has all a user may do, and `Spec` everything.

### LazyBlock

When a raster fits in memory `value()` takes no lock, and threads meet in
`prepare()`. There every read and write of shared memory is an action; `pc[t]`
names the next line. `Load` is `needData()`, in which the connector calls
`setBlockData()` for this block; it is one step, since no other thread looks
at its parts except through the cells. Memory is sequentially consistent: the
compiler may reorder more than the model does, since `_initialized` is a plain
`bool`. That only adds to the violation below; for what holds it is an assumption.
Whether the connector loads on demand (`serves`) is chosen at the start.

### ObjectRegistry

A shared pointer is an object with the number of its control block, so that
two control blocks for one object, which is what `reset(pointer)` makes out of
a pointer that is already owned, can be told apart. `Count` is `use_count()`:
handles, table entries and local variables (`tmp` in `removeCurrent`, `data`
in `prepare(name)`). `Heap` deletes an object when one of its control blocks
counts nothing any more; a deleted object to which something still points is in
`freed`. Each call to the catalog is a step, as are each test of `use_count()` and each
assignment of `_implementation`. A handle belongs to a thread.

Whether `IlwisObject::create` and `prepare` of the object succeed is a choice:
`Create`, `CreateFails`, `PrepareFails`. `CatalogSpec` has only resources that
are in the catalog, `CarefulSpec` all calls but assignment of a handle to
itself and a new object whose `prepare` fails, `Spec` everything (no run).

### CatalogDump

A session goes from `Start` to `StoreHeader` or `Crash`. What it has in memory
is lost with it (`Down`); `dump` stays. `store()` is a step per record, so
that it can be interrupted anywhere. A crash with data in the buffer of the
file is as a crash some records earlier. `stored` is not part of the program:
it remembers what the last completed `store()` wrote. The explorers that call
`find()` are plugins outside this repository; `Find` is one of them, which may
take up any resource of the dump.

### CatalogTables

The mutex of `MasterCatalog` is held during each of its methods, so each is one
action; the hard part is what happens between them. `Find` is the scan of a
folder, which makes resources with new ids, and `AddFound` adds them later
(`found[s]`). `SelectAll` and `WriteEnvelopes` are the two ends of
`calculatelatLonEnvelopes`: the worker writes the resources of `batch` back long
after it selected them. `Refresh` removes the items that `Catalog::items` has
kept since it was first asked. A statement of `Failing` may fail for any of the
resources of a call. The tables have no key and SQL promises no order, so `rows` says what is in
each of the places for rows: the same row may be in two of them, and a select gives any row that fits.

`IlwisData::prepare()` calls the catalog several times, and the mutex is free
between the calls, so an opener makes a step per call; `opening[o]` keeps what
it has taken along. `prepare(name)` selects a row (`Select`); `prepare(Resource)`,
which has an item of a catalog or a resource of the envelope worker (`ICoverage cov(resource)`,
`mastercatalogmodel.cpp:824`), asks for the id of its url and then for the row with this id
(`Ask`, `SelectAsked`), and takes the resource as it is when there is none (`TakeResource`). Then come
`CheckRegistered`, the creation, which may fail (`FailToCreate`), and `registerObject`. Meanwhile any
other step may happen, a refresh and a scan among them.

Some steps really set the tables, or a table and an object, apart: a failed insert or delete, the removal of
a row by an id that has another url by now, a refresh under an object in
use or one that is being opened, a resource that is opened without a row, a renaming. `touched` is a history of the
urls to which one of them has happened; the
properties speak of all the others. What they say is that the damage stays
with the resource it was done to, in every order of the threads.

### Workflows, WorkflowGraph and WorkflowRun

`WorkflowGraph` has the state of the code: `nodes` is the vector of vertices of
the boost graph, `flows` its edges, `assigned` is `_inputAssignments`, and `form`
is what the run form has become by the changes that `WorkflowModel` returned
("index|insert", "index|remove"). Each edit is one action, with all that
the model and the workflow do for it: `deleteOperation` removes the flows, gives the inputs
they led to an empty value, removes the assignments of the vertex, and renumbers
those of the vertices behind it. The code renumbers one key at a time in ascending order; the model gives
the result of that loop as a function of the keys, and the assumption `RenumberingLoop` of `MCWorkflow` has
TLC compare the two on all maps over three vertices with two parameters. The edges of a vertex are
removed while they are iterated over, which is undefined for three; the actions
are therefore defined for at most two edges on a side. The form is kept by the
changes that are returned: the canvas itself throws away those of `deleteFlow` in
`alterSelectedEdge`, so that the form of a running client may show less.

`Workflows` has no positions: instances with an identity, links between them,
and a value for each input that has no link. The refinement gives every vertex
the `id` of the instance it was added as, which is in the model only. `Disconnect`
of `Workflows` may take the links that go to the same input of other instances
of the operation along: `deleteFlow` compares operations and not vertices.

`WorkflowRun` translates `getNodesWithExternalInput`, `parseInputNodeArguments`,
`reverseFollowExecutionPath` and `execute`; it changes nothing, so it is an
operator, which is evaluated in every state of the graph. The run has two parts. The order of the commands,
with what each flow found in its context, is `reverseFollowExecutionPath`: a function of the run so far and the node,
defined by the depth of the calls that are nested (`Len(nodes)` is enough without a cycle, and
with one the program does not return). The arguments of a command (`argumentsOf`) follow from what its flows found,
since nothing else reads them. They are inserted
into a list at their index, beyond the end at the end, as `QStringList` does
(`put`, `inserted`). A constant, a result and a parameter of the caller are
told apart by a tag.
`ArgumentsInPlace` names the workflows for which this gives what was drawn
(`Plain`); outside it the code does call operations with arguments in wrong
places, for instance when the flows to a node were drawn in another order than its
inputs.

### Tranquilizers

A tranquilizer has an owner (`TakeId`, `Prepare`, `Stop`, `Destroy`), tasks that
update it (`Refused`, `Advance`, `Report`, `Finish`), and the dialog that
`TranquilizerHandler` shows. `mainQueue` and `trqQueue` are the event
queues of the two threads with a loop. The signals of a tranquilizer go to the
kernel, which lives in the main thread, from there to `TranquilizerWorker` and
back to the handler; only the creation starts in the tranquilizer thread. An
operation in the main thread (`InMain`) keeps its event loop from running. The
id is taken from a counter without a lock, in two steps, so two tranquilizers may have one id.
`update` holds the mutex of the tranquilizer while it reports, and for three
seconds at the end of the work (`"sleeps"`). `ExitUI` and `Leave` are the end of
the program, at any moment. Tasks that heed what `update` returns (`Heeds`) stop when the
program is to stop; the others go on.

### PixelIterators, BlockIterators, BoxWalk, RasterTasks, DistanceRaster and AreaNumbering

`PixelIterators` is `pixeliterator.cpp` and the inline methods of its header:
an iterator is a record with the pixel, the block, the offset and the linear
position, and `Move` is `move()` in the flows XYZ, ZXY and YXZ, forward and
back. In the other three flows `move` does nothing. The flags
`xChanged` and so on, selections by a geometry and random access are left out.
The arithmetic is that of the code: `Trunc` divides towards zero.

In `RasterTasks` a job chooses a raster, whether the operation divides its work, and
otherwise the box, the flow and the number of pixels per step. A task writes at
each pixel the pixel itself into the cell that the iterator gives, so that `cells` shows
afterwards which pixel was written where; a write to a cell outside the raster is
ignored, where the program would spoil other memory. The order of tasks is free. `BoxWalk` is what a walk
promises: the pixels left decrease by n per step. Together with the
absence of deadlock the refinement says that every walk ends.

Linear filters and aggregations (`kind`) have a `BlockIterator` on the input beside the iterator
of the output, and go on with both at every step. What they write is the function from the places in
the window or group to the cells of the input that were read for them, with the address as
`GridBlock` computes it; the properties compare it with the address that `Grid::value(Pixel)`
would take. `applyTo` and the statistics are functions of these values and are left out, and so are
aggregation that keeps the geometry (`changegeometry` false) and the rank order filter. That one does not
address cells by itself as the linear filter does (`rasterfilter.cpp:64`) but takes `GridBlock::toVector`, which
reads none at all (see below).
A `BlockIterator` knows only the box of its task. A filter therefore takes the last line of
the box for the edge of the raster: on the line that two boxes share the result
depends on which task writes it last, and with windows of five lines the line
before it is computed from too few lines in any order. `WindowsAreRight` says how far this
reaches. Groups do not cross a box, so that `GroupsAreWhole` holds
on shared lines as elsewhere.

`DistanceRaster` sweeps one iterator forward and back until nothing changes. The
distances are right in rasters of one block, for every set of sources (proved for every size, `DistancesAreShortest`); with
more blocks the way back takes the first line of the block it enters
(`pixeliterator.cpp:239`), and the distances are not, so the property names the
case. Rasters have three columns at least: with two, `--` reaches a band -1, whose
memory is not defined. For a raster of one line the constructor of the iterator throws
before anything is written (`sweep = "threw"`).

`AreaNumbering` is one task: each pixel gets the number of its neighbour above or left,
or a new one (`NumberOfAbove`, `NumberOfLeft`, `NewNumber`); `Replace` applies one entry of
`_pass2Changes` to the whole raster. `AreasAreNumbered` holds from the first pixel to the last replacement:
what shares a number is one area, in bands where an iterator gives its cells (`OneBlockBands`; `raster_bands` shows the others). That an area ends with one number holds when it got at most two; where it gets a new
number (`Starts`) is seen from the input.

## Runs

### What holds

| run | checks | instance |
|---|---|---|
| `grid_user` | one user and everything he can do, with a connector that loads blocks on demand: the list names the blocks in memory, each once, and the grid implements `RasterStore` | 2 blocks, list up to 3 entries |
| `grid_faults` | swap files that do not open or are cut short, connectors that fill blocks and take their memory: a block gives its memory up only when all of it is in the file | 2 blocks, list up to 2 entries |
| `block_threads` | threads that meet at a block: one load; no reference without cells; what is written stays when there is nothing to load; every call returns | 3 threads, one value, with and without a connector that loads |
| `registry_one` | one thread: singleton, registered while in use, nothing dangles | 3 handles, 2 resources, 1 new id, 8 objects |
| `registry_threads` | two threads that prepare, copy and drop handles to one resource: nothing dangles, however the calls interleave | a thread with 2 handles and one with 1, 8 objects |
| `dump_restart` | sessions and crashes: whole dumps, ids that do not fall back | 2 files, 2 internal resources, ids below 6 |
| `catalog_tables` | scan, refresh, envelope worker, renaming and failing statements in any order: rows and hashes of the untouched resources agree, and lead to the objects in use, which a thread opens in steps between all this | 2 urls, 3 ids, 2 rows, one opener |
| `workflow` | all sequences of edits: each input has one source, the form follows, `Workflows` is implemented; in each state, what a run would call, in which order and with which arguments | operations with 0, 1 and 3 inputs (one, two and one of them), 3 flows, 3 instances ever |
| `tranquilizers` | an operation with two tasks and one in the main thread, the end of the program at any moment: dialogs are created, show the progress, never go back and disappear | 2 updates per task, announced as 3 of 4 |
| `rasters` | division of the work over tasks, walks in three flows, linear filters, aggregations, `distanceraster` and `areanumbering`: pixels are in their cells where the code does it, the tasks cover the raster, `execute` throws exactly for thin boxes, walks are `BoxWalk`s, windows and groups are read from their cells, distances are the shortest, for one line there are none, areas do not share numbers | up to 3 x 7 x 2 pixels in blocks of 1 to 3 lines, 3 threads, steps of 1 to 3; windows of 3 x 3 and 3 x 5 and groups up to 2 x 3 x 1 and 2 x 2 x 2, with two bands in one block each (`Bands`) too; distances in rasters of 3 x 1 (which throws) up to 4 x 2 and 3 x 4 with every set of sources; areas in rasters of 2 x 4, 4 x 2, 3 x 3 and 2 x 2 x 2 with every input of two values |

With two blocks and a list of three a block is pushed out and there is room for
a duplicate; where a block is loaded on demand two blocks already show every order of load, swap
and clone. Theorem `GridIsStore` covers any number of them. Three threads are one inside
`prepare()`, one that waits and one that comes later. Three handles are the two
between which an object is passed and one that keeps another object; in
`registry_threads` the two handles of the first thread are alike, which the
configuration states as a symmetry. 8 objects are more than the handles, locals
and table entries can hold at a time, so that creation never waits for the
bound. `MaxOwners` is 2: a third control block would need another bare pointer,
and the second already dangles. Two files and two internal resources give a
resource that is in the dump and one that is not, on both sides. Two urls and three ids let a file be found
twice, removed and found again with another id, while an object or the worker
still has the first, or is on the way to registering it. Two places for rows are one for each url, or two rows
of one, which is what `HashesMatchRows` excludes. Runs end when all urls are touched, since nothing is claimed after that. Three instances with three flows are a source, a node between
and a target, or two sources of one node: an operation behind the deleted one, one before it, and flows and
values on both. More edges on one side than two are undefined. Two updates
of two tasks, announced as three, are one that comes after the end was reported.
Seven lines over three tasks have remainder 1 and even divisions, 5 lines
remainder 2; a third block per band comes with blocks of one line. 202 lines on four cores lose
the last line in the same way as five lines on three. Windows of three lines reach over a box by one line, windows of five by
two; the inputs of aggregations have columns, lines and bands left over, and groups that are higher than wide, square, wider
than high and of several bands. A raster of one line is the one for which `distanceraster` throws; ways in two lines and more turn corners. Areas with three starts exist in 3 x 3. The bounds `MaxBlocks`, `MaxCache`,
`MaxObjects`, `MaxOwners`, `MaxId`, `Places`, `MaxIds`, `MaxFlows` and `Most` are
guards and nothing else.

Deadlock is checked except in `catalog_tables`, `workflow` (the bounds on ids end a behaviour) and `tranquilizers` (the
program ends).

### What does not hold

Each of these runs checks one sentence of a comment in the code, and TLC finds
a behaviour of the code that contradicts it.

| run | the comment | what happens |
|---|---|---|
| `registry_race` | "every IlwisObject is a singleton in the system" (`ilwisdata.h:22`) | two threads prepare one resource, and get two instances |
| `raster_bands` | "all algorithms also work on stacks of raster layers" (`pixeliterator.h:66`) | `moveYZ` computes the block of a new band from the line before it is set back: with more than one block in a band, the line is read and written in a wrong block |

### Behaviours without a run

The modules contain these as well; they are consequences of the code that no
configuration asks about:

* Comments that the code does not keep, stated as operators beside the
  properties: `GridCache!MemoryBounded` ("the index is bigger than allowed, so the
  last element of the list is unloaded": a block that was not listed has index -1, and
  nothing is unloaded), `GridCache!MovesToFront` ("find the block and move it to
  the front of the list": `removeOne(index)` removes the entry that is equal to the index),
  `LazyBlock!WritesStay` (the load overwrites what a second thread has
  written), `CatalogDump!IdsUnique` (ids are given again after the dump is
  loaded), `CatalogTables!ContainsWhatItHas` (after two refreshes a row has no
  hash), `Tranquilizers!ExitWaits` (the main thread waits for tasks only when a dialog is
  shown already).
* A block that does not fit in memory is unloaded with the others before the
  second attempt (`grid.cpp`, `update`). Its swap file is empty, and each later
  load of it fails. The faults `noMemory` and `noMemoryTwice` stand for this;
  `grid_faults` leaves them out, since `NothingHalfSaved` does not hold with them.
* With two users, an access of one unloads a block to which the other holds a
  reference: `RasterStore` is implemented for one user only.
* `blockAsMemory` takes the block whose number is at position `block` of the
  list.
* A swap file that does not open for reading leaves the block marked as loaded,
  with undefined cells. This is the fault `readOpen`, without which
  `RasterStore` is checked.
* When the connector itself fills the block that is being accessed, the access
  lists the block a second time. `FillSpec` has connectors that fill at other times.
* A second thread may read the undefined value while the first loads
  (`grid.h`, `prepare`).
* `IlwisData::prepare` may return true with an empty handle, when the last
  handle of another thread goes away between `isRegistered` and `get`.
* After a creation that failed, the object that the handle referred to stays
  registered; the self-assignment of the only handle deletes the object under
  it; two threads that pass a bare pointer make two owners of one object. These
  are in `Spec` and `Next` of `ObjectRegistry`, not in `CarefulSpec` and
  `CatalogSpec`.

* A refresh that removes a row while its object is being opened, with a scan that finds the file again, leaves
  the object registered under an id that no row has, while its url leads to the new row: the next `prepare()`
  makes a second object. The same holds for a resource that is opened when its row is gone already.
  `ObjectsAreFound` leaves these urls out.
* The rank order filter reads no cell of its window: `GridBlock::toVector` negates the size of the block, which is
  unsigned, before it halves it (`blockiterator.cpp:174`), so that its first corner lies beyond the last. Every
  pixel becomes 0, or undefined.
* A box that has one line or one column is taken for one outside the raster:
  `execute` throws for a raster of one column, or with as many lines as tasks. `ThrowsWhenThin`
  says exactly when.
* With a remainder of two or more, `subdivideTasks` leaves the last lines to
  nobody; `TasksCoverTheRaster` excludes this case. A step of more than
  one pixel in XYZ, and YXZ in a box that is narrower than the raster or does not begin with a block,
  reaches wrong cells; `CellOfThePixel` names what is right.
* An aggregation with groups that are wider than high leaves its walk in the last line of
  groups, because that is recognised by the width (`blockiterator.cpp:211`), and the
  groups after the first of them are read from other places. With several bands the output
  needs bands of one block with lines to spare, since it is walked with a `PixelIterator`.
* The comment of `areanumbering` ("assigns unique pixel values in an output map
  for connected areas", `areanumbering.cpp:137`) does not hold for an area that got three
  numbers, such as the ones in the rows 0 0 1, 0 1 1, 1 1 1: entries overwrite each other or are applied before the entry they would
  have to follow. With a connectivity of 8 every pixel gets 0.
* With several threads each task of `distanceraster` computes the whole raster
  (`distanceraster.cpp:159`); the model has one task.
* The dialog of an operation in the main thread is created and never removed
  (`desktoptranquilizer.cpp:18`).
* An operation of a workflow that was executed before adds no results to the
  context (`workflowoperationimplementation.cpp:209`): what its second user gets is undefined. A cycle of flows is
  followed for ever. The deletion of an operation with flows does not report the
  inputs it opens.

### Fairness

`LazyBlock` assumes `WF_vars(Step(t))` for every thread in `CallsReturn`: the operating system goes on running each
thread. Weak fairness suffices for the mutex, although it is taken and released
again and again: once the block is initialized nobody takes it any more. If the
allocation fails for ever a thread may indeed be passed over each time; the
property excepts that case.

`Tranquilizers` assumes in `DialogsDisappear` weak fairness of every thread: of
an owner once it has begun, of each task, of the two event loops, and of the end of
the program once the main thread sleeps. Nothing makes the user start an operation or leave
the program. A task that waits for the mutex while others take it is not
promised anything; it does not have to be, since each has a finite number of updates.

The walks of `RasterTasks` end because the number of pixels left decreases with
every step of `BoxWalk` and a task that is not at its end has a step (deadlock is
checked); no fairness is stated there. The other modules promise nothing about progress:
no caller has to make a call.

## Proofs

All theorems hold for any values of the constants that satisfy the assumptions
of the modules.

* `GridProofs!TypeCorrect`: `Spec => []TypeOK`, with all faults. One lemma
  per operator on the administration says what it gives back.
* `GridProofs!ListIsRight`: without failing swap files and memory
  (`Faults = {}`), under `UserSpec` the list names blocks in memory, each once.
  The inductive invariant is `GridInv`: the list is right, and
  every block is good (`GoodBlock`): what is in memory has cells, cells that do not count as
  in memory were never swapped, and a swap file is complete. The second conjunct
  is needed since a clone has initialized blocks that are not "in memory",
  which the next `loadFromCache` must not read over.
* `GridProofs!GridIsStore`: with one user, the grid implements `RasterStore`. To
  `GridInv` comes `RefGood`: the reference of the user leads to the block he
  asked for last, and that block has its cells. One user is essential: with two
  the reference dangles.
* `GridProofs!NothingIsHalfSaved`: `Spec => []NothingHalfSaved` for every set
  of faults of the swap files (`OnlyFiles`), any number of users, and connectors that
  fill blocks and take their memory. The inductive invariant adds to `TypeOK` that a block "in memory" has
  its cells, and that one without cells has no swap file that was cut short: `save2Cache` removes
  the cells only after a write that succeeded. The faults of memory are excluded because it fails with them.
* `LazyBlockProofs!LoadsOnce` and `CellsAreThere`: the invariant is that who
  is inside holds the mutex (`Exclusive`), what each step finds (`Progress`),
  and that a block that was loaded is initialized and has cells (`Counted`).
* `LazyBlockProofs!WritesAreKept`: `Spec => []PlainWritesStay`. The invariant
  (`Kept`) says that the block is initialized from the first write on, and that its cells are what was
  written when there is nothing to load: the filling of the cells comes before any thread has left `prepare()`.
* `ObjectRegistryProofs!CatalogNeverDangles`: `CatalogSpec => []NothingDangles`, for
  any number of threads, handles, resources and objects. The races of `registry_race` are among its
  behaviours: threads make two instances of a resource, lose one from the table, or
  take an entry out that others need. Pointers stay alive all the same since no object has two
  control blocks (`OneOwner`), since a bare pointer is the only one to its object
  (`RawAlone`), and since what is pointed to is on the heap (`OnTheHeap`), so that a new object
  takes no place that is in use. `Count` is a sum of cardinalities; `CountUsed` reduces it to
  "somebody refers to it". Steps that store references that were in use before share the lemma `StepKeeps`;
  `OwnKeeps` and `CreateKeeps` are the two others. `CatalogIsTyped` gives `TypeOK` from the same invariant.
* `ObjectRegistryProofs!UsedObjectsAreRegistered`, `EveryObjectIsSingleton`, `CareNeverDangles` and `HandlesAreTyped`:
  `CarefulSpec => []InUseIsRegistered`, `=> IsSingleton` (the refinement of `ObjectHandles`), `=> []NothingDangles`
  and `=> []TypeOK`, for one thread (`Threads = {t}`) with any number of handles, ids and objects. One thread is
  essential: `registry_race` shows two instances with two. The invariant `CInv(t)` has to say more than the
  properties, since they are about the table and what is removed from it is decided by use counts. Its parts:
  `TableOK` (an entry has the id of its object), `OthersKnown` (the object of every handle but the one the running call
  works on is in the table), `MineOK` (the entry of that one's object is it, or empty when it was
  removed or is not registered yet), `RawOK` (a bare pointer is that of a new object, or was lent to `assign` by
  another handle that keeps the object) and `PlaceOK` (what each step of a call finds). The lemma `UseCount` turns the
  tests of `removeCurrent()`, a number of references, into "nobody else refers to the object" by listing who can.
  New objects get ids that no resource has (`IdsAssumption`; `Identity` counts on).
* `CatalogDumpProofs!LoadsAllOrNothing` and `IdsGoOn`: a dump with the magic
  number is the last that was completed, with a `maxid` that is not below its
  ids (`GoodDump`), and while it is being written it has no magic number
  (`GoodStore`).

* `TranquilizersProofs!DialogsAreRemoved`: `Spec => []NoDialogLeftBehind`, for any
  number of tranquilizers, tasks and updates, also when several tranquilizers
  have taken the same id. The property is not inductive: a creation may
  still be on its way when the last holder of the id is destroyed, and would bring the dialog
  back. `IInv` says that this creation has a removal behind it. `MainOK` and `TrqOK` say where that is: still
  before the kernel, since a creation is never there (`NoCreationInKernel`), or behind the
  creation in the same queue, or in the tranquilizer thread, whose events come
  to the main queue behind all that is there. `DialogOK` says the same for a dialog that is
  shown. These hold for ids all of whose holders are gone (`Orphan`); an id becomes one
  by `Destroy`, which appends the removal that the invariant asks for.

* `TranquilizersProofs!DialogsShowTheWork` and `ProgressIsMonotonic`: `Spec => []QuietShowsWork` and
  `Spec => ProgressGoesForward`, for any number of tranquilizers, tasks and updates; both speak of ids that one
  tranquilizer holds. The invariant `PInv` follows the events of such an id on their way: the main queue up to
  the kernel, the tranquilizer queue, and the main queue up to the handler. The amounts are in order along that
  way, none below what the dialog shows and none above what the tranquilizer has counted (`Ordered`);
  and while the work goes on there is no removal on the way, the dialog is
  there or its creation is ahead of all updates, and the last amount is shown,
  on its way, or about to be sent by a task (`Shown`). `TasksHold` says that a task in the middle of an
  update has the mutex, so that the amount it is about to send is still the last one. `DialogsAreCounted` is
  `Spec => []TypeOK`: the counter of threads, on which `exitUI` waits, is the number of dialogs.
* `CatalogTablesProofs!OtherUrlsStayTogether` and `UrlsLeadToObjects`: `Spec => []HashesMatchRows` and
  `Spec => []ObjectsAreFound`, for any urls, scanning and opening threads, ids and failing statements (`TablesAreTyped` is
  `Spec => []TypeOK`). The invariant takes both together, since an
  object leads to its row only as long as no second row with its url comes in, and adds that a scan finds
  a file once. It says of an object that is being opened what it says of one in use (`OpeningsLead`: the url of
  the source selected leads to the id that the object will be registered with), which is what makes
  `registerObject` right several steps after `Select`. `AddKeeps`, `RemoveKeeps` and `UpdateKeeps` say of each url by itself what a method leaves
  of its rows and its hash; every action calls one of them at most.
* `RastersProofs!ThrowsOnThinBoxes`, `TheRasterIsCovered`, `LinearFiltersSeeTheirWindows` and
  `AggregationsSeeTheirGroups`: `Spec => []ThrowsWhenThin`, `Spec => []TasksCoverTheRaster`,
  `Spec => []WindowsAreRight` and `Spec => []GroupsAreWhole`, for rasters, windows and groups of any size, any
  number of lines in a block and any number of threads (`JobsAssumption`: the extents are positive, linear filters and
  aggregations divide their work and go on by one pixel, a filter has an output of the size of its
  input, and an aggregation as many cells as there are whole groups, which is how
  `aggregateraster.cpp:161` computes the size). `Control` has the first: what a task became is decided by the
  box it got, and the last box has one line exactly when there are as many lines as tasks (`BoxIs`). `Work`
  has the others: the iterator of a task stands at a pixel and at the cell of that pixel (`Right`), the
  `BlockIterator` at the same pixel of the input or at the first cell of its group (`Beside`), and the cells of
  all pixels that were passed have what was to be computed (`Computed`). `BeginRight` and `StepRight` say that
  the constructor and `++` keep it so, with the way over `moveYZ` and `move2NextBlock` at the end of a line
  (`LandedIs`) and of a band (`NextBandIs`); `GroupStep` follows the `BlockIterator` over lines and bands of
  groups. That tasks write the line they share does no harm because different pixels have different cells
  (`CellsApart`); what a filter writes there depends on the box, which is why `Computed` names it.
* `RastersProofs!IteratorsGiveTheirCells` and `IteratorsWalkTheirBoxes`: `Spec => []CellOfThePixel` and
  `Spec => IsBoxWalk` (the refinement of `BoxWalk`), in the flows XYZ, ZXY and YXZ, for rasters and boxes of any
  size, any number of lines in a block, any number of pixels per step and any number of tasks. They suppose
  `OwnBoxesInside`: the box that an operation gives itself is in its raster, once `ensureBounds` has cut it off.
  This is a hypothesis of the two theorems and no assumption of `RasterTasks`, because an operation may give a box with
  a band too many (`rastercoverage.cpp:104`, for the last of several bands); TLC evaluates it for the jobs of the runs
  (`OwnBoxesAssumption`), and for divided operations it is proved (`DividedBoxIs`). The invariant `Walks` says that
  an iterator that is not at its end stands at a pixel of its box with a linear position that suits it (`Fits`), and at
  the cell of the pixel where the code does it (`AtCell`). `Rank` numbers the pixels in the order of the flow, with
  three digits; every move is an addition to the first digit with two carries (`CountOn`), which `GoesXYZ`,
  `GoesZXY` and `GoesYXZ` read off the code, so that it goes as many pixels further as it was told (`MoveWent`).
  What the iterator compares with its end is not this number: in XYZ it is the first linear position of the box plus
  the rank, in the other flows at most the linear position of the pixel, and in both it stays before the
  end while a pixel is left (`FitsIs`), and is set to it afterwards. `AtCell` has to say more than `CellOfThePixel`: in the XYZ flow the
  second line of a later band already has the right block, from which `move2NextBlock` at its end finds the
  next one; `MoveCell` shows that a move keeps it.
* `WorkflowProofs!InputsHaveOneSource` and `EditorIsWorkflow`: `GSpec => []EveryInputOnce` and `GSpec => IsWorkflow`
  (the refinement of `Workflows`), for any operations, numbers of inputs and instances. The
  invariant `GraphInv` says of vertices, flows and entries that they are `Sound` (flows fit the vertices, no two lead to one
  input, and an input has an entry exactly when no flow leads to it), and that instances have different ids
  (`IdsApart`). `AddSound`, `FlowSound`, `RemoveSound` and `RenumberSound` show that each part of an edit
  keeps it. For the refinement `OpBar`, `LinksBar` and `ValueBar` name the parts of the graph by instance;
  `BarRemoval` and `BarRenumber` say that taking flows away changes only their targets and that renumbering
  changes nothing but the vertex that goes. `AmongIs` shows that the flows that are kept are a
  subsequence, by recursion over the list (`Recursion`, from the least number of a set).
* `WorkflowProofs!FormFollows` and `GraphIsTyped`: `GSpec => ChangesAreExact` and `GSpec => []TypeOK`: every edit
  changes the fields of the form where it should and keeps the values of all others. The form is computed: the open
  inputs of the operations are listed in order, and an edit applies changes of positions one by one, each to what the ones
  before have left. The proofs show that a set of open inputs has one enumeration in order, that what an edit closes
  and opens are ranges in it, and that the changes, applied from one end, meet the positions they were computed for.
  `TypeOK` bounds the number of vertices by the number of operations ever added (`RoomInv`), and has a widest operation
  because the catalog is finite.
* `WorkflowProofs!OperationsRunInOrder`: `GSpec => []CallsInOrder`, for graphs of any size and shape without a cycle.
  A call for a node adds commands for it and for nodes that it uses only (`Reached`: all of them lie in every set of nodes
  that has the node and is `Closed` under sources), each once and after its sources (`InOrder`). What a node uses does not
  use the node (`SourcesApart`), so that following its flows never executes the node itself, and the command appended for it is the
  only one (`ExecutedInOrder`). `PathsInOrder` is an induction over the depth of the calls along
  `Levels`, of which a graph without a cycle has no more than nodes (`LevelsAre`). That none is left
  out (`AllCalled`) is because a node that is left out has a flow to another one, which is left out too, in a higher
  level, and the nodes in which no flow begins are all followed (`EndsAre`).
* `WorkflowProofs!ArgumentsAreInPlace`: `GSpec => []ArgumentsInPlace`: in a workflow that is `Plain`, of any size, every
  command gets for each input what was drawn to it, typed in or asked of the caller, and the caller gets the results of
  the ends. The inputs of a node are shared out among its flows, its constants and its open inputs (`RowIsShared`, from `Sound`).
  The arguments come in one after the other, and a list keeps each in its place when it comes behind all that are there or finds
  all before it (`Placed`, `PutsInPlace`; `JoinInPlace` for constants, results and what was given, in this order).
  The list that is given has its arguments in front of empty ones (`GivenIs`), which are trimmed away or left
  out (`TrimmedIs`, `FilledIs`), and its parameters have the numbers of the fields of the form (`ParameterIs`).
  A flow finds the result of its source in the context, not that of another command, because a node of a plain workflow has one user,
  so that what it needs is executed in one go and nothing of it before (`Gathered`, `Settled`; `FollowedFinds` and
  `PathsFind` are the induction over the flows of a node and over the levels, `ExecuteFinds` the one over the ends).
* `RastersProofs!DistancesAreShortest`: `RastersSpec => []DistancesAreRight`, for rasters of one block with two
  lines or more, three columns or more (`GridsAssumption`), and any set of sources; it includes that rasters of one line,
  and no others, throw (`FirstValid`). That no pixel comes too near is kept by
  every step (`NoneNearer`: a way over a neighbour is never longer than the step and the rest of the way, `WayOver`).
  That the last sweep leaves nothing to do is the hard part, because a sweep forward after a way back starts at the last
  pixel of the first line (the iterator stepped back from the first pixel stands there), and ends without having looked at
  the others. `Sweeping` is the invariant: a pixel of the first line was compared with its right and lower neighbours on
  the way back (`HalfStable`) and all others with all neighbours (`Stable`); what the first line may lack are ways that lead
  straight to the left, and these the first sweep has done (`RowIsDone`), since it alone goes over the whole line, from
  left to right. `Reached` puts both together: among the pixels that are farther from a source than the way to it take one with
  the shortest such way; the next pixel on it (`WayOn`) is right, so that this one could still come nearer.
* `RastersProofs!AreasHaveNumbers`: `RastersSpec => []AreasAreNumbered`, for rasters with bands of one block, of any size
  from two lines and columns, any number of bands and any values (`AreaGridsAssumption`). `Area`, which the property
  computes by as many steps as a band has pixels, is first shown to be the least set that nothing beside it belongs to
  (`AreaIs`, `SpreadIsRegion`: a set that grows in every step until it is closed has no more steps than pixels). The
  invariant `Numbering` has a ghost, the start of each number, the pixel where it was new. A number is found only in
  the area of its start, and an entry of `_pass2Changes` replaces it by a number of the same area (`Placing`); what
  pass one keeps of the line above and of the pixels to the left is what the raster has there (`Seen`, over the ends of lines and
  bands), hence it links pixels of one value side by side, or notes the left one (`Linked`). An area of which no
  number has an entry has one number (`EndsOne`); of two numbers an entry can only lead from one to the other, so
  that applying it leaves one (`Replaces`). Different numbers have different starts, and a start has none of its area above
  or to the left, which is why an area with at most two such pixels got at most two numbers (`FewIs`).

Only model-checked are liveness (`CallsReturn`, `DialogsDisappear`; liveness
under fairness is out of reach of the prover here) and the other properties of
the grid with connectors that fill blocks.

## Not modelled

* The positions of cells in blocks, the sizes of blocks and the bytes of memory
  left: `GridCache` has whole blocks and a choice of how many fit.
* Two threads inside the methods of one grid: they hold the mutex of the grid
  except `setBlockData` and `clone`.
* A weak memory model.
* The count of the memory left (`ilwiscontext.cpp:199`): a sum of an unsigned and
  a signed number without a lock, from which clones give back what they did not
  take (`grid.cpp:170`).
* `FeatureCoverage`, whose `dataIsLoaded` is tested under one mutex and whose
  features are changed under another (`featurecoverage.cpp:128`), and the
  repetition count of the issue logger (`issuelogger.cpp:156`).
* The second registration of an object in use by `prepare(id)` (`ilwisdata.h:307`).
* The rank order filter, which reads nothing (above).
* The transaction of `updateItems` that an early return leaves open
  (`mastercatalog.cpp:253`), and `_mcCache`, which two catalogs may load at once (`catalogconnector.cpp:32`).
* Conditions of workflows, whose edges keep the old numbers of vertices
  (`workflow.cpp:139`), and the lists of input and output nodes that are computed
  only by `createMetadata` (`workflow.cpp:215`).
* Plugins (connectors for file formats), Qt, SQLite and the file system, of which
  only what the code relies on appears.

## Plan

What would come next, in this order:

1. `MemoryAccount`: `changeMemoryLeft` with grids that are prepared, cloned and
   deleted, with its integer width.
2. `GridSteps`: `update` in steps, with `setBlockData` outside the mutex.
3. `FeatureLoading` and `ObjectConnection`: the two mutexes of
   `FeatureCoverage`, and `connectTo` and `store` of an object that fail.
4. `IssueLog` and `Symbols`.

Theorem to add: the refinement of `RasterStore` with connectors that fill blocks.
