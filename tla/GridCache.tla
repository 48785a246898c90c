------------------------------ MODULE GridCache ------------------------------
(***************************************************************************)
(* The block cache of a raster: Grid and GridBlockInternal of              *)
(* core/ilwisobjects/coverage/grid.h and grid.cpp.                         *)
(*                                                                         *)
(* The cells of a raster are kept in blocks of lines.  A block is filled   *)
(* lazily (GridBlockInternal::prepare) by the connector the raster came    *)
(* from, is written to a swap file when the list _cache grows beyond       *)
(* _inMemoryIndex (Grid::update), and comes back from it on the next       *)
(* access.  Grid::value hands out a C++ reference into the block, which is *)
(* used after the mutex of the grid is given back.                         *)
(*                                                                         *)
(* A method that runs under Grid::_mutex is one action.  The contents of a *)
(* block are one value.  A failure (a swap file that does not open, a      *)
(* short read or write, no memory) is chosen per call and hits every I/O   *)
(* of its kind that this call does.                                        *)
(***************************************************************************)
EXTENDS Integers, Sequences, FiniteSets, SequencesExt

CONSTANTS MaxBlocks,  \* bound: blocks in the raster
          MaxCache,   \* bound: entries in the list _cache
          Users,      \* code that holds references into the grid
          Values,     \* what users write to a block
          Source,     \* [Blocks -> contents]: what the connector would load
          Serves,     \* BOOLEAN: does the connector load data on demand?
          Creations,  \* the values of "creation" that connectors pass
          Faults      \* the I/O and memory failures that may happen

Blocks == 0 .. (MaxBlocks - 1)

Undef == "undef"      \* the cells hold rUNDEF
Torn == "torn"        \* the cells of two different writes, mixed
Contents == Values \cup {Source[b] : b \in Blocks} \cup {Undef, Torn}

Never == "never"      \* _tempName is sUNDEF: the block was never swapped
Short == "short"      \* the swap file holds less than a whole block
Garbage == "garbage"  \* what a read of memory that was given back returns

Uncopied == "uncopied"

NoBlock == -1
Wild == -2            \* the "block" of a reference to memory given back
NoFault == "ok"

FaultKinds == {"saveOpen", "saveShort", "readOpen", "readShort",
               "noMemory", "noMemoryTwice"}

ASSUME BoundsAssumption == MaxBlocks \in Nat \ {0} /\ MaxCache \in Nat
ASSUME ServesAssumption == Serves \in BOOLEAN
ASSUME SourceAssumption ==
           \A b \in Blocks : Source[b] \notin {Undef, Torn, Never, Short}
ASSUME ValuesAssumption == Values \cap {Undef, Torn, Never, Short} = {}
ASSUME CreationsAssumption == Creations \subseteq BOOLEAN
ASSUME FaultsAssumption == Faults \subseteq FaultKinds

VARIABLES nblocks,        \* _blocks.size()
          blk,            \* blk[b]: the GridBlockInternal _blocks[b]
          cache,          \* _cache, the most recently used block first
          inMemoryIndex,  \* _inMemoryIndex
          allInMemory,    \* _allInMemory
          served,         \* is the raster one whose connector serves data?
          asked,          \* asked[u]: the block u asked for last
          ref,            \* ref[u]: the block u got a reference into
          seen,           \* seen[u]: what u read last through a reference
          cloning,        \* cloning[u]: the block u clones next
          copied          \* the contents of the grid made by Grid::clone

vars == <<nblocks, blk, cache, inMemoryIndex, allInMemory, served,
          asked, ref, seen, cloning, copied>>

BlockState == [inMemory    : BOOLEAN,               \* _inMemory
               initialized : BOOLEAN,               \* _initialized
               data        : Contents,              \* _data
               swap        : Contents \cup {Never, Short}]

Fresh == [inMemory |-> FALSE, initialized |-> FALSE,
          data |-> Undef, swap |-> Never]

TypeOK == /\ nblocks \in 0 .. MaxBlocks
          /\ blk \in [Blocks -> BlockState]
          /\ cache \in Seq(Blocks)
          /\ inMemoryIndex \in Nat
          /\ allInMemory \in BOOLEAN
          /\ served \in BOOLEAN
          /\ asked \in [Users -> Blocks \cup {NoBlock}]
          /\ ref \in [Users -> Blocks \cup {NoBlock, Wild}]
          /\ seen \in [Users -> Contents \cup {Garbage}]
          /\ copied \in [Blocks -> Contents \cup {Uncopied}]
          /\ cloning \in [Users -> Blocks \cup {NoBlock, MaxBlocks}]

-----------------------------------------------------------------------------
(* GridBlockInternal: one block r \in BlockState.                          *)

(* prepare(): _data gets its size and is filled with the undefined value.  *)
Blank(r) == [r EXCEPT !.initialized = TRUE, !.data = Undef]

(* A mutant of Save: what was written is not counted.                      *)
SaveUncounted(r, fault) ==
    IF ~r.inMemory THEN r
    ELSE [inMemory |-> FALSE, initialized |-> FALSE, data |-> Undef,
          swap |-> IF fault = NoFault THEN r.data ELSE Short]

(* save2Cache().  A file that is opened again keeps its old contents until *)
(* they are overwritten, and a block without data writes nothing.          *)
Save(r, fault) ==
    CASE ~r.inMemory -> r
      [] r.inMemory /\ fault = "saveOpen" ->
           [r EXCEPT !.inMemory = FALSE,
                     !.swap = IF @ = Never THEN Short ELSE @]
      [] r.inMemory /\ fault = "saveShort" /\ r.initialized ->
           [r EXCEPT !.inMemory = FALSE,
                     !.swap = IF @ \in {Never, Short} THEN Short ELSE Torn]
      [] OTHER ->
           [inMemory |-> FALSE, initialized |-> FALSE, data |-> Undef,
            swap |-> IF r.initialized THEN r.data
                     ELSE IF r.swap = Never THEN Short ELSE r.swap]

SaveOk(r, fault) == \/ ~r.inMemory
                    \/ fault # "saveOpen"
                       /\ (fault = "saveShort" => ~r.initialized)

(* A mutant of ReadSwap: a block that was never swapped is read too.       *)
ReadSwapAlways(r, fault) == [r EXCEPT !.data = r.swap]

(* The tail of loadFromCache(): read the swap file, if there is one.       *)
ReadSwap(r, fault) ==
    CASE r.swap = Never \/ fault = "readOpen" -> r
      [] r.swap # Never /\ fault # "readOpen"
           /\ (r.swap = Short \/ fault = "readShort") ->
           [r EXCEPT !.inMemory = FALSE, !.data = Torn]
      [] OTHER -> [r EXCEPT !.data = r.swap]

ReadOk(r, fault) == \/ r.swap = Never
                    \/ r.swap # Short /\ fault \notin {"readOpen", "readShort"}

(* fill(values), with the prepare(false) in front of it.                   *)
Fill(r, v, fault) ==
    LET swapped == ~r.initialized /\ ~r.inMemory /\ r.swap # Never
        ready == IF swapped THEN ReadSwap([Blank(r) EXCEPT !.inMemory = TRUE], fault)
                            ELSE r
    IN  [ready EXCEPT !.initialized = TRUE, !.data = v]

-----------------------------------------------------------------------------
(* The administration of the grid: g has the blocks, the list, the index   *)
(* and the blocks whose memory was given back during the call.             *)

Admin == [blk |-> blk, cache |-> cache, imi |-> inMemoryIndex, freed |-> {}]

SaveBlock(g, b, fault) ==
    [g EXCEPT !.blk[b] = Save(@, fault),
              !.freed = IF g.blk[b].inMemory /\ SaveOk(g.blk[b], fault)
                        THEN @ \cup {b} ELSE @]

Push(g, b) == [g EXCEPT !.cache = <<b>> \o @]

DropLast(g) == [g EXCEPT !.cache = Front(@)]

(* _cache.indexOf(b): the position counts from 0, -1 when b is not listed. *)
PositionOf(s, b) == SelectInSeq(s, LAMBDA x : x = b)
IndexOf(s, b) == PositionOf(s, b) - 1

(* A mutant of ListNew: the block that was saved stays in the list.        *)
ListNewKeepingLast(g, b, fault) ==
    IF g.cache # <<>> /\ b > g.imi
    THEN Push(SaveBlock(g, Last(g.cache), fault), b)
    ELSE Push(g, b)

(* update() with creation, or with an empty list.                          *)
ListNew(g, b, fault) ==
    IF g.cache # <<>> /\ b > g.imi
    THEN Push(DropLast(SaveBlock(g, Last(g.cache), fault)), b)
    ELSE Push(g, b)

(* A mutant of ListAgain: a block that is listed already stays where it is.*)
ListAgainInPlace(g, b, fault) == IF IndexOf(g.cache, b) >= 0 THEN g ELSE Push(g, b)

(* update() for a block that is not in front.  removeOne(index) removes    *)
(* the entry that EQUALS index, not the entry at that position.            *)
ListAgain(g, b, fault) ==
    LET index == IndexOf(g.cache, b)
        pushed == Push([g EXCEPT !.cache = IF index >= 0
                                           THEN RemoveFirst(@, index) ELSE @], b)
        last == Last(pushed.cache)
        saved == SaveBlock(pushed, last, fault)
    IN  IF index > g.imi
        THEN IF SaveOk(pushed.blk[last], fault) THEN DropLast(saved) ELSE saved
        ELSE pushed

(* The part of update() that keeps _cache, once the block is loaded.       *)
List(g, b, creation, fault) ==
    CASE creation \/ g.cache = <<>> -> ListNew(g, b, fault)
      [] ~creation /\ g.cache # <<>> /\ Head(g.cache) # b -> ListAgain(g, b, fault)
      [] OTHER -> g

(* needData(): the connector of the raster answers with setBlockData for   *)
(* this block, as the creation of it; the block is in memory by then.      *)
NeedData(g, b, fault) ==
    LET listed == IF allInMemory THEN g ELSE ListNew(g, b, fault)
    IN  IF served THEN [listed EXCEPT !.blk[b] = Fill(@, Source[b], fault)] ELSE g

(* loadFromCache(): prepare() asks for data even when they will be read    *)
(* from the swap file, because _inMemory is already set.                   *)
Prepared(g, b, fault) ==
    LET r == [g.blk[b] EXCEPT !.inMemory = TRUE]
    IN  IF r.initialized THEN [g EXCEPT !.blk[b] = r]
        ELSE NeedData([g EXCEPT !.blk[b] = Blank(r)], b, fault)

Load(g, b, fault) == [Prepared(g, b, fault) EXCEPT !.blk[b] = ReadSwap(@, fault)]

LoadOk(g, b, fault) == ReadOk(Prepared(g, b, fault).blk[b], fault)

(* at(): the lazy preparation of a block that is about to be used.         *)
At(g, b, fault) ==
    LET r == g.blk[b]
    IN  CASE r.initialized -> g
          [] ~r.initialized /\ ~r.inMemory /\ r.swap # Never ->
               [g EXCEPT !.blk[b] = ReadSwap([Blank(r) EXCEPT !.inMemory = TRUE], fault)]
          [] OTHER -> NeedData([g EXCEPT !.blk[b] = Blank(r)], b, fault)

(* A mutant of UnloadAll: the list survives the unloading.                 *)
UnloadAllKeepingList(g, fault) ==
    [blk |-> [b \in Blocks |-> Save(g.blk[b], fault)],
     cache |-> g.cache, imi |-> 0,
     freed |-> g.freed \cup {b \in Blocks : g.blk[b].inMemory /\ SaveOk(g.blk[b], fault)}]

(* unloadInternal().                                                       *)
UnloadAll(g, fault) ==
    [blk |-> [b \in Blocks |-> Save(g.blk[b], fault)],
     cache |-> <<>>, imi |-> 0,
     freed |-> g.freed \cup {b \in Blocks : g.blk[b].inMemory /\ SaveOk(g.blk[b], fault)}]

(* Grid::update().  When there is no memory for the block everything is    *)
(* unloaded, and the load tried once more.                                 *)
NoRoom(b, fault) == /\ ~blk[b].inMemory
                    /\ ~blk[b].initialized
                    /\ fault \in {"noMemory", "noMemoryTwice"}

Room(b, fault) ==
    IF NoRoom(b, fault)
    THEN UnloadAll([Admin EXCEPT !.blk[b].inMemory = TRUE], fault)
    ELSE Admin

UpdateOk(b, fault) ==
    blk[b].inMemory \/ LoadOk(Room(b, fault), b, fault)

UpdateThrows(b, fault) == NoRoom(b, fault) /\ fault = "noMemoryTwice"

Updated(b, creation, fault) ==
    LET room == Room(b, fault)
    IN  CASE UpdateThrows(b, fault) -> [room EXCEPT !.blk[b].inMemory = TRUE]
          [] ~UpdateThrows(b, fault) /\ ~UpdateOk(b, fault) -> Load(room, b, fault)
          [] OTHER -> List(IF blk[b].inMemory THEN room ELSE Load(room, b, fault),
                           b, creation, fault)

(* What value() and setValue() do before they touch the cells.             *)
Direct(b) == allInMemory \/ blk[b].inMemory

Access(b, fault) ==
    IF Direct(b) THEN At(Admin, b, fault)
    ELSE IF UpdateOk(b, fault) /\ ~UpdateThrows(b, fault)
         THEN At(Updated(b, FALSE, fault), b, fault)
         ELSE Updated(b, FALSE, fault)

AccessOk(b, fault) ==
    IF Direct(b)
    THEN blk[b].initialized \/ fault \notin {"noMemory", "noMemoryTwice"}
    ELSE UpdateOk(b, fault) /\ ~UpdateThrows(b, fault)

-----------------------------------------------------------------------------
(* The actions.                                                            *)

Init == /\ nblocks = 0
        /\ blk = [b \in Blocks |-> Fresh]
        /\ cache = <<>>
        /\ inMemoryIndex = MaxBlocks
        /\ allInMemory = FALSE
        /\ served = Serves
        /\ asked = [u \in Users |-> NoBlock]
        /\ ref = [u \in Users |-> NoBlock]
        /\ seen = [u \in Users |-> Undef]
        /\ cloning = [u \in Users |-> NoBlock]
        /\ copied = [b \in Blocks |-> Uncopied]

Live == 0 .. (nblocks - 1)

FaultChoice == Faults \cup {NoFault}

(* The references of all users, once the memory of some blocks is gone.    *)
After(freed) == [u \in Users |-> IF ref[u] \in freed THEN Wild ELSE ref[u]]

Become(g) == /\ blk' = g.blk
             /\ cache' = g.cache
             /\ inMemoryIndex' = g.imi

(* Grid::value(block, offset): a reference into the block, or an exception.*)
Value(u, b, fault) ==
    LET ok == AccessOk(b, fault)
        g == IF Direct(b) /\ ~ok THEN Admin ELSE Access(b, fault)
    IN  /\ b \in Live
        /\ Become(g)
        /\ Len(g.cache) <= MaxCache
        /\ ref' = [After(g.freed) EXCEPT ![u] =
                      IF ok THEN b ELSE NoBlock]
        /\ asked' = [asked EXCEPT ![u] = b]
        /\ UNCHANGED <<nblocks, allInMemory, served, seen, cloning, copied>>

(* The use of the reference: a read or a write of the cell, with no lock.  *)
ReadRef(u) ==
    /\ ref[u] # NoBlock
    /\ seen' = [seen EXCEPT ![u] = IF ref[u] = Wild THEN Garbage
                                   ELSE blk[ref[u]].data]
    /\ UNCHANGED <<nblocks, blk, cache, inMemoryIndex, allInMemory, served, asked, ref,
                   cloning, copied>>

WriteRef(u, v) ==
    /\ ref[u] # NoBlock
    /\ blk' = IF ref[u] = Wild THEN blk
              ELSE [blk EXCEPT ![ref[u]].data = v]
    /\ UNCHANGED <<nblocks, cache, inMemoryIndex, allInMemory, served, asked, ref,
                   seen, cloning, copied>>

(* Grid::setValue(block, offset, v).                                       *)
SetValue(u, b, v, fault) ==
    LET ok == AccessOk(b, fault)
        g == IF Direct(b) /\ ~ok THEN Admin ELSE Access(b, fault)
    IN  /\ b \in Live
        /\ Become(IF ok THEN [g EXCEPT !.blk[b].data = v] ELSE g)
        /\ Len(g.cache) <= MaxCache
        /\ ref' = [After(g.freed) EXCEPT ![u] = NoBlock]
        /\ asked' = [asked EXCEPT ![u] = b]
        /\ UNCHANGED <<nblocks, allInMemory, served, seen, cloning, copied>>

(* Grid::setBlockData(block, data, creation), called by a connector.       *)
SetBlockData(u, b, v, creation, fault) ==
    LET g == IF allInMemory THEN Admin ELSE Updated(b, creation, fault)
        front == IF allInMemory THEN b ELSE Head(g.cache)
        ok == allInMemory \/ (UpdateOk(b, fault) /\ ~UpdateThrows(b, fault))
    IN  /\ b \in Live
        /\ Become(IF ok THEN [g EXCEPT !.blk[front] = Fill(@, v, fault)] ELSE g)
        /\ Len(g.cache) <= MaxCache
        /\ ref' = [After(g.freed) EXCEPT ![u] = NoBlock]
        /\ asked' = [asked EXCEPT ![u] = b]
        /\ UNCHANGED <<nblocks, allInMemory, served, seen, cloning, copied>>

(* Grid::blockAsMemory(block, creation): a pointer to the cells of the     *)
(* block whose number is at position "block" of the list.                  *)
BlockAsMemory(u, b, creation, fault) ==
    LET g == IF allInMemory THEN Admin ELSE Updated(b, creation, fault)
        ok == allInMemory \/ (UpdateOk(b, fault) /\ ~UpdateThrows(b, fault))
        found == CASE allInMemory -> b
                   [] ~allInMemory /\ b < Len(g.cache) -> g.cache[b + 1]
                   [] OTHER -> Wild
    IN  /\ b \in Live
        /\ Become(IF ok /\ found # Wild THEN At(g, found, fault) ELSE g)
        /\ Len(g.cache) <= MaxCache
        /\ ref' = [After(g.freed) EXCEPT ![u] =
                      IF ok THEN found ELSE NoBlock]
        /\ asked' = [asked EXCEPT ![u] = b]
        /\ UNCHANGED <<nblocks, allInMemory, served, seen, cloning, copied>>

(* Grid::unload(), as SymbolTable::unloadRasters calls it between lines.   *)
Unload(u, fault) ==
    LET g == UnloadAll(Admin, fault)
    IN  /\ Become(g)
        /\ ref' = [After(g.freed) EXCEPT ![u] = NoBlock]
        /\ UNCHANGED <<nblocks, allInMemory, served, asked, seen, cloning, copied>>

(* Grid::clone(), which takes no lock, one block after the other.  A load  *)
(* that fails goes unnoticed.                                              *)
CloneStart(u) ==
    /\ nblocks > 0
    /\ \A w \in Users : cloning[w] = NoBlock
    /\ cloning' = [cloning EXCEPT ![u] = 0]
    /\ copied' = [b \in Blocks |-> Uncopied]
    /\ ref' = [ref EXCEPT ![u] = NoBlock]
    /\ UNCHANGED <<nblocks, blk, cache, inMemoryIndex, allInMemory, served,
                   asked, seen>>

(* A mutant of CloneBlock: a block that is swapped out is not loaded.      *)
CloneBlockUnloaded(u, fault) ==
    /\ cloning[u] \in Live
    /\ copied' = [copied EXCEPT ![cloning[u]] = blk[cloning[u]].data]
    /\ cloning' = [cloning EXCEPT ![u] = @ + 1]
    /\ UNCHANGED <<nblocks, blk, cache, inMemoryIndex, allInMemory, served,
                   asked, ref, seen>>

CloneBlock(u, fault) ==
    LET b == cloning[u]
        g == CASE ~blk[b].inMemory -> Load(Admin, b, fault)
               [] blk[b].inMemory /\ ~blk[b].initialized -> NeedData(Admin, b, fault)
               [] OTHER -> Admin
    IN  /\ b \in Live
        /\ Become(g)
        /\ ref' = After(g.freed)
        /\ copied' = [copied EXCEPT ![b] = g.blk[b].data]
        /\ cloning' = [cloning EXCEPT ![u] = b + 1]
        /\ UNCHANGED <<nblocks, allInMemory, served, asked, seen>>

CloneDone(u) ==
    /\ cloning[u] = nblocks
    /\ cloning' = [cloning EXCEPT ![u] = NoBlock]
    /\ UNCHANGED <<nblocks, blk, cache, inMemoryIndex, allInMemory, served,
                   asked, ref, seen, copied>>

(* From here on the grid is the clone.  Its blocks belong to no raster     *)
(* (i64UNDEF), are initialized, and do not count as in memory; "fits" is   *)
(* what prepare() made of the memory that is left.                         *)
UseClone(u, fits) ==
    /\ cloning[u] = nblocks
    /\ fits \/ nblocks > 1
    /\ blk' = [b \in Blocks |-> IF copied[b] = Uncopied THEN Fresh
                               ELSE [Fresh EXCEPT !.initialized = TRUE, !.data = copied[b]]]
    /\ cache' = <<>>
    /\ inMemoryIndex' = 1
    /\ allInMemory' = fits
    /\ served' = FALSE
    /\ ref' = [w \in Users |-> NoBlock]
    /\ cloning' = [cloning EXCEPT ![u] = NoBlock]
    /\ UNCHANGED <<nblocks, asked, seen, copied>>

(* Grid::prepare(raster, size): n new blocks, k of which fit in memory.    *)
Prepare(u, n, k) ==
    /\ n \in 1 .. MaxBlocks /\ k \in 1 .. n
    /\ nblocks' = n
    /\ blk' = [b \in Blocks |-> Fresh]
    /\ cache' = <<>>
    /\ inMemoryIndex' = k
    /\ allInMemory' = (n <= k)
    /\ ref' = [After(Blocks) EXCEPT ![u] = NoBlock]
    /\ UNCHANGED <<served, asked, seen, cloning, copied>>

(* Grid::setBandProperties(raster, n): n more bands of one block each,     *)
(* with neither _inMemoryIndex nor _allInMemory brought up to date.        *)
SetBandProperties(u, n) ==
    /\ nblocks > 0 /\ nblocks + n <= MaxBlocks
    /\ nblocks' = nblocks + n
    /\ ref' = [ref EXCEPT ![u] = NoBlock]
    /\ UNCHANGED <<blk, cache, inMemoryIndex, allInMemory, served,
                   asked, seen, cloning, copied>>

-----------------------------------------------------------------------------

(* A user is busy with one call at a time.                                 *)
Idle(u) == cloning[u] = NoBlock

(* Access to the cells, and what is done to the grid as a whole.           *)
AccessNext(u) ==
    /\ Idle(u)
    /\ \/ \E b \in Blocks, fault \in FaultChoice : Value(u, b, fault)
       \/ ReadRef(u)
       \/ \E v \in Values : WriteRef(u, v)
       \/ \E b \in Blocks, v \in Values, fault \in FaultChoice :
              SetValue(u, b, v, fault)

ResizeNext(u) ==
    /\ Idle(u)
    /\ \/ \E n \in 1 .. MaxBlocks : \E k \in 1 .. n : Prepare(u, n, k)
       \/ \E n \in 1 .. MaxBlocks : SetBandProperties(u, n)

UnloadNext(u) == Idle(u) /\ \E fault \in FaultChoice : Unload(u, fault)

CloneNext(u) == \/ Idle(u) /\ CloneStart(u)
                \/ \E fault \in FaultChoice : CloneBlock(u, fault)
                \/ CloneDone(u)
                \/ \E fits \in BOOLEAN : UseClone(u, fits)

UserNext(u) == AccessNext(u) \/ ResizeNext(u) \/ UnloadNext(u) \/ CloneNext(u)

ConnectorFill ==
    \E u \in Users, b \in Blocks, v \in Values, creation \in Creations,
       fault \in FaultChoice :
        Idle(u) /\ SetBlockData(u, b, v, creation, fault)

ConnectorMemory ==
    \E u \in Users, b \in Blocks, creation \in Creations, fault \in FaultChoice :
        Idle(u) /\ BlockAsMemory(u, b, creation, fault)

UsersNext == \E u \in Users : UserNext(u)
Next == UsersNext \/ ConnectorFill \/ ConnectorMemory

(* A raster that is made, and then: its cells are accessed; its blocks are *)
(* swapped as well; a connector fills blocks at any time; it asks for the  *)
(* memory of blocks.  Then what users may do, and everything.              *)
AccessStep == \E u \in Users : AccessNext(u) \/ (nblocks = 0 /\ ResizeNext(u))
SwapStep == AccessStep \/ \E u \in Users : UnloadNext(u)
FillStep == SwapStep \/ ConnectorFill
MemoryStep == FillStep \/ ConnectorMemory

AccessSpec == Init /\ [][AccessStep]_vars
SwapSpec == Init /\ [][SwapStep]_vars
FillSpec == Init /\ [][FillStep]_vars
MemorySpec == Init /\ [][MemoryStep]_vars
UserSpec == Init /\ [][UsersNext]_vars
Spec == Init /\ [][Next]_vars

-----------------------------------------------------------------------------
(* What the blocks hold, wherever their data are.                          *)
Content(r, b, fromConnector) ==
    CASE r.initialized -> r.data
      [] ~r.initialized /\ r.swap # Never -> r.swap
      [] OTHER -> IF fromConnector THEN Source[b] ELSE Undef

Store == INSTANCE RasterStore WITH
             NoBlock <- NoBlock, Uncopied <- Uncopied,
             Initial <- [b \in Blocks |-> IF Serves THEN Source[b] ELSE Undef],
             Empty <- [b \in Blocks |-> Undef],
             content <- [b \in Blocks |-> Content(blk[b], b, served)]

(* The grid is a store: through swapping, lazy loading, cloning and        *)
(* resizing every block holds what was last written to it, and every       *)
(* reference reads that (Grid::value, "block is now in memory").           *)
IsRasterStore == Store!Spec

(* _cache lists blocks that are in memory, and each of them once.          *)
CacheListsMemory ==
    /\ \A i \in DOMAIN cache : blk[cache[i]].inMemory
    /\ \A i, j \in DOMAIN cache : cache[i] = cache[j] => i = j

(* save2Cache() gives the memory of a block back only when all its data    *)
(* are in the swap file, whatever fails on the way: a block without data   *)
(* in memory is new, or comes back complete.                               *)
NothingHalfSaved == \A b \in Blocks : ~blk[b].initialized => blk[b].swap # Short

(* "the index is bigger than allowed, so the last element of the list is   *)
(* unloaded" (grid.cpp, Grid::update): a grid that does not fit in memory  *)
(* keeps no more blocks there than the positions 0 .. _inMemoryIndex.      *)
MemoryBounded ==
    ~allInMemory =>
        Cardinality({b \in Blocks : blk[b].inMemory}) <= inMemoryIndex + 1

(* "find the block and move it to the front of the list": moving an entry  *)
(* neither duplicates it nor loses that of another block.                  *)
MovesToFront == \A i, j \in DOMAIN cache : cache[i] = cache[j] => i = j

==============================================================================
