---------------------------- MODULE RasterTasks ----------------------------
(***************************************************************************)
(* OperationHelperRaster::execute and subdivideTasks: the lines of the     *)
(* output raster are divided into boxes, a task for each box walks it with *)
(* a PixelIterator and writes what it computes into the cells the iterator *)
(* gives it.  An operation that does not divide its work is one task with  *)
(* a box and a flow of its own.  What is written at a pixel is the pixel   *)
(* itself: it stands for a value computed from that pixel of the inputs.   *)
(* A linear filter and an aggregation read the pixels of a block of the    *)
(* input, with a BlockIterator that goes on with the iterator of the output; what *)
(* they write is the function from the places in the block to the cells    *)
(* that were read for them: it stands for the filtered or aggregated value. *)
(***************************************************************************)
EXTENDS BlockIterators

CONSTANTS
  Jobs,         \* the operations: [grid, own, flow, n, threaded, kind, input, size]; own
                \* is a box or None; kind "pixels", "filter" or "groups"; for the last
                \* two the grid of the input and the size of the blocks
  IdealThreads, \* QThread::idealThreadCount()
  FewCells,     \* below this many cells (10000) the work is not divided
  None

ASSUME ThreadsAssumption == IdealThreads \in Nat \ {0} /\ FewCells \in Nat
ASSUME NoneAssumption == None \notin {"done", "threw"}

Extents == [xs : Nat \ {0}, ys : Nat \ {0}, zs : Nat \ {0}, maxLines : Nat \ {0}]

(* A filter, here always a linear one, has an output of the size of its input; an   *)
(* aggregation has one cell for each whole group of cells.  Both divide their work  *)
(* and go on by one pixel.                                                          *)
ASSUME JobsAssumption ==
  \A j \in Jobs :
    /\ j.grid \in Extents /\ j.n \in Nat \ {0} /\ j.flow \in {"XYZ", "ZXY", "YXZ"}
    /\ j.threaded \in BOOLEAN /\ j.kind \in {"pixels", "filter", "groups"}
    /\ j.kind # "pixels" =>
         /\ j.own = None /\ j.flow = "XYZ" /\ j.n = 1
         /\ j.input \in Extents /\ j.size \in [1 .. 3 -> Nat \ {0}]
    /\ j.kind = "filter" =>
         j.input.xs = j.grid.xs /\ j.input.ys = j.grid.ys /\ j.input.zs = j.grid.zs
    /\ j.kind = "groups" =>
         /\ j.grid.xs * j.size[1] <= j.input.xs
         /\ j.grid.ys * j.size[2] <= j.input.ys
         /\ j.grid.zs * j.size[3] <= j.input.zs

VARIABLES
  job,    \* the operation that runs
  boxes,  \* the boxes of its tasks
  it,     \* the iterator of a task, None before it is made
  blockIt, \* the BlockIterator of a task of a filter or an aggregation, or None
  endAt,  \* the linear position of the end of its walk
  state,  \* [task -> "new", "walks", "done" or "threw"], and "none" without a task
  cells,  \* [cell -> what was written there last, or None]
  result  \* what execute returns: None, "done" or "threw"

vars == <<job, boxes, it, blockIt, endAt, state, cells, result>>

Tasks == 1 .. IdealThreads

Init ==
  /\ job \in Jobs
  /\ boxes = << >>
  /\ it = [t \in Tasks |-> None] /\ blockIt = [t \in Tasks |-> None]
  /\ endAt = [t \in Tasks |-> 0]
  /\ state = [t \in Tasks |-> "none"]
  /\ cells = [c \in Cells(job.grid) |-> None]
  /\ result = None

NumberOfTasks ==
  IF job.grid.xs * job.grid.ys * job.grid.zs < FewCells \/ ~job.threaded THEN 1
  ELSE Smallest(IdealThreads, job.grid.ys)

(* Mutant of SubdivideTasks: the box of a task ends before the line where the next  *)
(* one starts.                                                                      *)
withoutLastLine(g, cores) ==
  LET step == g.ys \div cores
  IN  [t \in 1 .. cores |->
        BoxOf(0, (t - 1) * step, 0, g.xs - 1, Smallest(g.ys - 1, t * step - 1), g.zs)]

(* The box of a task includes the first line of the next box, and a band too many.  *)
SubdivideTasks(g, cores) ==
  LET step == g.ys \div cores
  IN  [t \in 1 .. cores |->
        BoxOf(0, (t - 1) * step, 0, g.xs - 1, Smallest(g.ys - 1, t * step), g.zs)]

Execute ==
  /\ boxes = << >>
  /\ boxes' = IF job.own # None THEN <<job.own>> ELSE SubdivideTasks(job.grid, NumberOfTasks)
  /\ state' = [t \in Tasks |-> IF t \in DOMAIN boxes' THEN "new" ELSE "none"]
  /\ UNCHANGED <<job, it, blockIt, endAt, cells, result>>

(* The box of a task in the input: the one in the output, or the groups of its      *)
(* pixels.                                                                          *)
InputBox(b) ==
  LET size == job.size
  IN  CASE job.kind = "filter" -> b
        [] job.kind = "groups" ->
             BoxOf(b.x1, b.y1 * size[2], b.z1 * size[3],
                   (b.x2 + 1) * size[1] - 1, (b.y2 + 1) * size[2] - 1, (b.z2 + 1) * size[3] - 1)

(* The iterators of a task; a constructor throws when the box is too thin.          *)
Begin(t) ==
  /\ state[t] = "new"
  /\ LET new   == Iterator(job.grid, boxes[t], job.flow)
         block == IF job.kind = "pixels" THEN None
                  ELSE Iterator(job.input, InputBox(boxes[t]), "XYZ")
     IN  IF IsValid(new) /\ (block = None \/ IsValid(block))
           THEN /\ it' = [it EXCEPT ![t] = new]
                /\ blockIt' = [blockIt EXCEPT ![t] = block]
                /\ endAt' = [endAt EXCEPT ![t] = EndOf(job.grid, new).linear]
                /\ state' = [state EXCEPT ![t] = "walks"]
           ELSE /\ state' = [state EXCEPT ![t] = "threw"]
                /\ UNCHANGED <<it, blockIt, endAt>>
  /\ UNCHANGED <<job, boxes, cells, result>>

AtEnd(t) == it[t].linear = endAt[t]

(* A write outside the raster changes memory that is not in the model.              *)
Write(t, v) ==
  /\ state[t] = "walks" /\ ~AtEnd(t)
  /\ cells' = [c \in DOMAIN cells |-> IF c = CellAt(it[t]) THEN v ELSE cells[c]]
  /\ it' = [it EXCEPT ![t] = Move(job.grid, @, job.n)]
  /\ UNCHANGED <<job, boxes, endAt, state, result>>

Step(t) == job.kind = "pixels" /\ Write(t, PixelAt(it[t])) /\ UNCHANGED blockIt

(* A linear filter sees the window around its pixel ...                             *)
FilterStep(t) ==
  /\ job.kind = "filter"
  /\ Write(t, [place \in PlacesOfAWindow(job.size) |-> CellSeen(job.input, blockIt[t], place)])
  /\ blockIt' = [blockIt EXCEPT ![t] = NextBlock(job.input, @, <<1, 1, 1>>)]

(* ... and an aggregation one group of pixels after the other.                      *)
AggregateStep(t) ==
  /\ job.kind = "groups"
  /\ Write(t, [place \in CellsOfABlock(job.size) |-> CellSeen(job.input, blockIt[t], place)])
  /\ blockIt' = [blockIt EXCEPT ![t] = NextBlock(job.input, @, job.size)]

Finish(t) ==
  /\ state[t] = "walks" /\ AtEnd(t)
  /\ state' = [state EXCEPT ![t] = "done"]
  /\ UNCHANGED <<job, boxes, it, blockIt, endAt, cells, result>>

(* The futures are waited for in the order of the tasks; what a task threw is       *)
(* thrown again, after the tasks have ended (a future waits when it is deleted).    *)
Join ==
  /\ boxes # << >> /\ result = None
  /\ \A t \in DOMAIN boxes : state[t] \in {"done", "threw"}
  /\ result' = IF \E t \in DOMAIN boxes : state[t] = "threw" THEN "threw" ELSE "done"
  /\ UNCHANGED <<job, boxes, it, blockIt, endAt, state, cells>>

(* The operation has ended.                                                         *)
Ended == result # None /\ UNCHANGED vars

Next ==
  \/ Execute \/ Join \/ Ended
  \/ \E t \in Tasks : Begin(t) \/ Step(t) \/ FilterStep(t) \/ AggregateStep(t) \/ Finish(t)

Spec == Init /\ [][Next]_vars

-----------------------------------------------------------------------------
Walking(t) == state[t] = "walks" /\ ~AtEnd(t)

FirstLinesOfABand(t) == it[t].z > it[t].box.z1 /\ it[t].y <= it[t].box.y1 + 1

FullWidth(t) ==
  /\ it[t].box.x1 = 0 /\ it[t].box.x2 = job.grid.xs - 1
  /\ it[t].box.y1 % job.grid.maxLines = 0

(* "all algorithms also work on stacks of raster layers" (pixeliterator.h:66): the  *)
(* cell that an iterator in the XYZ flow gives is the cell of the pixel it stands   *)
(* at.                                                                              *)
PixelsInTheirCells ==
  \A t \in Tasks :
    (Walking(t) /\ job.flow = "XYZ" /\ job.n = 1) =>
      CellAt(it[t]) = CellOf(job.grid, PixelAt(it[t]))

(* The same, where the code does it: in the ZXY flow always, in the XYZ flow except *)
(* in the first two lines of the second and later bands, and in the YXZ flow for    *)
(* boxes of the whole width that start with a block.                                *)
CellOfThePixel ==
  \A t \in Tasks :
    (/\ Walking(t)
     /\ \/ job.flow = "ZXY"
        \/ job.flow = "XYZ" /\ job.n = 1 /\ ~FirstLinesOfABand(t)
        \/ job.flow = "YXZ" /\ job.n = 1 /\ FullWidth(t)) =>
      CellAt(it[t]) = CellOf(job.grid, PixelAt(it[t]))

(* execute throws exactly when the boxes have one column, or the raster as many     *)
(* lines as tasks, because the constructor of the iterator takes the last line of a *)
(* box for one outside.                                                             *)
ThrowsWhenThin ==
  (result # None /\ job.own = None) =>
    (result = "threw" <=> job.grid.xs = 1 \/ job.grid.ys = NumberOfTasks)

(* The rasters whose cells the walks find in the XYZ flow: with one band, or with    *)
(* bands of one block that has lines to spare.                                      *)
OneBlockBands == job.grid.zs = 1 \/ job.grid.ys < job.grid.maxLines

(* At most one line is left when the lines are divided over the tasks.              *)
LinesDivide == job.grid.ys % NumberOfTasks <= 1

(* When execute has returned, every pixel of the raster was computed and is in its  *)
(* cell, although tasks write the line they share.                                  *)
TasksCoverTheRaster ==
  (/\ result = "done" /\ job.own = None /\ job.kind = "pixels" /\ job.n = 1
   /\ job.flow = "XYZ" /\ OneBlockBands /\ LinesDivide) =>
    \A p \in PixelsOf(WholeBox(job.grid)) : cells[CellOf(job.grid, p)] = p

(* The cells that a window on p is made of, when lines after last are not seen.     *)
WindowUpTo(p, last) ==
  [place \in PlacesOfAWindow(job.size) |->
    CellOf(job.input,
           <<Within(p[1] + place[1], job.grid.xs - 1), Within(p[2] + place[2], last), p[3]>>)]

LastLines == {Ensure(job.grid, boxes[t]).y2 : t \in DOMAIN boxes}

(* When a linear filter has returned, every pixel of the raster was computed from   *)
(* the pixels around it, those over the edge of the raster replaced by the edge.    *)
(* The tasks do not look beyond their boxes: half a window before the last line of  *)
(* a box that line is the edge, and on the line itself, which the next task writes  *)
(* too, it is the edge when the earlier task was the later to write it              *)
(* (linearrasterfilter.cpp; rasterfilter.cpp: LinearGridFilter::applyTo).           *)
WindowsAreRight ==
  (result = "done" /\ job.kind = "filter" /\ OneBlockBands /\ LinesDivide) =>
    \A p \in PixelsOf(WholeBox(job.grid)) :
      LET seen == cells[CellOf(job.grid, p)]
      IN  \/ seen = WindowUpTo(p, job.grid.ys - 1)
          \/ \E last \in LastLines :
               p[2] \in last - job.size[2] \div 2 + 1 .. last /\ seen = WindowUpTo(p, last)

(* When an aggregation has returned, every pixel of the output was computed from    *)
(* the pixels of its group, all of them and no others, whichever tasks wrote it:    *)
(* for groups that are not wider than high (aggregateraster.cpp).                   *)
GroupsAreWhole ==
  (/\ result = "done" /\ job.kind = "groups"
   /\ job.size[1] <= job.size[2] /\ OneBlockBands /\ LinesDivide) =>
    \A p \in PixelsOf(WholeBox(job.grid)) :
      cells[CellOf(job.grid, p)] =
        [place \in CellsOfABlock(job.size) |->
          CellOf(job.input, [i \in 1 .. 3 |-> p[i] * job.size[i] + place[i]])]

Boxes == [x1 : Int, y1 : Int, z1 : Int, x2 : Int, y2 : Int, z2 : Int]

(* The box is in the raster and has a band.                                         *)
InRaster(g, b) ==
  /\ b \in Boxes
  /\ 0 <= b.x1 /\ b.x2 < g.xs /\ 0 <= b.y1 /\ b.y2 < g.ys
  /\ 0 <= b.z1 /\ b.z1 <= b.z2 /\ b.z2 < g.zs

(* The boxes that operations give themselves are in their rasters, once they are    *)
(* cut off.                                                                         *)
OwnBoxesInside == \A j \in Jobs : j.own # None => InRaster(j.grid, Ensure(j.grid, j.own))

Made(t) == state[t] \in {"walks", "done"}

Size(t) == IF Made(t) THEN Volume(it[t].box) ELSE 0

Left(t) ==
  IF ~Made(t) \/ it[t].linear = it[t].end THEN 0
  ELSE Volume(it[t].box) - Rank(it[t].box, job.flow, PixelAt(it[t]))

Walk(t) == INSTANCE BoxWalk WITH size <- Size(t), n <- job.n, left <- Left(t)

BoxSteps == \A t \in Tasks : [Walk(t)!Next]_(Walk(t)!vars)

(* Every task visits the pixels of its box in the order of its flow, each once, and *)
(* is at the end after the last one (pixeliterator.cpp).                            *)
IsBoxWalk == /\ \A t \in Tasks : Walk(t)!Init
             /\ [][BoxSteps]_vars
=============================================================================
