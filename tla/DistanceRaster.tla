--------------------------- MODULE DistanceRaster ---------------------------
(***************************************************************************)
(* DistanceRaster::distanceCalculation, run by one task on a raster of one *)
(* band: every pixel gets its distance to the nearest source, by sweeps of *)
(* one iterator over the raster, forward with ++ and back with --, until a *)
(* sweep changes nothing.  One step to the side counts 5, one along the    *)
(* diagonal 7.  The scaling of the result and the weights (not used by the *)
(* code) are left out.                                                     *)
(***************************************************************************)
EXTENDS PixelIterators

CONSTANTS
  Grids,   \* the rasters, with three columns or more
  Far      \* 1e100, the distance where no source was found

VARIABLES
  grid,    \* the raster
  sources, \* the pixels of the input that have a value
  distances, \* _outputRaster, [cell -> distance]
  iter,    \* the iterator
  sweep,   \* "forward", "back" or "done", or "threw"
  changes  \* hasChanges

vars == <<grid, sources, distances, iter, sweep, changes>>

Pixels == PixelsOf(WholeBox(grid))

First == Iterator(grid, WholeBox(grid), "XYZ")

(* The constructor of the iterator throws for a raster of one line, and nothing is  *)
(* written.  Else the input is copied; all source pixels are 0, and the others      *)
(* infinitely far.                                                                  *)
Init ==
  /\ grid \in Grids
  /\ sources \in SUBSET Pixels
  /\ iter = First /\ changes = FALSE
  /\ \/ ~IsValid(First) /\ sweep = "threw" /\ distances = << >>
     \/ /\ IsValid(First) /\ sweep = "forward"
        /\ distances =
             [c \in Cells(grid) |-> IF \E p \in sources : CellOf(grid, p) = c THEN 0 ELSE Far]

Further(d, step) == IF d = Far THEN Far ELSE d + step

(* Mutant of StepTo: the diagonal is taken for two steps to the side.               *)
sidewaysOnly(p, q) == 5 * (IF p[1] # q[1] /\ p[2] # q[2] THEN 2 ELSE 1)

StepTo(p, q) == IF p[1] # q[1] /\ p[2] # q[2] THEN 7 ELSE 5

Neighbours(p) ==
  {q \in Pixels : q # p /\ q[1] \in p[1] - 1 .. p[1] + 1 /\ q[2] \in p[2] - 1 .. p[2] + 1}

(* setDistanceValue: the value in the cell of the iterator becomes the smallest of  *)
(* itself and the ways over the neighbours of the pixel that it stands at.          *)
Distances(p, d) == {d} \union {Further(distances[CellOf(grid, q)], StepTo(p, q)) : q \in Neighbours(p)}

Nearest(p, d) == CHOOSE m \in Distances(p, d) : \A e \in Distances(p, d) : e = Far \/ (m # Far /\ m <= e)

SetDistanceValue ==
  LET old == distances[CellAt(iter)]
      new == Nearest(PixelAt(iter), old)
  IN  /\ distances' = [distances EXCEPT ![CellAt(iter)] = new]
      /\ changes' = (changes \/ new # old)

AtEnd == iter.linear = EndOf(grid, First).linear
AtBegin == iter.linear = First.linear

Forward ==
  /\ sweep = "forward" /\ ~AtEnd
  /\ SetDistanceValue
  /\ iter' = Move(grid, iter, 1)
  /\ UNCHANGED <<grid, sources, sweep>>

(* The result of iter.end() is not used: the way back starts where the iterator     *)
(* stopped, at the last pixel.                                                      *)
TurnBack ==
  /\ sweep = "forward" /\ AtEnd
  /\ sweep' = IF changes THEN "back" ELSE "done"
  /\ changes' = FALSE
  /\ UNCHANGED <<grid, sources, distances, iter>>

Back ==
  /\ sweep = "back" /\ ~AtBegin
  /\ SetDistanceValue
  /\ iter' = Move(grid, iter, -1)
  /\ UNCHANGED <<grid, sources, sweep>>

(* The next way forward starts where the way back stopped.                          *)
TurnForward ==
  /\ sweep = "back" /\ AtBegin
  /\ sweep' = IF changes THEN "forward" ELSE "done"
  /\ changes' = FALSE
  /\ UNCHANGED <<grid, sources, distances, iter>>

Ended == sweep \in {"done", "threw"} /\ UNCHANGED vars

Next == Forward \/ TurnBack \/ Back \/ TurnForward \/ Ended

Spec == Init /\ [][Next]_vars

-----------------------------------------------------------------------------
Abs(n) == IF n < 0 THEN -n ELSE n

(* The length of the shortest way between two pixels of a rectangle.                *)
Way(p, q) ==
  LET dx == Abs(p[1] - q[1])  dy == Abs(p[2] - q[2])
  IN  5 * Abs(dx - dy) + 7 * Smallest(dx, dy)

Distance(p) ==
  IF sources = {} THEN Far
  ELSE CHOOSE d \in {Way(p, q) : q \in sources} : \A q \in sources : d <= Way(p, q)

OneBlock == grid.ys <= grid.maxLines

(* A raster of one line gets no distances.  In another, of one block, no pixel ever *)
(* comes nearer to a source than it is, and at the end every pixel has its          *)
(* distance, although no sweep after the first starts at the first pixel            *)
(* (distanceraster.cpp).                                                            *)
DistancesAreRight ==
  /\ grid.ys = 1 <=> sweep = "threw"
  /\ OneBlock /\ grid.ys > 1 =>
       \A p \in Pixels :
         LET d == distances[CellOf(grid, p)]
         IN  /\ d = Far \/ (sources # {} /\ d >= Distance(p))
             /\ sweep = "done" => d = Distance(p)
=============================================================================
