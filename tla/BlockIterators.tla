--------------------------- MODULE BlockIterators ---------------------------
(***************************************************************************)
(* The BlockIterator: a PixelIterator over a box of the input raster that  *)
(* goes on by whole blocks, and the block that is seen from where it       *)
(* stands.  A size is <<columns, lines, bands>>; a place in the block is   *)
(* the offset of a pixel from the pixel of the iterator.  Only the flow    *)
(* XYZ is used by block iterators.                                         *)
(***************************************************************************)
EXTENDS PixelIterators

(* The places that a CellIterator visits, each once: the block hangs from its first *)
(* pixel ...                                                                        *)
CellsOfABlock(size) == (0 .. size[1] - 1) \X (0 .. size[2] - 1) \X (0 .. size[3] - 1)

(* ... and those that a linear filter looks at, whose block is around its pixel     *)
(* (the rank order filter takes GridBlock::toVector, which reads no cell).          *)
PlacesOfAWindow(size) ==
  (-(size[1] \div 2) .. size[1] \div 2) \X (-(size[2] \div 2) .. size[2] \div 2) \X {0}

Within(v, last) == LET low == Smallest(v, last) IN IF low < 0 THEN 0 ELSE low

(* Mutant of ActualPosition: a place left of the raster is not moved to its edge.   *)
withoutLowerEdge(it, place) ==
  <<Smallest(it.x + place[1], it.box.x2), Smallest(it.y + place[2], it.box.y2),
    Smallest(it.z + place[3], it.box.z2)>>

(* A place outside is moved to the first line or column of the raster, or to the    *)
(* last line or column of the box of the iterator.                                  *)
ActualPosition(it, place) ==
  <<Within(it.x + place[1], it.box.x2), Within(it.y + place[2], it.box.y2),
    Within(it.z + place[3], it.box.z2)>>

(* The cell that is read for a place in the block: its block of lines and its       *)
(* offset come from tables with an entry for each line.                             *)
CellSeen(g, it, place) ==
  LET p == ActualPosition(it, place)
  IN  <<p[2] \div g.maxLines + BlocksPerBand(g) * p[3], g.xs * (p[2] % g.maxLines) + p[1]>>

(* Mutant of StepOf: after the last block of a line of blocks the next line is taken *)
(* and not the next line of blocks.                                                 *)
onlyTheNextLine(it, steps) ==
  IF it.x + steps[1] > it.box.x2 THEN 1 + it.box.x2 - it.x ELSE steps[1]

(* How far ++ goes in the walk over the box.  That it is in the last line of blocks *)
(* is seen from the step in the x direction: with steps wider than high the walk    *)
(* is left from there.                                                              *)
StepOf(it, steps) ==
  CASE it.y + steps[1] - 1 > it.box.y2 -> it.linear + steps[1] + 1
    [] it.x + steps[1] > it.box.x2 -> 1 + it.box.x2 - it.x + XLength(it.box) * (steps[2] - 1)
    [] OTHER -> steps[1]

(* In a next band the bands of the block are skipped too.                           *)
NextBlock(g, it, steps) ==
  LET m == Move(g, it, StepOf(it, steps))
  IN  IF m.z # it.z THEN Move(g, m, XLength(it.box) * YLength(it.box) * (steps[3] - 1)) ELSE m
=============================================================================
