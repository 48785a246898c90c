--------------------------- MODULE PixelIterators ---------------------------
(***************************************************************************)
(* The PixelIterator as operators on records.  A grid is [xs, ys, zs,      *)
(* maxLines]; a box is [x1, y1, z1, x2, y2, z2], its corners included; an  *)
(* iterator has its box, its flow, the pixel x, y, z it stands at, the     *)
(* block and the offset in the block it reads, and the linear position     *)
(* that is compared with the end.  The flags x/y/zChanged, the selections  *)
(* and the flows for which move does nothing are left out.                 *)
(***************************************************************************)
EXTENDS Integers, Sequences, FiniteSets

(* C++ divides towards zero.                                                        *)
Trunc(a, b) == IF a >= 0 THEN a \div b ELSE -((-a) \div b)

Smallest(a, b) == IF a <= b THEN a ELSE b

-----------------------------------------------------------------------------
(* The layout of a grid: every band has blocks of maxLines lines of its own *)

BlocksPerBand(g) == (g.ys + g.maxLines - 1) \div g.maxLines
Blocks(g) == BlocksPerBand(g) * g.zs

BlockSize(g, block) ==
  g.xs * Smallest(g.maxLines, g.ys - g.maxLines * (block % BlocksPerBand(g)))

(* Where Grid::value(Pixel) finds a pixel.                                          *)
CellOf(g, p) ==
  <<BlocksPerBand(g) * p[3] + p[2] \div g.maxLines, g.xs * (p[2] % g.maxLines) + p[1]>>

Cells(g) == UNION {{b} \X (0 .. BlockSize(g, b) - 1) : b \in 0 .. Blocks(g) - 1}

-----------------------------------------------------------------------------
(* Boxes *)

BoxOf(x1, y1, z1, x2, y2, z2) ==
  [x1 |-> x1, y1 |-> y1, z1 |-> z1, x2 |-> x2, y2 |-> y2, z2 |-> z2]

WholeBox(g) == BoxOf(0, 0, 0, g.xs - 1, g.ys - 1, g.zs - 1)

XLength(b) == b.x2 - b.x1 + 1
YLength(b) == b.y2 - b.y1 + 1
ZLength(b) == b.z2 - b.z1 + 1

(* A box that is longer than the raster is cut off at its end.                      *)
Ensure(g, b) ==
  [b EXCEPT !.x2 = IF XLength(b) > g.xs THEN g.xs - 1 ELSE @,
            !.y2 = IF YLength(b) > g.ys THEN g.ys - 1 ELSE @,
            !.z2 = IF ZLength(b) > g.zs THEN g.zs - 1 ELSE @]

-----------------------------------------------------------------------------
(* Construction *)

LinearOf(g, x, y, z) == x + g.xs * y + g.xs * g.ys * z

InitPosition(g, it) ==
  LET cell == CellOf(g, <<it.x, it.y, it.z>>)
  IN  [it EXCEPT !.block = cell[1], !.offset = cell[2],
                 !.linear = LinearOf(g, it.x, it.y, it.z),
                 !.end = LinearOf(g, it.box.x2, it.box.y2, it.box.z2) + 1]

Iterator(g, box, flow) ==
  LET b == Ensure(g, box)
  IN  InitPosition(g, [box |-> b, flow |-> flow, x |-> b.x1, y |-> b.y1, z |-> b.z1,
                       block |-> 0, offset |-> 0, linear |-> 0, end |-> 0])

(* The constructor throws unless the first pixel is before the last line and the    *)
(* last column of the box.                                                          *)
IsValid(it) == it.box.x1 < it.box.x2 /\ it.box.y1 < it.box.y2

(* Mutant of IsAtEnd: the band is not looked at.                                    *)
isAtLastPixelOfABand(it) == it.x = it.box.x2 /\ it.y = it.box.y2

IsAtEnd(it) == it.x = it.box.x2 /\ it.y = it.box.y2 /\ it.z = it.box.z2

ToEnd(it) == [it EXCEPT !.linear = it.end]

(* The cell that operator * gives a reference to.                                   *)
CellAt(it) == <<it.block, it.offset>>

PixelAt(it) == <<it.x, it.y, it.z>>

-----------------------------------------------------------------------------
(* Movement *)

(* Mutant of Move2NextBlock: the offset is not set back at a new block.             *)
keepOffset(g, it) ==
  [it EXCEPT !.block = BlocksPerBand(g) * it.z + Trunc(it.y, g.maxLines)]

(* When the line is in another block the iterator goes to the first line of that.   *)
Move2NextBlock(g, it) ==
  LET block == BlocksPerBand(g) * it.z + Trunc(it.y, g.maxLines)
  IN  [it EXCEPT !.block  = block,
                 !.offset = IF block # it.block THEN it.x ELSE @,
                 !.linear = IF block >= Blocks(g) THEN it.end ELSE @]

OffsetOf(g, x, y) == x + g.xs * (y % g.maxLines)

(* moveYZ, forward: beyond the last column the iterator goes on at a next line ...  *)
NextLine(g, it) ==
  LET b == it.box
  IN  [it EXCEPT !.x = b.x1 + ((it.x - b.x1) % XLength(b)),
                 !.y = it.y + (it.x - b.x1) \div XLength(b)]

(* ... and backward, before the first column, at the line before: from the position *)
(* that end() gives in the last line of the last band, else by a division of        *)
(* doubles that is cut off, so that line 0 stays line 0 in a box of three columns.  *)
LineBefore(g, it, n) ==
  LET b == it.box
      moved == b.x1 - it.x
  IN  IF it.end = it.linear - n
        THEN [it EXCEPT !.x = b.x2, !.y = b.y2, !.z = it.z - 1, !.block = it.block - 1,
                        !.linear = (it.z - 1) * XLength(b) * YLength(b) * ZLength(b)
                                   + b.y2 * g.xs + b.x2 + n + 1]
        ELSE [it EXCEPT !.x = b.x2,
                        !.y = Trunc(XLength(b) * it.y - 1 - moved, XLength(b))]

(* After the last line the next band starts; its block is computed with the line    *)
(* as it was before it was set back.                                                *)
NextBand(g, it) ==
  LET b == it.box
      y == b.y1 + ((it.y - b.y1) % YLength(b))
      z == it.z + (it.y - b.y1) \div YLength(b)
  IN  [it EXCEPT !.block = z * BlocksPerBand(g) + it.y \div g.maxLines,
                 !.z = z, !.y = y, !.offset = OffsetOf(g, it.x, y),
                 !.linear = IF z > b.z2 THEN it.end ELSE @]

(* Before the first line the band before is entered; the block is not changed.      *)
BandBefore(g, it) ==
  [it EXCEPT !.y = it.box.y2, !.z = it.z - 1, !.offset = OffsetOf(g, it.x, it.box.y2)]

MoveYZ(g, it, n) ==
  LET moved  == IF it.x < it.box.x1 THEN LineBefore(g, it, n) ELSE NextLine(g, it)
      placed == [moved EXCEPT !.offset = moved.x + g.xs * (moved.y - g.maxLines * Trunc(moved.y, g.maxLines))]
      next   == Move2NextBlock(g, placed)
  IN  CASE next.y > next.box.y2 -> NextBand(g, next)
        [] next.y < next.box.y1 -> BandBefore(g, next)
        [] OTHER -> next

MoveXYZ(g, it, n) ==
  LET m == [it EXCEPT !.x = @ + n, !.linear = @ + n, !.offset = @ + n]
  IN  IF m.x > m.box.x2 \/ m.z > m.box.z2 \/ m.x < m.box.x1 THEN MoveYZ(g, m, n) ELSE m

(* First the bands, then the columns, then the lines.                               *)
MoveXY(g, it) ==
  LET b == it.box
      z == b.z1 + ((it.z - b.z1) % ZLength(b))
      x == it.x + (it.z - b.z1) \div ZLength(b)
      y == IF x > b.x2 THEN it.y + (x - b.x1) \div XLength(b) ELSE it.y
      m == [it EXCEPT !.x = IF x > b.x2 THEN b.x1 + ((x - b.x1) % XLength(b)) ELSE x,
                      !.y = y, !.z = z]
  IN  IF y > b.y2 THEN ToEnd(m)
      ELSE [m EXCEPT !.offset = OffsetOf(g, m.x, m.y),
                     !.block  = z * BlocksPerBand(g) + y \div g.maxLines,
                     !.linear = LinearOf(g, m.x, m.y, m.z)]

MoveZXY(g, it, n) ==
  LET z == it.z + n
      m == [it EXCEPT !.z = z, !.linear = @ + n * XLength(it.box) * YLength(it.box),
                      !.block = z * BlocksPerBand(g) + it.y \div g.maxLines]
  IN  IF z > m.box.z2 \/ z < m.box.z1 THEN MoveXY(g, m) ELSE m

(* First the lines, then the columns, then the bands.                               *)
MoveXZ(g, it) ==
  LET b == it.box
      y == b.y1 + ((it.y - b.y1) % YLength(b))
      x == it.x + (it.y - y) \div YLength(b)
      m == Move2NextBlock(g, [it EXCEPT !.x = x, !.y = y, !.offset = OffsetOf(g, x, y),
                                        !.linear = LinearOf(g, x, y, it.z)])
      z == it.z + (x - b.x1) \div XLength(b)
      c == b.x1 + ((x - b.x1) % XLength(b))
  IN  IF x <= b.x2 THEN m
      ELSE [m EXCEPT !.z = z, !.x = c, !.offset = OffsetOf(g, c, y),
                     !.block = z * BlocksPerBand(g) + y \div g.maxLines,
                     !.linear = IF z > b.z2 THEN it.end ELSE @]

MoveYXZ(g, it, n) ==
  LET m == [it EXCEPT !.y = @ + n, !.linear = @ + n * XLength(it.box),
                      !.offset = @ + n * XLength(it.box)]
  IN  CASE m.y > m.box.y2 \/ m.y < m.box.y1 -> MoveXZ(g, m)
        [] m.y \in m.box.y1 .. m.box.y2
           /\ (m.offset < 0 \/ m.offset >= BlockSize(g, m.block)) -> Move2NextBlock(g, m)
        [] OTHER -> m

(* move: ++, --, += n                                                               *)
Move(g, it, n) ==
  IF n = 0 THEN it
  ELSE IF n > 0 /\ IsAtEnd(it) THEN ToEnd(it)
  ELSE CASE it.flow = "XYZ" -> MoveXYZ(g, it, n)
         [] it.flow = "ZXY" -> MoveZXY(g, it, n)
         [] it.flow = "YXZ" -> MoveYXZ(g, it, n)

EndOf(g, it) == Move(g, it, it.end - it.linear)

-----------------------------------------------------------------------------
(* How many pixels of its box are before a pixel, in the order of the flow.         *)
Rank(b, flow, p) ==
  LET x == p[1] - b.x1  y == p[2] - b.y1  z == p[3] - b.z1
  IN  CASE flow = "XYZ" -> x + XLength(b) * (y + YLength(b) * z)
        [] flow = "ZXY" -> z + ZLength(b) * (x + XLength(b) * y)
        [] flow = "YXZ" -> y + YLength(b) * (x + XLength(b) * z)

Volume(b) == XLength(b) * YLength(b) * ZLength(b)

PixelsOf(b) == (b.x1 .. b.x2) \X (b.y1 .. b.y2) \X (b.z1 .. b.z2)
=============================================================================
