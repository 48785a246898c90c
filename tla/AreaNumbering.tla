--------------------------- MODULE AreaNumbering ---------------------------
(***************************************************************************)
(* AreaNumbering::execute, run by one task: the pixels of the input are    *)
(* walked once, each gets the number of the pixel above it or to its left  *)
(* when that has the same value, or a new number; what is found to be one  *)
(* area under two numbers is noted, and a second pass replaces numbers in  *)
(* the whole raster.  Only a connectivity of 4 is implemented (with 8      *)
(* every pixel gets 0).                                                    *)
(***************************************************************************)
EXTENDS PixelIterators

CONSTANTS
  AreaGrids, \* the rasters, with two columns and lines or more
  Values,    \* the values of the input
  Nothing    \* no number yet

VARIABLES
  grid,          \* the raster, input and output
  input,         \* [cell -> value]
  numbers,       \* the output, [cell -> number or Nothing]
  iter,          \* iterIn and iterOut, which go on together
  neighboursIn,  \* the values of the last pixels seen, one in each column
  neighboursOut, \* and their numbers
  currentId,     \* the next number
  pass2Changes,  \* [number -> the number that replaces it]
  pass           \* "one", "two" or "done"

vars == <<grid, input, numbers, iter, neighboursIn, neighboursOut, currentId, pass2Changes, pass>>

First == Iterator(grid, WholeBox(grid), "XYZ")

Columns == 0 .. grid.xs - 1

Init ==
  /\ grid \in AreaGrids
  /\ input \in [Cells(grid) -> Values]
  /\ numbers = [c \in Cells(grid) |-> Nothing]
  /\ iter = First
  /\ neighboursIn = [x \in Columns |-> 0] /\ neighboursOut = [x \in Columns |-> 0]
  /\ currentId = 0
  /\ pass2Changes = << >>
  /\ pass = "one"

-----------------------------------------------------------------------------
AtEnd == iter.linear = EndOf(grid, First).linear

Value == input[CellAt(iter)]

(* The value above is kept from the line before, but not looked at in the first     *)
(* line of a band.                                                                  *)
LikeAbove == iter.y > 0 /\ Value = neighboursIn[iter.x]

Left == IF iter.x > 0 THEN iter.x - 1 ELSE grid.xs - 1

(* Mutant of LikeLeft: the first pixel of a line is compared with the last pixel of *)
(* the line before.                                                                 *)
likeTheOneBefore == iter.x + iter.y > 0 /\ Value = neighboursIn[Left]

LikeLeft == iter.x > 0 /\ Value = neighboursIn[Left]

(* The pixel gets this number, and is the last one seen in its column.              *)
Number(n) ==
  /\ numbers' = [numbers EXCEPT ![CellAt(iter)] = n]
  /\ neighboursIn' = [neighboursIn EXCEPT ![iter.x] = Value]
  /\ neighboursOut' = [neighboursOut EXCEPT ![iter.x] = n]
  /\ iter' = Move(grid, iter, 1)
  /\ UNCHANGED <<grid, input, pass>>

Noted(from, to) ==
  [n \in DOMAIN pass2Changes \union {from} |-> IF n = from THEN to ELSE pass2Changes[n]]

(* An area that comes from above and from the left under two numbers: the left one  *)
(* will be replaced; what was noted for it before is forgotten.                     *)
NumberOfAbove ==
  /\ pass = "one" /\ ~AtEnd /\ LikeAbove
  /\ Number(neighboursOut[iter.x])
  /\ pass2Changes' = IF LikeLeft /\ neighboursOut[Left] # neighboursOut[iter.x]
                       THEN Noted(neighboursOut[Left], neighboursOut[iter.x])
                       ELSE pass2Changes
  /\ UNCHANGED currentId

NumberOfLeft ==
  /\ pass = "one" /\ ~AtEnd /\ ~LikeAbove /\ LikeLeft
  /\ Number(neighboursOut[Left])
  /\ UNCHANGED <<currentId, pass2Changes>>

NewNumber ==
  /\ pass = "one" /\ ~AtEnd /\ ~LikeAbove /\ ~LikeLeft
  /\ Number(currentId)
  /\ currentId' = currentId + 1
  /\ UNCHANGED pass2Changes

EndOfPassOne ==
  /\ pass = "one" /\ AtEnd
  /\ pass' = "two"
  /\ UNCHANGED <<grid, input, numbers, iter, neighboursIn, neighboursOut, currentId, pass2Changes>>

(* The entries are applied in the order of the numbers they replace, each to the    *)
(* whole raster as the entries before it have left it.                              *)
Replace ==
  /\ pass = "two" /\ DOMAIN pass2Changes # {}
  /\ LET old == CHOOSE n \in DOMAIN pass2Changes : \A m \in DOMAIN pass2Changes : n <= m
     IN  /\ numbers' = [c \in DOMAIN numbers |->
                         IF numbers[c] = old THEN pass2Changes[old] ELSE numbers[c]]
         /\ pass2Changes' = [n \in DOMAIN pass2Changes \ {old} |-> pass2Changes[n]]
  /\ UNCHANGED <<grid, input, iter, neighboursIn, neighboursOut, currentId, pass>>

EndOfPassTwo ==
  /\ pass = "two" /\ DOMAIN pass2Changes = {}
  /\ pass' = "done"
  /\ UNCHANGED <<grid, input, numbers, iter, neighboursIn, neighboursOut, currentId, pass2Changes>>

Ended == pass = "done" /\ UNCHANGED vars

Next ==
  NumberOfAbove \/ NumberOfLeft \/ NewNumber \/ EndOfPassOne \/ Replace \/ EndOfPassTwo \/ Ended

Spec == Init /\ [][Next]_vars

-----------------------------------------------------------------------------
Pixels == PixelsOf(WholeBox(grid))

(* The pixels beside p that have its value, and p.                                  *)
Around(p) ==
  {q \in {p, <<p[1] - 1, p[2], p[3]>>, <<p[1] + 1, p[2], p[3]>>,
         <<p[1], p[2] - 1, p[3]>>, <<p[1], p[2] + 1, p[3]>>} \cap Pixels :
     input[CellOf(grid, q)] = input[CellOf(grid, p)]}

(* The pixels that are reached from p over sides between pixels of one value.       *)
Area(p) ==
  LET within[n \in 0 .. grid.xs * grid.ys] ==
        IF n = 0 THEN {p} ELSE UNION {Around(q) : q \in within[n - 1]}
  IN  within[grid.xs * grid.ys]

NumberOf(p) == numbers[CellOf(grid, p)]

(* The pixels of an area with none of its pixels above or to the left: where it     *)
(* gets a new number.                                                               *)
Starts(area) ==
  {p \in area : <<p[1] - 1, p[2], p[3]>> \notin area /\ <<p[1], p[2] - 1, p[3]>> \notin area}

(* The iterator is right about the cells of a raster of one band, and of several    *)
(* bands of one block that has lines to spare.                                      *)
OneBlockBands == grid.zs = 1 \/ grid.ys < grid.maxLines

(* "assigns unique pixel values in an output map for connected areas"               *)
(* (areanumbering.cpp:137): from the first pixel to the last replacement no two     *)
(* areas share a number, in the bands of a stack neither; and at the end an area    *)
(* has one number, when it got at most two.  (Of three one may stay, because an     *)
(* entry was overwritten or because it came after the one for its new number.)      *)
(* This is said of the rasters in whose cells the iterator writes.                  *)
AreasAreNumbered ==
  OneBlockBands =>
  \A p \in {q \in Pixels : NumberOf(q) # Nothing} :
    LET area == Area(p)
    IN  /\ NumberOf(p) < currentId
        /\ \A q \in Pixels \ area : NumberOf(q) # NumberOf(p)
        /\ (pass = "done" /\ Cardinality(Starts(area)) <= 2) =>
             \A q \in area : NumberOf(q) = NumberOf(p)
=============================================================================
