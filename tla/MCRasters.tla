------------------------------ MODULE MCRasters ------------------------------
(* Operations on small rasters of one and two bands, with blocks of one to    *)
(* three lines: those that divide their work, those with a box of their own,  *)
(* in all the flows that move; linear filters, aggregations; distanceraster and   *)
(* areanumbering.                                                             *)
EXTENDS Rasters

GridsOf(xss, yss, zss) == [xs : xss, ys : yss, zs : zss, maxLines : 1 .. 3]

(* Bands of one block, divided over three tasks.                              *)
Bands == [xs |-> 2, ys |-> 4, zs |-> 2, maxLines |-> 5]

Divided ==
  {[grid |-> g, own |-> None, flow |-> "XYZ", n |-> 1, threaded |-> h,
    kind |-> "pixels", input |-> None, size |-> None] :
     g \in GridsOf({1, 2, 3}, 1 .. 7, {1}) \union GridsOf({2}, 2 .. 4, {2}) \union {Bands}, h \in BOOLEAN}

Own ==
  {[grid |-> g, own |-> BoxOf(b[1], b[2], b[3], b[4], b[5], g.zs - 1),
    flow |-> f, n |-> n, threaded |-> FALSE,
    kind |-> "pixels", input |-> None, size |-> None] :
     g \in GridsOf({3}, {4}, {1, 2}), b \in (0 .. 1) \X (0 .. 1) \X {0} \X {2} \X (2 .. 3),
     f \in {"XYZ", "ZXY", "YXZ"}, n \in 1 .. 3}

Filters ==
  {[grid |-> g, own |-> None, flow |-> "XYZ", n |-> 1, threaded |-> TRUE,
    kind |-> "filter", input |-> g, size |-> <<3, lines, 1>>] :
     g \in GridsOf({2}, {3, 4, 6, 7}, {1}) \union {Bands}, lines \in {3, 5}}

(* The input has columns, lines and bands left over.                          *)
GroupedInput(g, size) ==
  [xs |-> g.xs * size[1] + size[1] - 1, ys |-> g.ys * size[2] + size[2] - 1,
   zs |-> g.zs * size[3] + size[3] - 1, maxLines |-> g.maxLines]

Groups ==
  {[grid |-> g, own |-> None, flow |-> "XYZ", n |-> 1, threaded |-> TRUE,
    kind |-> "groups", input |-> GroupedInput(g, size), size |-> size] :
     g \in GridsOf({2}, {2, 4, 6}, {1}) \union {Bands},
     size \in {<<2, 2, 1>>, <<1, 2, 1>>, <<2, 3, 1>>, <<2, 1, 1>>, <<1, 1, 2>>, <<2, 2, 2>>}}

MCJobs == Divided \union Own \union Filters \union Groups

(* What the theorems on walks in RastersProofs suppose of these jobs.     *)
ASSUME OwnBoxesAssumption == OwnBoxesInside

MCGrids ==
  {[xs |-> s[1], ys |-> s[2], zs |-> 1, maxLines |-> s[3]] :
     s \in {<<3, 1, 1>>, <<3, 2, 2>>, <<3, 3, 4>>, <<4, 2, 2>>, <<3, 4, 2>>}}

MCAreaGrids ==
  {[xs |-> s[1], ys |-> s[2], zs |-> s[3], maxLines |-> s[4]] :
     s \in {<<2, 4, 1, 3>>, <<4, 2, 1, 2>>, <<3, 3, 1, 2>>, <<2, 2, 2, 3>>}}
=============================================================================
