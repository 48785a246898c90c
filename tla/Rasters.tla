------------------------------- MODULE Rasters -------------------------------
(***************************************************************************)
(* The operations on rasters together: those that divide their work and    *)
(* those with a box of their own (RasterTasks), distanceraster and         *)
(* areanumbering.  One of them runs.                                       *)
(***************************************************************************)
EXTENDS RasterTasks

CONSTANTS Grids, Far, AreaGrids, Values, Nothing

VARIABLES
  operation, \* "tasks", "distance" or "areas"
  grid, iter, sources, distances, sweep, changes,
  input, numbers, neighboursIn, neighboursOut, currentId, pass2Changes, pass

distanceVars == <<sources, distances, sweep, changes>>
areaVars == <<input, numbers, neighboursIn, neighboursOut, currentId, pass2Changes, pass>>

DR == INSTANCE DistanceRaster
AN == INSTANCE AreaNumbering

(* Rasters of one band with three columns or more; 1e100 is no distance on a raster. *)
ASSUME GridsAssumption ==
  /\ \A g \in Grids : g \in Extents /\ g.xs >= 3 /\ g.zs = 1
  /\ Far \notin Int

(* The value of a pixel without a number is no number.                               *)
ASSUME AreaGridsAssumption ==
  /\ \A g \in AreaGrids : g \in Extents /\ g.xs >= 2 /\ g.ys >= 2
  /\ Nothing \notin Int

NoDistance == sources = None /\ distances = None /\ sweep = None /\ changes = None

NoAreas ==
  /\ input = None /\ numbers = None /\ pass2Changes = None /\ pass = None
  /\ neighboursIn = None /\ neighboursOut = None /\ currentId = None

RastersInit ==
  /\ \/ operation = "tasks" /\ NoDistance /\ NoAreas /\ grid = None /\ iter = None
     \/ operation = "distance" /\ job = (CHOOSE j \in Jobs : TRUE) /\ NoAreas /\ DR!Init
     \/ operation = "areas" /\ job = (CHOOSE j \in Jobs : TRUE) /\ NoDistance /\ AN!Init
  /\ Init

RastersNext ==
  /\ UNCHANGED operation
  /\ \/ operation = "tasks" /\ Next /\ UNCHANGED <<grid, iter, distanceVars, areaVars>>
     \/ operation = "distance" /\ DR!Next /\ UNCHANGED <<vars, areaVars>>
     \/ operation = "areas" /\ AN!Next /\ UNCHANGED <<vars, distanceVars>>

rasterVars == <<operation, vars, grid, iter, distanceVars, areaVars>>

RastersSpec == RastersInit /\ [][RastersNext]_rasterVars

-----------------------------------------------------------------------------
(* distanceraster throws for a raster of one line, and else gives every pixel its    *)
(* distance: while it runs no pixel of a raster of one block is nearer than the      *)
(* shortest way to a source, and at its end each has exactly that distance           *)
(* (distanceraster.cpp: distanceCalculation).                                        *)
DistancesAreRight == operation = "distance" => DR!DistancesAreRight

(* areanumbering gives areas their numbers: two pixels with the same number are in   *)
(* one area, and at the end the pixels of an area that needed at most two numbers    *)
(* have the same (areanumbering.cpp: execute, do4connected).                         *)
AreasAreNumbered == operation = "areas" => AN!AreasAreNumbered
=============================================================================
