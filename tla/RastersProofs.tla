---------------------------- MODULE RastersProofs ----------------------------
(***************************************************************************)
(* The properties of RasterTasks, for rasters of any size, blocks of any   *)
(* number of lines and any number of threads: execute throws exactly on    *)
(* thin boxes; an operation that divides its work computes every pixel of  *)
(* the raster, a linear filter from its window and an aggregation from     *)
(* its group; and in every flow an iterator walks its box, pixel by pixel  *)
(* or by steps of more, and gives the cells of its pixels where the code   *)
(* does it.  Then the property of DistanceRaster: distanceraster computes  *)
(* the shortest distances; and that of AreaNumbering: areanumbering gives  *)
(* no two areas one number.                                                *)
(*                                                                         *)
(* Control relates the states of the tasks to their boxes: a task throws   *)
(* only if its box is thin and walks only if it is not.  Work says what    *)
(* the tasks have done so far: an iterator stands at a pixel of its box    *)
(* and at the cell of that pixel (Right), the iterator of the input stands *)
(* beside it (Beside), and what the task had to compute is in the cells of *)
(* the pixels that it has passed (Computed).  A line in two boxes does no  *)
(* harm because a cell is the cell of one pixel only (CellsApart),         *)
(* whichever task writes it.                                               *)
(*                                                                         *)
(* Walks says of an iterator in any flow that it stands at a pixel of its  *)
(* box and that its linear position suits the pixel (Fits): a move goes as *)
(* many pixels further as it is told or, if there are not so many, to the  *)
(* end (MoveWent).  The pixels are counted by Rank, a number of three      *)
(* digits of which the flow gives the order; a move is an addition with    *)
(* two carries (CountOn).  AtCell says in which of the flows and lines the *)
(* block and the offset are those of the pixel.                            *)
(*                                                                         *)
(* Sweeping says what the sweeps of distanceraster have done: no distance  *)
(* is below that of some source (NoneNearer), and the pixels that a sweep  *)
(* without a change has passed have no neighbour over which they would     *)
(* come nearer (Stable).  Only later sweeps decide, and those forward do   *)
(* not come to the first line but for its last pixel; that line was done   *)
(* by the first sweep as far as sources to the left go (RowIsDone), and a  *)
(* way back settles the rest (HalfStable).  When the sweeps end, a pixel   *)
(* that is too far from a source, with the shortest way of all such, would *)
(* have a neighbour on that way that is not (Reached).                     *)
(*                                                                         *)
(* Numbering says what areanumbering has done: every number was new at one *)
(* pixel, its start, and is found only in the area (Region) of that pixel  *)
(* (Placing), also after an entry of pass2Changes has replaced it, because *)
(* the entry is of the same area; and what pass one keeps of the line      *)
(* above and of the pixels to the left is what it has written there        *)
(* (Seen).  Pixels of one value side by side have one number or the left   *)
(* one has an entry (Linked), so that an area of which no number has an    *)
(* entry has only one (EndsOne); with two numbers the one that has an      *)
(* entry goes (Replaces).                                                  *)
(***************************************************************************)
EXTENDS Rasters, FiniteSetTheorems, WellFoundedInduction, TLAPS

(* Products and divisions *)

LEMMA MulMono ==
  ASSUME NEW a \in Int, NEW b \in Int, NEW k \in Nat, a <= b
  PROVE  k * a \in Int /\ k * b \in Int /\ k * a <= k * b
OBVIOUS

LEMMA MulLess ==
  ASSUME NEW a \in Int, NEW b \in Int, NEW k \in Nat, a < b
  PROVE  k * a + k <= k * b
OBVIOUS

LEMMA MulGrows ==
  ASSUME NEW a \in Nat \ {0}, NEW b \in Nat \ {0}
  PROVE  a * b \in Nat \ {0} /\ a <= a * b
OBVIOUS

LEMMA DivMod ==
  ASSUME NEW a \in Nat, NEW m \in Nat \ {0}
  PROVE  /\ a \div m \in Nat /\ a % m \in 0 .. m - 1
         /\ a = m * (a \div m) + (a % m)
<1> DEFINE q == a \div m
           r == a % m
<1>1. q \in Int /\ r \in 0 .. m - 1 /\ a = m * q + r
  OBVIOUS
<1> HIDE DEF q, r
<1>2. q >= 0
  <2> SUFFICES ASSUME q <= -1 PROVE FALSE
    BY <1>1
  <2>1. m * q + m <= m * 0 /\ m * 0 = 0 /\ m * q \in Int
    BY <1>1, MulLess
  <2> QED BY <1>1, <2>1
<1>3. q \in Nat /\ r \in 0 .. m - 1 /\ a = m * q + r
  BY <1>1, <1>2
<1> QED BY <1>3 DEF q, r

LEMMA DivUnique ==
  ASSUME NEW a \in Nat, NEW m \in Nat \ {0}, NEW q \in Nat, NEW r \in 0 .. m - 1, a = m * q + r
  PROVE  q = a \div m /\ r = a % m
OBVIOUS

LEMMA RowUnique ==
  ASSUME NEW m \in Nat \ {0}, NEW q \in Nat, NEW r \in 0 .. m - 1,
         NEW p \in Nat, NEW s \in 0 .. m - 1, m * q + r = m * p + s
  PROVE  q = p /\ r = s
OBVIOUS

-----------------------------------------------------------------------------
(* The boxes *)

LineStep == job.grid.ys \div NumberOfTasks

LEMMA JobTypes ==
  ASSUME job \in Jobs
  PROVE  /\ job.grid \in Extents
         /\ job.grid.xs \in Nat \ {0} /\ job.grid.ys \in Nat \ {0}
         /\ job.grid.zs \in Nat \ {0} /\ job.grid.maxLines \in Nat \ {0}
BY JobsAssumption DEF Extents

LEMMA NumberIs ==
  ASSUME job \in Jobs
  PROVE  NumberOfTasks \in 1 .. job.grid.ys /\ NumberOfTasks \in 1 .. IdealThreads
BY JobTypes, ThreadsAssumption DEF NumberOfTasks, Smallest

LEMMA StepIs ==
  ASSUME job \in Jobs
  PROVE  /\ LineStep \in Nat \ {0}
         /\ NumberOfTasks * LineStep + (job.grid.ys % NumberOfTasks) = job.grid.ys
         /\ job.grid.ys % NumberOfTasks \in 0 .. NumberOfTasks - 1
<1> DEFINE n == NumberOfTasks
           h == job.grid.ys
<1>1. n \in Nat \ {0} /\ h \in Nat \ {0} /\ n <= h
  BY NumberIs, JobTypes
<1> HIDE DEF n, h
<1>2. h \div n \in Nat /\ h % n \in 0 .. n - 1 /\ h = n * (h \div n) + (h % n)
  BY <1>1, DivMod
<1>3. h \div n # 0
  <2> SUFFICES ASSUME h \div n = 0 PROVE FALSE
    OBVIOUS
  <2>1. n * (h \div n) = 0
    BY <1>1
  <2> QED BY <1>1, <1>2, <2>1
<1>4. n * (h \div n) \in Int
  BY <1>1, <1>2
<1> QED BY <1>1, <1>2, <1>3, <1>4 DEF n, h, LineStep

(* The box of a task has all columns, and the lines from its first to the first of  *)
(* the next task.                                                                   *)
LEMMA BoxIs ==
  ASSUME job \in Jobs, NEW t \in 1 .. NumberOfTasks,
         NEW b, b = SubdivideTasks(job.grid, NumberOfTasks)[t]
  PROVE  /\ b = BoxOf(0, (t - 1) * LineStep, 0, job.grid.xs - 1,
                      Smallest(job.grid.ys - 1, t * LineStep), job.grid.zs)
         /\ b.y1 \in Nat /\ b.y2 \in Nat /\ b.y1 <= b.y2 /\ b.y2 <= job.grid.ys - 1
         /\ b.y1 = b.y2 <=> t = NumberOfTasks /\ job.grid.ys = NumberOfTasks
<1> DEFINE n == NumberOfTasks
           h == job.grid.ys
           l == LineStep
<1>1. /\ n \in Nat \ {0} /\ h \in Nat \ {0} /\ l \in Nat \ {0} /\ n <= h
      /\ n * l + (h % n) = h /\ h % n \in 0 .. n - 1
  BY NumberIs, JobTypes, StepIs
<1>2. b = BoxOf(0, (t - 1) * l, 0, job.grid.xs - 1, Smallest(h - 1, t * l), job.grid.zs)
  BY DEF SubdivideTasks, LineStep
<1>3. b.y1 = (t - 1) * l /\ b.y2 = Smallest(h - 1, t * l)
  BY <1>2 DEF BoxOf
<1> HIDE DEF n, h, l
<1>4. t \in Nat /\ 1 <= t /\ t <= n
  BY <1>1 DEF n
<1>5. (t - 1) * l \in Nat /\ t * l \in Nat /\ t * l = (t - 1) * l + l
  BY <1>1, <1>4
<1>6. t * l <= n * l /\ n * l \in Nat /\ n * l <= h
  BY <1>1, <1>4
<1>7. (t - 1) * l <= h - 1
  BY <1>1, <1>5, <1>6
<1>8. ASSUME t = n, h = n
      PROVE  (t - 1) * l = h - 1 /\ t * l > h - 1
  <2>1. h % n = 0 /\ n * l = n
    BY <1>1, <1>8
  <2>2. l = 1
    BY <1>1, <2>1
  <2> QED BY <1>1, <1>8, <2>2
<1>9. ASSUME (t - 1) * l = h - 1
      PROVE  t = n /\ h = n
  <2>1. l = 1 /\ t * l = h
    BY <1>1, <1>5, <1>6, <1>9
  <2> QED BY <1>1, <1>4, <2>1
<1>10. b.y1 = b.y2 <=> t = n /\ h = n
  BY <1>1, <1>3, <1>5, <1>7, <1>8, <1>9 DEF Smallest
<1>11. b.y1 \in Nat /\ b.y2 \in Nat /\ b.y1 <= b.y2 /\ b.y2 <= h - 1
  BY <1>1, <1>3, <1>5, <1>7 DEF Smallest
<1> QED BY <1>2, <1>10, <1>11 DEF n, h, l

(* The constructors of the iterators of a task throw when its box is thin.          *)
Thin(b) == job.grid.xs = 1 \/ b.y1 = b.y2

LEMMA IteratorBox ==
  ASSUME NEW g, NEW b, NEW flow, NEW e, e = Ensure(g, b)
  PROVE  /\ IsValid(Iterator(g, b, flow)) <=> e.x1 < e.x2 /\ e.y1 < e.y2
         /\ Iterator(g, b, flow).box = e
<1>1. Iterator(g, b, flow).box = e
  BY DEF Iterator, InitPosition
<1> QED BY <1>1 DEF IsValid

LEMMA OutputValid ==
  ASSUME job \in Jobs, NEW t \in 1 .. NumberOfTasks, NEW flow,
         NEW b, b = SubdivideTasks(job.grid, NumberOfTasks)[t]
  PROVE  IsValid(Iterator(job.grid, b, flow)) <=> ~Thin(b)
<1> DEFINE e == Ensure(job.grid, b)
<1>1. /\ b = BoxOf(0, (t - 1) * LineStep, 0, job.grid.xs - 1,
                   Smallest(job.grid.ys - 1, t * LineStep), job.grid.zs)
      /\ b.y1 \in Nat /\ b.y2 \in Nat /\ b.y1 <= b.y2 /\ b.y2 <= job.grid.ys - 1
  BY BoxIs
<1>2. b.x1 = 0 /\ b.x2 = job.grid.xs - 1
  BY <1>1 DEF BoxOf
<1>3. XLength(b) = job.grid.xs /\ YLength(b) <= job.grid.ys
  BY <1>1, <1>2, JobTypes DEF XLength, YLength
<1>4. e.x1 = b.x1 /\ e.x2 = b.x2 /\ e.y1 = b.y1 /\ e.y2 = b.y2
  <2>1. YLength(b) \in Int /\ job.grid.xs \in Int /\ job.grid.ys \in Int
    BY <1>1, JobTypes DEF YLength
  <2> QED BY <2>1, <1>1, <1>3 DEF Ensure, BoxOf
<1> QED BY <1>1, <1>2, <1>4, JobTypes, IteratorBox DEF Thin

LEMMA InputValid ==
  ASSUME job \in Jobs, job.kind # "pixels", NEW t \in 1 .. NumberOfTasks, NEW flow,
         NEW b, b = SubdivideTasks(job.grid, NumberOfTasks)[t], ~Thin(b)
  PROVE  IsValid(Iterator(job.input, InputBox(b), flow))
<1> DEFINE c == InputBox(b)
           e == Ensure(job.input, c)
<1>1. /\ b = BoxOf(0, (t - 1) * LineStep, 0, job.grid.xs - 1,
                   Smallest(job.grid.ys - 1, t * LineStep), job.grid.zs)
      /\ b.y1 \in Nat /\ b.y2 \in Nat /\ b.y1 <= b.y2 /\ b.y2 <= job.grid.ys - 1
  BY BoxIs
<1>2. b.x1 = 0 /\ b.x2 = job.grid.xs - 1
  BY <1>1 DEF BoxOf
<1>3. b.x1 < b.x2 /\ b.y1 < b.y2
  BY <1>1, <1>2, JobTypes DEF Thin
<1>4. job.input.xs \in Nat /\ job.input.ys \in Nat
  BY JobsAssumption DEF Extents
<1>5. /\ c.x1 \in Int /\ c.x2 \in Int /\ c.y1 \in Int /\ c.y2 \in Int
      /\ c.x1 < c.x2 /\ c.y1 < c.y2
      /\ XLength(c) <= job.input.xs /\ YLength(c) <= job.input.ys
      /\ \E z1, z2 : c = BoxOf(c.x1, c.y1, z1, c.x2, c.y2, z2)
  <2>1. CASE job.kind = "filter"
    <3>1. c = b
      BY <2>1 DEF InputBox
    <3>2. job.input.xs = job.grid.xs /\ job.input.ys = job.grid.ys
      BY <2>1, JobsAssumption
    <3>3. XLength(b) = job.grid.xs /\ YLength(b) <= job.grid.ys
      BY <1>1, <1>2, JobTypes DEF XLength, YLength
    <3>4. \E z1, z2 : b = BoxOf(b.x1, b.y1, z1, b.x2, b.y2, z2)
      BY <1>1 DEF BoxOf
    <3> HIDE DEF c
    <3> QED BY <3>1, <3>2, <3>3, <3>4, <1>1, <1>2, <1>3, <1>4, JobTypes
  <2>2. CASE job.kind = "groups"
    <3> DEFINE sx == job.size[1]
               sy == job.size[2]
               sz == job.size[3]
    <3>1. /\ sx \in Nat \ {0} /\ sy \in Nat \ {0}
          /\ job.grid.xs * sx <= job.input.xs
          /\ job.grid.ys * sy <= job.input.ys
      BY <2>2, JobsAssumption
    <3>2. c = BoxOf(b.x1, b.y1 * sy, b.z1 * sz,
                    (b.x2 + 1) * sx - 1, (b.y2 + 1) * sy - 1, (b.z2 + 1) * sz - 1)
      BY <2>2 DEF InputBox
    <3>3. /\ c.x1 = 0 /\ c.x2 = (b.x2 + 1) * sx - 1
          /\ c.y1 = b.y1 * sy /\ c.y2 = (b.y2 + 1) * sy - 1
      BY <3>2, <1>2 DEF BoxOf
    <3>4. \E z1, z2 : c = BoxOf(c.x1, c.y1, z1, c.x2, c.y2, z2)
      BY <3>2 DEF BoxOf
    <3> HIDE DEF c, sx, sy, sz
    <3>5. b.x2 + 1 = job.grid.xs /\ job.grid.xs \in Nat /\ job.grid.xs >= 2
      BY <1>2, <1>3, JobTypes
    <3>6. (b.x2 + 1) * sx \in Nat /\ (b.x2 + 1) * sx >= 2 /\ (b.x2 + 1) * sx <= job.input.xs
      BY <3>1, <3>5
    <3>7. /\ b.y1 * sy \in Nat /\ (b.y2 + 1) * sy \in Nat
          /\ b.y1 * sy + sy + sy <= (b.y2 + 1) * sy
      <4>1. b.y1 + 2 <= b.y2 + 1 /\ b.y1 \in Int /\ b.y2 \in Int
        BY <1>1, <1>3
      <4>2. sy * (b.y1 + 2) <= sy * (b.y2 + 1)
        BY <4>1, <3>1, MulMono
      <4>3. sy * (b.y1 + 2) = b.y1 * sy + sy + sy /\ sy * (b.y2 + 1) = (b.y2 + 1) * sy
        BY <3>1, <1>1
      <4> QED BY <4>2, <4>3, <1>1, <3>1
    <3>8. (b.y2 + 1) * sy <= job.grid.ys * sy /\ job.grid.ys * sy \in Nat
      BY <1>1, <3>1, JobTypes
    <3> QED BY <1>4, <3>1, <3>3, <3>4, <3>6, <3>7, <3>8 DEF XLength, YLength
  <2> QED BY <2>1, <2>2, JobsAssumption
<1>6. e.x1 = c.x1 /\ e.x2 = c.x2 /\ e.y1 = c.y1 /\ e.y2 = c.y2
  <2> HIDE DEF c
  <2> QED BY <1>4, <1>5 DEF Ensure, BoxOf, XLength, YLength
<1> QED BY <1>5, <1>6, IteratorBox

-----------------------------------------------------------------------------
(* The tasks *)

States == {"none", "new", "walks", "done", "threw"}

(* A task has thrown if its box is thin, and walks if it is not; execute returns    *)
(* when every task has done either.                                                 *)
Judged(t) == /\ state[t] = "threw" => Thin(boxes[t])
             /\ state[t] \in {"walks", "done"} => ~Thin(boxes[t])

Control ==
  /\ job \in Jobs
  /\ state \in [Tasks -> States]
  /\ \A t \in Tasks : state[t] # "none" <=> t \in DOMAIN boxes
  /\ DOMAIN boxes \subseteq Tasks
  /\ boxes = << >> => result = None
  /\ boxes # << >> /\ job.own = None =>
       /\ boxes = SubdivideTasks(job.grid, NumberOfTasks)
       /\ \A t \in DOMAIN boxes : Judged(t)
  /\ result \in {None, "done", "threw"}
  /\ result # None =>
       /\ \A t \in DOMAIN boxes : state[t] \in {"done", "threw"}
       /\ result = "threw" <=> \E t \in DOMAIN boxes : state[t] = "threw"

LEMMA DividedDomain ==
  ASSUME job \in Jobs
  PROVE  /\ DOMAIN SubdivideTasks(job.grid, NumberOfTasks) = 1 .. NumberOfTasks
         /\ SubdivideTasks(job.grid, NumberOfTasks) # << >>
         /\ 1 .. NumberOfTasks \subseteq Tasks
<1>1. DOMAIN SubdivideTasks(job.grid, NumberOfTasks) = 1 .. NumberOfTasks
  BY DEF SubdivideTasks
<1>2. 1 \in 1 .. NumberOfTasks
  BY NumberIs
<1> QED BY <1>1, <1>2, NumberIs, ThreadsAssumption DEF Tasks

LEMMA InitControl == Init => Control
BY DEF Init, Control, States

LEMMA ExecuteControl ==
  ASSUME Control, Execute
  PROVE  Control'
<1>1. /\ boxes = << >> /\ UNCHANGED <<job, result>>
      /\ boxes' = IF job.own # None THEN <<job.own>> ELSE SubdivideTasks(job.grid, NumberOfTasks)
      /\ state' = [t \in Tasks |-> IF t \in DOMAIN boxes' THEN "new" ELSE "none"]
  BY DEF Execute
<1>2. boxes' # << >> /\ DOMAIN boxes' \subseteq Tasks /\ DOMAIN boxes' # {}
  <2>1. CASE job.own # None
    <3>1. boxes' = <<job.own>> /\ DOMAIN boxes' = {1}
      BY <1>1, <2>1
    <3> QED BY <3>1, ThreadsAssumption DEF Tasks
  <2>2. CASE job.own = None
    BY <1>1, <2>2, DividedDomain, NumberIs DEF Control
  <2> QED BY <2>1, <2>2
<1>3. \A t \in DOMAIN boxes' : state'[t] = "new"
  BY <1>1, <1>2
<1>4. result = None
  BY <1>1 DEF Control
<1>5. job.own = None => boxes' = SubdivideTasks(job.grid, NumberOfTasks)
  BY <1>1
<1>6. NumberOfTasks' = NumberOfTasks
  BY <1>1 DEF NumberOfTasks
<1>7. \A t \in DOMAIN boxes' : Judged(t)'
  BY <1>3 DEF Judged
<1>8. state' \in [Tasks -> States] /\ \A t \in Tasks : state'[t] # "none" <=> t \in DOMAIN boxes'
  BY <1>1 DEF States
<1> QED BY <1>1, <1>2, <1>4, <1>5, <1>6, <1>7, <1>8, NoneAssumption DEF Control, Tasks

LEMMA BeginControl ==
  ASSUME Control, NEW t \in Tasks, Begin(t)
  PROVE  Control'
<1>1. state[t] = "new" /\ UNCHANGED <<job, boxes, result>>
  BY DEF Begin
<1>2. t \in DOMAIN boxes /\ result = None /\ boxes # << >>
  BY <1>1 DEF Control
<1> DEFINE new == Iterator(job.grid, boxes[t], job.flow)
           block == IF job.kind = "pixels" THEN None
                    ELSE Iterator(job.input, InputBox(boxes[t]), "XYZ")
           valid == IsValid(new) /\ (block = None \/ IsValid(block))
<1>3. state' = [state EXCEPT ![t] = IF valid THEN "walks" ELSE "threw"]
  BY DEF Begin
<1>4. job.own = None => (valid <=> ~Thin(boxes[t]))
  <2> SUFFICES ASSUME job.own = None PROVE valid <=> ~Thin(boxes[t])
    OBVIOUS
  <2>1. boxes = SubdivideTasks(job.grid, NumberOfTasks) /\ t \in 1 .. NumberOfTasks /\ job \in Jobs
    BY <1>2, DividedDomain DEF Control
  <2>2. IsValid(new) <=> ~Thin(boxes[t])
    BY <2>1, OutputValid
  <2>3. ~Thin(boxes[t]) => block = None \/ IsValid(block)
    BY <2>1, InputValid
  <2> QED BY <2>2, <2>3
<1> HIDE DEF valid
<1>5. state' \in [Tasks -> States] /\ \A s \in Tasks : state'[s] # "none" <=> s \in DOMAIN boxes
  BY <1>1, <1>3 DEF Control, States
<1>6. ASSUME job.own = None, NEW s \in DOMAIN boxes
      PROVE  Judged(s)'
  <2>1. UNCHANGED Thin(boxes[s])
    BY <1>1 DEF Thin
  <2>2. s \in Tasks /\ Judged(s)
    BY <1>2, <1>6 DEF Control
  <2> QED BY <1>1, <1>3, <1>4, <1>6, <2>1, <2>2 DEF Judged, Control
<1>7. NumberOfTasks' = NumberOfTasks
  BY <1>1 DEF NumberOfTasks
<1> QED BY <1>1, <1>2, <1>5, <1>6, <1>7 DEF Control, Tasks

LEMMA FinishControl ==
  ASSUME Control, NEW t \in Tasks, Finish(t)
  PROVE  Control'
<1>1. /\ state[t] = "walks" /\ UNCHANGED <<job, boxes, result>>
      /\ state' = [state EXCEPT ![t] = "done"]
  BY DEF Finish
<1>2. t \in DOMAIN boxes /\ result = None
  BY <1>1 DEF Control
<1>3. state' \in [Tasks -> States] /\ \A s \in Tasks : state'[s] # "none" <=> s \in DOMAIN boxes
  BY <1>1 DEF Control, States
<1>4. ASSUME job.own = None, boxes # << >>, NEW s \in DOMAIN boxes
      PROVE  Judged(s)'
  <2>1. UNCHANGED Thin(boxes[s])
    BY <1>1 DEF Thin
  <2>2. s \in Tasks /\ Judged(s)
    BY <1>4 DEF Control
  <2> QED BY <1>1, <2>1, <2>2 DEF Judged, Control
<1>5. NumberOfTasks' = NumberOfTasks
  BY <1>1 DEF NumberOfTasks
<1> QED BY <1>1, <1>2, <1>3, <1>4, <1>5 DEF Control, Tasks

LEMMA SameControl ==
  ASSUME Control, UNCHANGED <<job, boxes, state, result>>
  PROVE  Control'
BY DEF Control, Judged, Thin, NumberOfTasks, Tasks

LEMMA JoinControl ==
  ASSUME Control, Join
  PROVE  Control'
<1>1. /\ boxes # << >> /\ UNCHANGED <<job, boxes, state>>
      /\ \A t \in DOMAIN boxes : state[t] \in {"done", "threw"}
      /\ result' = IF \E t \in DOMAIN boxes : state[t] = "threw" THEN "threw" ELSE "done"
  BY DEF Join
<1>2. NumberOfTasks' = NumberOfTasks /\ \A t \in DOMAIN boxes : Judged(t)' <=> Judged(t)
  BY <1>1 DEF NumberOfTasks, Judged, Thin
<1> QED BY <1>1, <1>2 DEF Control, Tasks

LEMMA NextControl == Control /\ [Next]_vars => Control'
<1> SUFFICES ASSUME Control, [Next]_vars PROVE Control'
  OBVIOUS
<1>1. ASSUME NEW t \in Tasks, Step(t) \/ FilterStep(t) \/ AggregateStep(t)
      PROVE  Control'
  BY <1>1, SameControl DEF Step, FilterStep, AggregateStep, Write
<1>2. CASE Ended \/ UNCHANGED vars
  BY <1>2, SameControl DEF Ended, vars
<1> QED BY <1>1, <1>2, ExecuteControl, BeginControl, FinishControl, JoinControl DEF Next

LEMMA ControlAlways == Spec => []Control
BY InitControl, NextControl, PTL DEF Spec

(* execute throws when and only when the raster has one column, or as many lines as *)
(* tasks, in which case the last task gets a box of one line                        *)
(* (operationhelpergrid.h: execute, subdivideTasks; pixeliterator.cpp).             *)
THEOREM ThrowsOnThinBoxes == Spec => []ThrowsWhenThin
<1>1. Control => ThrowsWhenThin
  <2> SUFFICES ASSUME Control, result # None, job.own = None
               PROVE  result = "threw" <=> job.grid.xs = 1 \/ job.grid.ys = NumberOfTasks
    BY DEF ThrowsWhenThin
  <2>1. /\ boxes = SubdivideTasks(job.grid, NumberOfTasks) /\ DOMAIN boxes = 1 .. NumberOfTasks
        /\ job \in Jobs
        /\ \A t \in DOMAIN boxes : Judged(t) /\ state[t] \in {"done", "threw"}
        /\ result = "threw" <=> \E t \in DOMAIN boxes : state[t] = "threw"
    BY DividedDomain DEF Control
  <2>2. \A t \in DOMAIN boxes : state[t] = "threw" <=> Thin(boxes[t])
    BY <2>1 DEF Judged
  <2>3. \A t \in 1 .. NumberOfTasks : boxes[t].y1 = boxes[t].y2
                                       <=> t = NumberOfTasks /\ job.grid.ys = NumberOfTasks
    BY <2>1, BoxIs
  <2>4. NumberOfTasks \in 1 .. NumberOfTasks
    BY <2>1, NumberIs
  <2> QED BY <2>1, <2>2, <2>3, <2>4 DEF Thin
<1> QED BY <1>1, ControlAlways, PTL

-----------------------------------------------------------------------------
(* The layout of a raster *)

LEMMA ExtentTypes ==
  ASSUME NEW g \in Extents
  PROVE  /\ g.xs \in Nat \ {0} /\ g.ys \in Nat \ {0} /\ g.zs \in Nat \ {0}
         /\ g.maxLines \in Nat \ {0}
BY DEF Extents

(* A band has blocks for all its lines, and no block without a line.                *)
LEMMA BlocksAre ==
  ASSUME NEW g \in Extents
  PROVE  /\ BlocksPerBand(g) \in Nat \ {0} /\ Blocks(g) \in Nat
         /\ g.ys <= g.maxLines * BlocksPerBand(g)
         /\ \A y \in 0 .. g.ys - 1 : y \div g.maxLines \in 0 .. BlocksPerBand(g) - 1
         /\ g.ys \div g.maxLines <= BlocksPerBand(g)
<1> DEFINE m == g.maxLines
           h == g.ys
           k == BlocksPerBand(g)
<1>1. m \in Nat \ {0} /\ h \in Nat \ {0} /\ g.zs \in Nat
  BY ExtentTypes
<1>2. k = (h + m - 1) \div m
  BY DEF BlocksPerBand
<1>3. k \in Nat /\ (h + m - 1) % m \in 0 .. m - 1 /\ h + m - 1 = m * k + ((h + m - 1) % m)
  <2>1. h + m - 1 \in Nat
    BY <1>1
  <2> QED BY <1>1, <1>2, <2>1, DivMod
<1> HIDE DEF m, h, k
<1>4. m * k \in Int /\ h <= m * k
  BY <1>1, <1>3
<1>5. k # 0
  <2> SUFFICES ASSUME k = 0 PROVE FALSE
    OBVIOUS
  <2>1. m * k = 0
    BY <1>1
  <2> QED BY <1>1, <1>4, <2>1
<1>6. ASSUME NEW y \in 0 .. h
      PROVE  /\ y \div m \in Nat /\ y \div m <= k
             /\ y < h => y \div m < k
  <2> DEFINE q == y \div m
             r == y % m
  <2>0. y \in Nat
    BY <1>1
  <2>1. q \in Nat /\ r \in 0 .. m - 1 /\ y = m * q + r
    BY <1>1, <2>0, DivMod
  <2> HIDE DEF q, r
  <2>2. m * q \in Int
    BY <1>1, <2>1
  <2>3. ASSUME k < q PROVE FALSE
    <3>1. m * k + m <= m * q
      BY <1>1, <1>3, <2>1, <2>3, MulLess
    <3> QED BY <1>1, <1>3, <1>4, <2>1, <2>2, <3>1
  <2>4. ASSUME k = q, y < h PROVE FALSE
    <3>1. h - 1 >= m * k
      BY <1>1, <2>1, <2>2, <2>4
    <3>2. h <= m * k
      BY <1>4
    <3> QED BY <1>1, <1>4, <3>1, <3>2
  <2> QED BY <1>3, <2>1, <2>3, <2>4 DEF q
<1>7. Blocks(g) \in Nat
  BY <1>1, <1>3 DEF Blocks, k
<1>8. \A y \in 0 .. h - 1 : y \div m \in 0 .. k - 1
  BY <1>1, <1>3, <1>6
<1>9. h \div m <= k
  BY <1>1, <1>6
<1> QED BY <1>1, <1>3, <1>4, <1>5, <1>7, <1>8, <1>9 DEF m, h, k

LEMMA CellIs ==
  ASSUME NEW g, NEW x, NEW y, NEW z
  PROVE  CellOf(g, <<x, y, z>>)
           = <<BlocksPerBand(g) * z + (y \div g.maxLines), g.xs * (y % g.maxLines) + x>>
BY DEF CellOf

(* A cell is the cell of one pixel only.                                            *)
LEMMA CellsApart ==
  ASSUME NEW g \in Extents,
         NEW x \in 0 .. g.xs - 1, NEW y \in 0 .. g.ys - 1, NEW z \in Nat,
         NEW u \in 0 .. g.xs - 1, NEW v \in 0 .. g.ys - 1, NEW w \in Nat,
         CellOf(g, <<x, y, z>>) = CellOf(g, <<u, v, w>>)
  PROVE  x = u /\ y = v /\ z = w
<1> DEFINE m == g.maxLines
           k == BlocksPerBand(g)
           q == y \div m
           r == y % m
           p == v \div m
           s == v % m
           l == g.xs
<1>1. m \in Nat \ {0} /\ l \in Nat \ {0} /\ k \in Nat \ {0}
      /\ y \in Nat /\ v \in Nat
  BY ExtentTypes, BlocksAre
<1>2. k * z + q = k * w + p /\ l * r + x = l * s + u
  BY CellIs
<1>3. q \in 0 .. k - 1 /\ p \in 0 .. k - 1
  BY BlocksAre
<1>4. r \in Nat /\ s \in Nat /\ y = m * q + r /\ v = m * p + s
  <2>1. r \in 0 .. m - 1 /\ y = m * q + r
    BY <1>1, DivMod
  <2>2. s \in 0 .. m - 1 /\ v = m * p + s
    BY <1>1, DivMod
  <2> QED BY <1>1, <2>1, <2>2
<1>5. x \in 0 .. l - 1 /\ u \in 0 .. l - 1
  OBVIOUS
<1> HIDE DEF m, k, q, r, p, s, l
<1>6. z = w /\ q = p
  BY <1>1, <1>2, <1>3, RowUnique
<1>7. r = s /\ x = u
  BY <1>1, <1>2, <1>4, <1>5, RowUnique
<1> QED BY <1>4, <1>6, <1>7

LEMMA CellIsThere ==
  ASSUME NEW g \in Extents,
         NEW x \in 0 .. g.xs - 1, NEW y \in 0 .. g.ys - 1, NEW z \in 0 .. g.zs - 1
  PROVE  CellOf(g, <<x, y, z>>) \in Cells(g)
<1> DEFINE m == g.maxLines
           w == g.xs
           h == g.ys
           k == BlocksPerBand(g)
           q == y \div m
           r == y % m
           b == k * z + q
<1>1. m \in Nat \ {0} /\ w \in Nat \ {0} /\ h \in Nat \ {0} /\ g.zs \in Nat \ {0}
      /\ k \in Nat \ {0} /\ x \in Int /\ y \in Nat /\ y < h /\ z \in Nat /\ z < g.zs
  BY ExtentTypes, BlocksAre
<1>2. CellOf(g, <<x, y, z>>) = <<b, w * r + x>>
  BY CellIs
<1>3. q \in 0 .. k - 1
  BY BlocksAre
<1>4. q \in Nat /\ r \in 0 .. m - 1 /\ y = m * q + r
  BY <1>1, DivMod
<1>5. BlockSize(g, b) = w * Smallest(m, h - m * (b % k)) /\ Blocks(g) = k * g.zs
  BY DEF BlockSize, Blocks
<1>6. x \in 0 .. w - 1
  OBVIOUS
<1> HIDE DEF m, w, h, k, q, r
<1>7. k * z \in Nat /\ k * z + k <= k * g.zs /\ k * g.zs \in Nat
  BY <1>1, MulLess
<1>8. b \in Nat /\ b < Blocks(g)
  <2> DEFINE c == k * z
             e == k * g.zs
  <2>1. c \in Nat /\ c + k <= e /\ e \in Nat /\ Blocks(g) = e /\ b = c + q
    BY <1>5, <1>7
  <2> HIDE DEF b, c, e
  <2> QED BY <1>1, <1>3, <1>4, <2>1
<1>9. b % k = q
  <2>1. b = k * z + q
    OBVIOUS
  <2> HIDE DEF b
  <2> QED BY <1>1, <1>3, <1>8, <2>1, DivUnique
<1>10. Smallest(m, h - m * q) \in Nat /\ r < Smallest(m, h - m * q)
  BY <1>1, <1>4 DEF Smallest
<1>11. w * r + w <= w * Smallest(m, h - m * q) /\ w * r \in Nat
       /\ w * Smallest(m, h - m * q) \in Nat
  BY <1>1, <1>4, <1>10, MulLess
<1>12. w * r + x \in 0 .. BlockSize(g, b) - 1
  <2> HIDE DEF b
  <2> QED BY <1>1, <1>5, <1>6, <1>9, <1>11
<1>13. b \in 0 .. Blocks(g) - 1
  <2>1. Blocks(g) \in Int
    BY BlocksAre
  <2> HIDE DEF b
  <2> QED BY <1>8, <2>1
<1>14. <<b, w * r + x>> \in Cells(g)
  <2> DEFINE c == w * r + x
  <2> HIDE DEF b, c
  <2>1. <<b, c>> \in {b} \X (0 .. BlockSize(g, b) - 1)
    BY <1>12 DEF c
  <2> QED BY <1>13, <2>1 DEF Cells, c
<1> QED BY <1>2, <1>14 DEF w

-----------------------------------------------------------------------------
(* Iterators over whole lines *)

Iterators == [box : Boxes, flow : {"XYZ"}, x : Int, y : Int, z : Int,
              block : Int, offset : Int, linear : Int, end : Int]

(* Where an iterator that left its line at the end goes on.                         *)
Landed(g, m) ==
  LET moved == NextLine(g, m)
  IN  Move2NextBlock(g, [moved EXCEPT !.offset =
        moved.x + g.xs * (moved.y - g.maxLines * Trunc(moved.y, g.maxLines))])

LEMMA MoveYZIs ==
  ASSUME NEW g, NEW m, NEW n, ~(m.x < m.box.x1), NEW next, next = Landed(g, m)
  PROVE  MoveYZ(g, m, n) = CASE next.y > next.box.y2 -> NextBand(g, next)
                             [] next.y < next.box.y1 -> BandBefore(g, next)
                             [] OTHER -> next
<1> DEFINE c == NextLine(g, m)
           p == [c EXCEPT !.offset = c.x + g.xs * (c.y - g.maxLines * Trunc(c.y, g.maxLines))]
<1>1. MoveYZ(g, m, n) = CASE Move2NextBlock(g, p).y > Move2NextBlock(g, p).box.y2
                               -> NextBand(g, Move2NextBlock(g, p))
                          [] Move2NextBlock(g, p).y < Move2NextBlock(g, p).box.y1
                               -> BandBefore(g, Move2NextBlock(g, p))
                          [] OTHER -> Move2NextBlock(g, p)
  BY Zenon DEF MoveYZ
<1>2. next = Move2NextBlock(g, p)
  BY DEF Landed
<1> HIDE DEF p
<1> QED BY <1>1, <1>2, Zenon

(* end() is the position after the last pixel.                                      *)
LEMMA EndIs ==
  ASSUME NEW g, NEW i \in Iterators, i.x = i.box.x1, i.linear <= i.end
  PROVE  EndOf(g, i).linear = i.end
<1> DEFINE n == i.end - i.linear
           m == [i EXCEPT !.x = @ + n, !.linear = @ + n, !.offset = @ + n]
           next == Landed(g, m)
<1>0. n \in Nat /\ i.linear \in Int /\ i.end \in Int /\ i.linear + n = i.end
      /\ i.x \in Int /\ i.box.x1 \in Int /\ i.flow = "XYZ"
  BY DEF Iterators, Boxes
<1>1. m.linear = i.end /\ m.end = i.end /\ ~(m.x < m.box.x1) /\ m.box = i.box
  <2> HIDE DEF n
  <2> QED BY <1>0 DEF Iterators
<1>2. MoveYZ(g, m, n).linear = i.end
  <2> HIDE DEF m, n
  <2>1. next.linear = i.end /\ next.end = i.end
    BY <1>1 DEF Landed, NextLine, Move2NextBlock
  <2> HIDE DEF next
  <2>2. NextBand(g, next).linear = i.end /\ BandBefore(g, next).linear = i.end
    BY <2>1 DEF NextBand, BandBefore
  <2>3. next = Landed(g, m)
    BY DEF next
  <2>4. MoveYZ(g, m, n) = CASE next.y > next.box.y2 -> NextBand(g, next)
                            [] next.y < next.box.y1 -> BandBefore(g, next)
                            [] OTHER -> next
    BY <1>1, <2>3, MoveYZIs
  <2> QED BY <2>1, <2>2, <2>4
<1>3. MoveXYZ(g, i, n).linear = i.end
  BY <1>1, <1>2 DEF MoveXYZ
<1> QED BY <1>0, <1>3 DEF EndOf, Move, ToEnd

(* After s whole lines an iterator goes on at the first column, with the block and  *)
(* the offset of its new line when that is the next one.                            *)
LEMMA LandedIs ==
  ASSUME NEW g \in Extents, NEW m \in Iterators, NEW s \in Nat \ {0},
         m.box.x1 = 0, XLength(m.box) \in Nat \ {0}, m.x = XLength(m.box) * s,
         m.y \in Nat, m.z \in Nat,
         NEW k, k = Landed(g, m)
  PROVE  /\ k \in Iterators /\ k.box = m.box /\ k.end = m.end
         /\ k.x = 0 /\ k.y = m.y + s /\ k.z = m.z
         /\ k.block = BlocksPerBand(g) * m.z + (k.y \div g.maxLines)
         /\ s = 1 /\ m.block = BlocksPerBand(g) * m.z + (m.y \div g.maxLines) =>
              k.offset = g.xs * (k.y % g.maxLines) + 0
         /\ k.linear = IF k.block >= Blocks(g) THEN m.end ELSE m.linear
<1> DEFINE w == g.xs
           h == g.maxLines
           y == m.y + s
           r == y % h
           q == y \div h
           bl == BlocksPerBand(g) * m.z + q
<1>1. w \in Nat \ {0} /\ h \in Nat \ {0} /\ y \in Nat /\ m.y \in Nat /\ y = m.y + s
      /\ BlocksPerBand(g) \in Nat
  BY ExtentTypes, BlocksAre
<1>2. r \in 0 .. h - 1 /\ q \in Nat /\ y = h * q + r
  BY <1>1, DivMod
<1>3. bl \in Int
  <2> HIDE DEF q
  <2> QED BY <1>1, <1>2
<1>4. /\ (m.x - m.box.x1) % XLength(m.box) = 0
      /\ (m.x - m.box.x1) \div XLength(m.box) = s
  <2> DEFINE l == XLength(m.box)
             a == m.x - m.box.x1
  <2>1. l \in Nat \ {0} /\ a = l * s /\ l * s \in Nat
    OBVIOUS
  <2>2. 0 \in 0 .. l - 1 /\ a = l * s + 0 /\ a \in Nat
    BY <2>1
  <2> HIDE DEF l, a
  <2>3. s = a \div l /\ 0 = a % l
    BY <2>1, <2>2, DivUnique
  <2> QED BY <2>3 DEF l, a
<1> DEFINE c == NextLine(g, m)
<1>5. c \in Iterators /\ c.box = m.box /\ c.x = 0 /\ c.y = y /\ c.z = m.z
      /\ c.block = m.block /\ c.linear = m.linear /\ c.end = m.end
  <2> DEFINE x1 == m.box.x1 + ((m.x - m.box.x1) % XLength(m.box))
             y1 == m.y + (m.x - m.box.x1) \div XLength(m.box)
  <2>1. c = [m EXCEPT !.x = x1, !.y = y1]
    BY DEF NextLine
  <2>2. x1 = 0 /\ y1 = y /\ x1 \in Int /\ y1 \in Int
    BY <1>1, <1>4
  <2> HIDE DEF x1, y1, c, y
  <2> QED BY <2>1, <2>2 DEF Iterators
<1> HIDE DEF c
<1> DEFINE f == c.x + w * (c.y - h * Trunc(c.y, h))
           p == [c EXCEPT !.offset = f]
<1>6. Trunc(c.y, h) = q
  BY <1>1, <1>5 DEF Trunc
<1>7. f = w * r + 0 /\ f \in Int /\ w * r \in Int
  <2>1. c.y - h * q = r
    <3> HIDE DEF y, r, q
    <3>1. h * q \in Int
      BY <1>1, <1>2
    <3> QED BY <1>1, <1>2, <1>5, <3>1
  <2>2. w * r \in Int
    <3> HIDE DEF y, r, q, w, h
    <3> QED BY <1>1, <1>2
  <2>3. f = 0 + w * r
    BY <1>5, <1>6, <2>1
  <2> HIDE DEF f, r
  <2> QED BY <2>2, <2>3
<1>8. p \in Iterators /\ p.box = m.box /\ p.x = 0 /\ p.y = y /\ p.z = m.z
      /\ p.block = m.block /\ p.offset = f /\ p.linear = m.linear /\ p.end = m.end
  <2> HIDE DEF f, y
  <2> QED BY <1>5, <1>7 DEF Iterators
<1>9. k = Move2NextBlock(g, p)
  BY DEF Landed, c
<1>10. BlocksPerBand(g) * p.z + Trunc(p.y, g.maxLines) = bl
  <2>1. Trunc(p.y, h) = q
    BY <1>1, <1>8 DEF Trunc
  <2> HIDE DEF q
  <2> QED BY <1>8, <2>1
<1> HIDE DEF p
<1> DEFINE o == IF bl # p.block THEN p.x ELSE p.offset
           l == IF bl >= Blocks(g) THEN p.end ELSE p.linear
<1>11. k = [p EXCEPT !.block = bl, !.offset = o, !.linear = l]
  <2> HIDE DEF bl
  <2> QED BY <1>9, <1>10 DEF Move2NextBlock
<1>12. o \in Int /\ l \in Int
  BY <1>8 DEF Iterators
<1>13. /\ k \in Iterators /\ k.box = m.box /\ k.end = m.end /\ k.x = 0 /\ k.y = y /\ k.z = m.z
       /\ k.block = bl /\ k.offset = o /\ k.linear = l
  <2> HIDE DEF bl, o, l, f, y
  <2> QED BY <1>3, <1>8, <1>11, <1>12 DEF Iterators
<1>14. ASSUME s = 1, m.block = BlocksPerBand(g) * m.z + (m.y \div g.maxLines)
       PROVE  o = w * r + 0
  <2>1. bl # m.block => r = 0
    <3> SUFFICES ASSUME r # 0 PROVE bl = m.block
      OBVIOUS
    <3> DEFINE u == r - 1
    <3>1. m.y = h * q + u /\ u \in 0 .. h - 1
      <4>1. y = m.y + 1
        BY <1>14
      <4> HIDE DEF y, r, q, h
      <4>2. h * q \in Int
        BY <1>1, <1>2
      <4> QED BY <1>1, <1>2, <4>1, <4>2
    <3>2. q = m.y \div h
      <4>1. h \in Nat \ {0} /\ m.y \in Nat /\ q \in Nat
        BY <1>1, <1>2
      <4> HIDE DEF r, q, u, h, y
      <4> QED BY <3>1, <4>1, DivUnique
    <3> HIDE DEF q
    <3> QED BY <1>14, <3>2 DEF h
  <2>2. r = 0 => w * r + 0 = 0
    BY <1>1
  <2> HIDE DEF r, bl
  <2> QED BY <1>7, <1>8, <2>1, <2>2
<1>15. l = IF bl >= Blocks(g) THEN m.end ELSE m.linear
  BY <1>8
<1>16. k.y = m.y + s /\ k.block = BlocksPerBand(g) * m.z + (k.y \div g.maxLines)
  BY <1>13
<1>17. s = 1 /\ m.block = BlocksPerBand(g) * m.z + (m.y \div g.maxLines) =>
         k.offset = g.xs * (k.y % g.maxLines) + 0
  BY <1>13, <1>14
<1> HIDE DEF bl, o, l
<1> QED BY <1>13, <1>15, <1>16, <1>17

(* After s times the lines of its box an iterator goes on at the first of them.     *)
LEMMA NextBandIs ==
  ASSUME NEW g \in Extents, NEW m \in Iterators, NEW s \in Nat \ {0},
         m.box.y1 \in Nat, YLength(m.box) \in Nat \ {0},
         m.y = m.box.y1 + YLength(m.box) * s, m.z \in Nat,
         NEW k, k = NextBand(g, m)
  PROVE  /\ k \in Iterators /\ k.box = m.box /\ k.end = m.end
         /\ k.x = m.x /\ k.y = m.box.y1 /\ k.z = m.z + s
         /\ k.block = k.z * BlocksPerBand(g) + (m.y \div g.maxLines)
         /\ k.offset = m.x + g.xs * (k.y % g.maxLines)
         /\ k.linear = IF k.z > k.box.z2 THEN m.end ELSE m.linear
<1>1. /\ (m.y - m.box.y1) % YLength(m.box) = 0
      /\ (m.y - m.box.y1) \div YLength(m.box) = s
  <2> DEFINE l == YLength(m.box)
             a == m.y - m.box.y1
  <2>1. l \in Nat \ {0} /\ l * s \in Nat
    OBVIOUS
  <2>2. 0 \in 0 .. l - 1 /\ a = l * s + 0 /\ a \in Nat
    BY <2>1
  <2> HIDE DEF l, a
  <2>3. s = a \div l /\ 0 = a % l
    BY <2>1, <2>2, DivUnique
  <2> QED BY <2>3 DEF l, a
<1> DEFINE y == m.box.y1 + ((m.y - m.box.y1) % YLength(m.box))
           z == m.z + (m.y - m.box.y1) \div YLength(m.box)
           bl == z * BlocksPerBand(g) + (m.y \div g.maxLines)
           o == OffsetOf(g, m.x, y)
           l == IF z > m.box.z2 THEN m.end ELSE m.linear
<1>2. k = [m EXCEPT !.block = bl, !.z = z, !.y = y, !.offset = o, !.linear = l]
  BY DEF NextBand
<1>3. y = m.box.y1 /\ z = m.z + s /\ y \in Nat /\ z \in Nat
  BY <1>1
<1>4. bl \in Int
  <2>1. m.y \div g.maxLines \in Int
    BY ExtentTypes DEF Iterators
  <2>2. BlocksPerBand(g) \in Int
    BY BlocksAre
  <2> HIDE DEF z
  <2> QED BY <1>3, <2>1, <2>2
<1>5. o = m.x + g.xs * (y % g.maxLines) /\ o \in Int
  <2> HIDE DEF y
  <2>1. y % g.maxLines \in Int
    BY <1>3, ExtentTypes
  <2> QED BY <2>1, ExtentTypes DEF OffsetOf, Iterators
<1>6. l \in Int
  BY DEF Iterators
<1>7. bl = z * BlocksPerBand(g) + (m.y \div g.maxLines)
      /\ l = IF z > m.box.z2 THEN m.end ELSE m.linear
  OBVIOUS
<1> HIDE DEF y, z, bl, o, l
<1>8. /\ k \in Iterators /\ k.box = m.box /\ k.end = m.end
      /\ k.x = m.x /\ k.y = y /\ k.z = z
      /\ k.block = bl /\ k.offset = o /\ k.linear = l
  <2>1. y \in Int /\ z \in Int /\ bl \in Int /\ o \in Int /\ l \in Int
    BY <1>3, <1>4, <1>5, <1>6
  <2>2. /\ k.box = m.box /\ k.end = m.end /\ k.x = m.x /\ k.y = y /\ k.z = z
        /\ k.block = bl /\ k.offset = o /\ k.linear = l
    BY <1>2 DEF Iterators
  <2>3. k \in Iterators
    BY <1>2, <2>1 DEF Iterators
  <2> QED BY <2>2, <2>3
<1> QED BY <1>3, <1>5, <1>7, <1>8

-----------------------------------------------------------------------------
(* A walk over whole lines, one pixel after the other *)

OneBlock(g) == g.zs = 1 \/ g.ys < g.maxLines

(* The iterator stands at a pixel of the lines first .. last, in any band ...       *)
Placed(g, i, first, last) ==
  /\ i \in Iterators
  /\ i.box.x1 = 0 /\ i.box.x2 = g.xs - 1
  /\ i.box.y1 = first /\ i.box.y2 = last
  /\ i.box.z1 = 0 /\ i.box.z2 = g.zs - 1
  /\ i.x \in 0 .. g.xs - 1 /\ i.y \in first .. last /\ i.z \in 0 .. g.zs - 1

(* ... and at its cell.                                                             *)
InCell(g, i) ==
  /\ i.block = BlocksPerBand(g) * i.z + (i.y \div g.maxLines)
  /\ i.offset = g.xs * (i.y % g.maxLines) + i.x

LEMMA InCellIs ==
  ASSUME NEW g, NEW i, InCell(g, i)
  PROVE  CellAt(i) = CellOf(g, PixelAt(i))
BY CellIs DEF InCell, CellAt, PixelAt

(* The pixel of k comes after the one of i.                                         *)
Follows(k, i) ==
  \/ i.x < i.box.x2 /\ k.x = i.x + 1 /\ k.y = i.y /\ k.z = i.z
  \/ i.x = i.box.x2 /\ i.y < i.box.y2 /\ k.x = 0 /\ k.y = i.y + 1 /\ k.z = i.z
  \/ i.x = i.box.x2 /\ i.y = i.box.y2 /\ i.z < i.box.z2
     /\ k.x = 0 /\ k.y = i.box.y1 /\ k.z = i.z + 1

(* Where move starts from: n columns further.                                       *)
Aside(i, n) == [i EXCEPT !.x = @ + n, !.linear = @ + n, !.offset = @ + n]

LEMMA MovedAside ==
  ASSUME NEW i \in Iterators, NEW n \in Int, NEW m, m = Aside(i, n)
  PROVE  /\ m \in Iterators /\ m.box = i.box /\ m.flow = i.flow
         /\ m.x = i.x + n /\ m.y = i.y /\ m.z = i.z
         /\ m.block = i.block /\ m.offset = i.offset + n
         /\ m.linear = i.linear + n /\ m.end = i.end
<1> DEFINE a == i.x + n
           b == i.linear + n
           c == i.offset + n
<1>1. a \in Int /\ b \in Int /\ c \in Int
  BY DEF Iterators
<1>2. m = [i EXCEPT !.x = a, !.linear = b, !.offset = c]
  BY DEF Aside
<1>3. a = i.x + n /\ b = i.linear + n /\ c = i.offset + n
  OBVIOUS
<1> HIDE DEF a, b, c
<1> QED BY <1>1, <1>2, <1>3 DEF Iterators

(* The line after a line that is not the last of the last band is in a block.       *)
LEMMA BlockIsThere ==
  ASSUME NEW g \in Extents, NEW y \in Nat, NEW z \in Nat,
         (y < g.ys /\ z < g.zs) \/ (y = g.ys /\ z < g.zs - 1)
  PROVE  ~(BlocksPerBand(g) * z + (y \div g.maxLines) >= Blocks(g))
<1> DEFINE k == BlocksPerBand(g)
           q == y \div g.maxLines
           n == g.zs
<1>1. k \in Nat \ {0} /\ Blocks(g) = k * n /\ n \in Nat \ {0}
  BY BlocksAre, ExtentTypes DEF Blocks
<1>2. q \in Nat /\ q <= k /\ (y < g.ys => q < k)
  <2>1. y < g.ys => q \in 0 .. k - 1
    <3>1. y < g.ys => y \in 0 .. g.ys - 1
      BY ExtentTypes
    <3> QED BY <3>1, BlocksAre
  <2>2. y = g.ys => q <= k
    BY BlocksAre
  <2>3. q \in Nat
    BY DivMod, ExtentTypes
  <2> HIDE DEF q, k
  <2> QED BY <1>1, <2>1, <2>2, <2>3
<1> HIDE DEF k, q
<1>3. z < n /\ k * z \in Int /\ k * n \in Int /\ k * z + k <= k * n
  BY <1>1, MulLess
<1>4. ASSUME y < g.ys PROVE k * z + q < k * n
  BY <1>1, <1>2, <1>3, <1>4
<1>5. ASSUME y = g.ys, z < g.zs - 1 PROVE k * z + q < k * n
  <2>1. z + 1 < n /\ z + 1 \in Int
    BY <1>1, <1>5 DEF n
  <2>2. k * (z + 1) + k <= k * n /\ k * (z + 1) = k * z + k
    BY <1>1, <2>1, MulLess
  <2> HIDE DEF n
  <2> QED BY <1>1, <1>2, <1>3, <2>2
<1>6. k * z + q < k * n /\ k * z + q \in Int
  BY <1>2, <1>3, <1>4, <1>5
<1>7. ~(k * z + q >= Blocks(g))
  BY <1>1, <1>3, <1>6
<1> QED BY <1>7 DEF k, q

(* ++ goes from pixel to pixel, and from cell to cell where bands have one block.   *)
LEMMA StepPlaced ==
  ASSUME NEW g \in Extents,
         NEW first \in Nat, NEW last \in Nat, first <= last, last < g.ys,
         NEW i, Placed(g, i, first, last), ~IsAtEnd(i),
         NEW k, k = Move(g, i, 1)
  PROVE  /\ Placed(g, k, first, last) /\ k.box = i.box /\ Follows(k, i)
         /\ k.linear = i.linear + 1 /\ k.end = i.end
         /\ OneBlock(g) /\ InCell(g, i) => InCell(g, k)
<1> DEFINE w == g.xs
           kb == BlocksPerBand(g)
           m == Aside(i, 1)
<1>1. /\ w \in Nat \ {0} /\ g.maxLines \in Nat \ {0} /\ g.zs \in Nat \ {0}
      /\ i \in Iterators /\ i.box \in Boxes /\ i.flow = "XYZ"
      /\ i.box.x1 = 0 /\ i.box.x2 = w - 1
      /\ i.box.y1 = first /\ i.box.y2 = last /\ i.box.z1 = 0 /\ i.box.z2 = g.zs - 1
      /\ i.x \in Nat /\ i.x <= w - 1 /\ i.y \in Nat /\ first <= i.y /\ i.y <= last
      /\ i.z \in Nat /\ i.z <= g.zs - 1
      /\ i.block \in Int /\ i.offset \in Int /\ i.linear \in Int
      /\ kb \in Nat
  BY ExtentTypes, BlocksAre DEF Placed, Iterators
<1>2. ~(i.x = w - 1 /\ i.y = last /\ i.z = g.zs - 1)
  BY <1>1 DEF IsAtEnd
<1>3. k = MoveXYZ(g, i, 1)
  BY <1>1 DEF Move
<1>4. /\ m \in Iterators /\ m.box = i.box /\ m.flow = i.flow
      /\ m.x = i.x + 1 /\ m.y = i.y /\ m.z = i.z
      /\ m.block = i.block /\ m.offset = i.offset + 1
      /\ m.linear = i.linear + 1 /\ m.end = i.end
  <2>1. i \in Iterators /\ 1 \in Int
    BY <1>1
  <2>2. m = Aside(i, 1)
    OBVIOUS
  <2> HIDE DEF m
  <2> QED BY <2>1, <2>2, MovedAside, Zenon
<1>5. k = IF m.x > m.box.x2 \/ m.z > m.box.z2 \/ m.x < m.box.x1
            THEN MoveYZ(g, m, 1) ELSE m
  BY <1>3 DEF MoveXYZ, Aside
<1> HIDE DEF w, m, kb
<1>6. k = IF i.x = w - 1 THEN MoveYZ(g, m, 1) ELSE m
  <2>1. (m.x > m.box.x2 \/ m.z > m.box.z2 \/ m.x < m.box.x1) <=> i.x = w - 1
    BY <1>1, <1>4
  <2> QED BY <1>5, <2>1
<1>7. CASE i.x # w - 1
  <2>1. k = m
    BY <1>6, <1>7
  <2>2. k.x \in 0 .. w - 1 /\ k.y \in first .. last /\ k.z \in 0 .. g.zs - 1
    BY <1>1, <1>4, <1>7, <2>1
  <2>3. Placed(g, k, first, last)
    BY <1>1, <1>4, <2>1, <2>2 DEF Placed, w
  <2>4. Follows(k, i)
    BY <1>1, <1>4, <1>7, <2>1 DEF Follows
  <2>5. InCell(g, i) => InCell(g, k)
    <3> DEFINE o == g.xs * (i.y % g.maxLines)
    <3>1. o \in Int
      <4>1. i.y % g.maxLines \in Int
        BY <1>1
      <4> QED BY <1>1, <4>1 DEF w
    <3>2. i.offset = o + i.x => k.offset = o + k.x
      <4> HIDE DEF o
      <4> QED BY <1>1, <1>4, <2>1, <3>1
    <3>3. k.y = i.y /\ k.z = i.z /\ k.block = i.block
      BY <1>4, <2>1
    <3> QED BY <3>2, <3>3 DEF InCell
  <2> QED BY <1>4, <2>1, <2>3, <2>4, <2>5
<1>8. CASE i.x = w - 1
  <2> DEFINE next == Landed(g, m)
  <2>1. XLength(m.box) = w /\ m.x = w * 1 /\ XLength(m.box) \in Nat \ {0}
        /\ m.box.x1 = 0 /\ m.y \in Nat /\ m.z \in Nat /\ 1 \in Nat \ {0}
    BY <1>1, <1>4, <1>8 DEF XLength
  <2>2. /\ next \in Iterators /\ next.box = m.box /\ next.end = m.end
        /\ next.x = 0 /\ next.y = m.y + 1 /\ next.z = m.z
        /\ next.block = BlocksPerBand(g) * m.z + (next.y \div g.maxLines)
        /\ m.block = BlocksPerBand(g) * m.z + (m.y \div g.maxLines) =>
             next.offset = g.xs * (next.y % g.maxLines) + 0
        /\ next.linear = IF next.block >= Blocks(g) THEN m.end ELSE m.linear
    <3>1. m.x = XLength(m.box) * 1
      BY <2>1
    <3> QED BY <1>4, <2>1, <3>1, LandedIs
  <2> HIDE DEF next
  <2>3. next.linear = m.linear
    <3>1. next.y \in Nat /\ ((next.y < g.ys /\ m.z < g.zs) \/ (next.y = g.ys /\ m.z < g.zs - 1))
      <4>1. g.ys \in Nat
        BY ExtentTypes
      <4>2. next.y = i.y + 1 /\ m.z = i.z
        BY <1>4, <2>2
      <4> QED BY <1>1, <1>2, <1>8, <4>1, <4>2
    <3>2. ~(BlocksPerBand(g) * m.z + (next.y \div g.maxLines) >= Blocks(g))
      BY <2>1, <3>1, BlockIsThere
    <3> QED BY <2>2, <3>2
  <2>4. InCell(g, i) => InCell(g, next)
    <3>1. m.z = i.z /\ m.y = i.y /\ m.block = i.block
      BY <1>4
    <3> QED BY <2>2, <3>1 DEF InCell
  <2>5. MoveYZ(g, m, 1) = CASE next.y > next.box.y2 -> NextBand(g, next)
                            [] next.y < next.box.y1 -> BandBefore(g, next)
                            [] OTHER -> next
    <3>1. ~(m.x < m.box.x1)
      BY <1>1, <1>4
    <3> QED BY <3>1, MoveYZIs DEF next
  <2>6. CASE i.y < last
    <3>1. ~(next.y > next.box.y2) /\ ~(next.y < next.box.y1)
      BY <1>1, <1>4, <2>2, <2>6
    <3>2. k = next
      BY <1>6, <1>8, <2>5, <3>1
    <3>3. k.x \in 0 .. w - 1 /\ k.y \in first .. last /\ k.z \in 0 .. g.zs - 1
      BY <1>1, <1>4, <2>2, <2>6, <3>2
    <3>4. Placed(g, k, first, last)
      BY <1>1, <1>4, <2>2, <3>2, <3>3 DEF Placed, w
    <3>5. Follows(k, i)
      BY <1>1, <1>4, <1>8, <2>2, <2>6, <3>2 DEF Follows
    <3> QED BY <1>4, <2>2, <2>3, <2>4, <3>2, <3>4, <3>5
  <2>7. CASE i.y = last
    <3>1. next.y > next.box.y2 /\ ~(next.y < next.box.y1)
      BY <1>1, <1>4, <2>2, <2>7
    <3>2. k = NextBand(g, next)
      BY <1>6, <1>8, <2>5, <3>1
    <3>3. /\ YLength(next.box) \in Nat \ {0} /\ next.box.y1 \in Nat /\ next.z \in Nat
          /\ next.y = next.box.y1 + YLength(next.box) * 1
      BY <1>1, <1>4, <2>2, <2>7 DEF YLength
    <3>4. /\ k \in Iterators /\ k.box = next.box /\ k.end = next.end
          /\ k.x = next.x /\ k.y = next.box.y1 /\ k.z = next.z + 1
          /\ k.block = k.z * BlocksPerBand(g) + (next.y \div g.maxLines)
          /\ k.offset = next.x + g.xs * (k.y % g.maxLines)
          /\ k.linear = IF k.z > k.box.z2 THEN next.end ELSE next.linear
      BY <2>1, <2>2, <3>2, <3>3, NextBandIs
    <3>5. k.x = 0 /\ k.y = first /\ k.z = i.z + 1 /\ i.z < g.zs - 1 /\ k.box = i.box
      BY <1>1, <1>2, <1>4, <1>8, <2>2, <2>7, <3>4
    <3>6. k.x \in 0 .. w - 1 /\ k.y \in first .. last /\ k.z \in 0 .. g.zs - 1
      BY <1>1, <3>5
    <3>7. Placed(g, k, first, last)
      BY <1>1, <3>4, <3>5, <3>6 DEF Placed, w
    <3>8. Follows(k, i)
      BY <1>1, <1>8, <2>7, <3>5 DEF Follows
    <3>9. k.linear = i.linear + 1 /\ k.end = i.end
      <4>1. ~(k.z > k.box.z2)
        BY <1>1, <3>5
      <4> QED BY <1>4, <2>2, <2>3, <3>4, <4>1
    <3>10. ASSUME OneBlock(g) PROVE InCell(g, k)
      <4>1. g.ys < g.maxLines /\ g.ys \in Nat
        BY <1>1, <3>5, <3>10, ExtentTypes DEF OneBlock
      <4>2. next.y \in 0 .. g.maxLines - 1 /\ first \in 0 .. g.maxLines - 1
        BY <1>1, <1>4, <2>2, <2>7, <4>1
      <4>3. \A y \in 0 .. g.maxLines - 1 : y \div g.maxLines = 0
        <5> SUFFICES ASSUME NEW y \in 0 .. g.maxLines - 1 PROVE y \div g.maxLines = 0
          OBVIOUS
        <5>1. g.maxLines * 0 = 0 /\ y = g.maxLines * 0 + y /\ y \in Nat /\ 0 \in Nat
          BY <1>1
        <5> QED BY <1>1, <5>1, DivUnique
      <4>4. k.block = k.z * kb + 0 /\ k.y \div g.maxLines = 0
        BY <3>4, <3>5, <4>2, <4>3 DEF kb
      <4>5. k.block = kb * k.z + (k.y \div g.maxLines)
        <5>1. k.z * kb = kb * k.z
          BY <1>1, <3>5
        <5> QED BY <4>4, <5>1
      <4>6. k.offset = 0 + g.xs * (k.y % g.maxLines)
        BY <2>2, <3>4
      <4>7. k.offset = g.xs * (k.y % g.maxLines) + 0
        <5> DEFINE o == g.xs * (k.y % g.maxLines)
        <5>1. o \in Int
          <6>1. k.y % g.maxLines \in Int
            BY <1>1, <3>5
          <6> QED BY <1>1, <6>1 DEF w
        <5>2. k.offset = 0 + o
          BY <4>6
        <5> HIDE DEF o
        <5>3. k.offset = o + 0
          BY <5>1, <5>2
        <5> QED BY <5>3 DEF o
      <4> QED BY <3>5, <4>5, <4>7 DEF InCell, kb
    <3> QED BY <3>5, <3>7, <3>8, <3>9, <3>10
  <2> QED BY <1>1, <2>6, <2>7
<1> QED BY <1>7, <1>8

(* The position of an iterator counts its steps; that of the end is not met before. *)
PositionOf(g, i, first, last) == (g.xs * i.y + (g.xs * (last - first + 1)) * i.z) + i.x

Right(g, i, first, last) ==
  /\ Placed(g, i, first, last) /\ InCell(g, i)
  /\ i.end = LinearOf(g, g.xs - 1, last, g.zs - 1) + 1
  /\ i.linear = i.end \/ i.linear = PositionOf(g, i, first, last)

(* Whether the iterator has been at a pixel of its box before.                      *)
Passed(i, x, y, z) ==
  \/ i.linear = i.end
  \/ z < i.z
  \/ z = i.z /\ y < i.y
  \/ z = i.z /\ y = i.y /\ x < i.x

LEMMA PositionBeforeEnd ==
  ASSUME NEW g \in Extents,
         NEW first \in Nat, NEW last \in Nat, first <= last, last < g.ys,
         NEW i, Placed(g, i, first, last)
  PROVE  PositionOf(g, i, first, last) < LinearOf(g, g.xs - 1, last, g.zs - 1) + 1
<1> DEFINE w == g.xs
           h == g.ys
           d == w * (last - first + 1)
           z == g.zs - 1
<1>1. /\ w \in Nat \ {0} /\ h \in Nat \ {0} /\ z \in Nat
      /\ i.x \in Nat /\ i.x <= w - 1 /\ i.y \in Nat /\ i.y <= last /\ i.z \in Nat /\ i.z <= z
  BY ExtentTypes DEF Placed
<1> DEFINE e == w * h
           n == last - first + 1
<1>2. n \in Nat /\ n <= h
  BY <1>1
<1>3. w * n \in Nat /\ w * n <= e /\ e \in Nat
  <2> HIDE DEF n
  <2> QED BY <1>1, <1>2, MulMono
<1>4. d \in Nat /\ d <= e
  BY <1>3
<1> HIDE DEF d, e, z, w, n
<1>5. d * i.z \in Nat /\ d * i.z <= d * z /\ d * z \in Nat
  BY <1>1, <1>4, MulMono
<1>6. d * z <= e * z /\ e * z \in Nat
  <2>1. z * d <= z * e
    BY <1>1, <1>3, <1>4, MulMono
  <2>2. z * d = d * z /\ z * e = e * z /\ e * z \in Nat
    BY <1>1, <1>3, <1>4
  <2> QED BY <2>1, <2>2
<1>7. w * i.y \in Nat /\ w * i.y <= w * last /\ w * last \in Nat
  BY <1>1, MulMono
<1>8. (w * i.y + d * i.z) + i.x < (w - 1) + w * last + e * z + 1
  BY <1>1, <1>5, <1>6, <1>7
<1>9. PositionOf(g, i, first, last) = (w * i.y + d * i.z) + i.x
  BY DEF PositionOf, d, w
<1>10. LinearOf(g, g.xs - 1, last, g.zs - 1) = (w - 1) + w * last + e * z
  BY DEF LinearOf, e, w, h, z
<1> QED BY <1>8, <1>9, <1>10

(* ++ of an iterator that is not at the end.                                        *)
LEMMA StepRight ==
  ASSUME NEW g \in Extents, OneBlock(g),
         NEW first \in Nat, NEW last \in Nat, first <= last, last < g.ys,
         NEW i, Right(g, i, first, last), i.linear # i.end,
         NEW k, k = Move(g, i, 1)
  PROVE  /\ Right(g, k, first, last) /\ k.end = i.end
         /\ k.linear # k.end => ~IsAtEnd(i) /\ Follows(k, i)
         /\ \A x \in 0 .. g.xs - 1, y \in first .. last, z \in 0 .. g.zs - 1 :
              Passed(k, x, y, z) => Passed(i, x, y, z) \/ (x = i.x /\ y = i.y /\ z = i.z)
<1>1. /\ g.xs \in Nat \ {0} /\ g.zs \in Nat \ {0}
      /\ i \in Iterators /\ i.linear \in Int /\ i.end \in Int
      /\ i.box.x1 = 0 /\ i.box.x2 = g.xs - 1
      /\ i.box.y1 = first /\ i.box.y2 = last /\ i.box.z1 = 0 /\ i.box.z2 = g.zs - 1
      /\ i.x \in Nat /\ i.x <= g.xs - 1 /\ i.y \in Nat /\ first <= i.y /\ i.y <= last
      /\ i.z \in Nat /\ i.z <= g.zs - 1
  BY ExtentTypes DEF Right, Placed, Iterators
<1>2. CASE IsAtEnd(i)
  <2>1. k = [i EXCEPT !.linear = i.end]
    BY <1>2 DEF Move, ToEnd
  <2>2. /\ k \in Iterators /\ k.box = i.box /\ k.x = i.x /\ k.y = i.y /\ k.z = i.z
        /\ k.block = i.block /\ k.offset = i.offset /\ k.linear = i.end /\ k.end = i.end
    BY <1>1, <2>1 DEF Iterators
  <2>3. Right(g, k, first, last)
    BY <2>2 DEF Right, Placed, InCell
  <2>4. ASSUME NEW x \in 0 .. g.xs - 1, NEW y \in first .. last, NEW z \in 0 .. g.zs - 1
        PROVE  Passed(i, x, y, z) \/ (x = i.x /\ y = i.y /\ z = i.z)
    BY <1>1, <1>2 DEF Passed, IsAtEnd
  <2> QED BY <2>2, <2>3, <2>4
<1>3. CASE ~IsAtEnd(i)
  <2>1. /\ Placed(g, k, first, last) /\ k.box = i.box /\ Follows(k, i)
        /\ k.linear = i.linear + 1 /\ k.end = i.end /\ InCell(g, k)
    BY <1>3, StepPlaced DEF Right
  <2>2. k.linear = PositionOf(g, k, first, last)
    <3> DEFINE w == g.xs
               d == w * (last - first + 1)
    <3>1. /\ i.linear = (w * i.y + d * i.z) + i.x
          /\ PositionOf(g, k, first, last) = (w * k.y + d * k.z) + k.x
      BY DEF Right, PositionOf
    <3>2. d \in Int /\ w \in Int /\ d = w * last - w * first + w
          /\ w * last \in Int /\ w * first \in Int
      BY <1>1
    <3>3. w * i.y \in Int /\ d * i.z \in Int
      <4> HIDE DEF d
      <4> QED BY <1>1, <3>2
    <3>4. w * (i.y + 1) = w * i.y + w
      BY <1>1
    <3>5. d * (i.z + 1) = d * i.z + d
      <4> HIDE DEF d
      <4> QED BY <1>1, <3>2
    <3> HIDE DEF d, w
    <3>6. CASE i.x < i.box.x2 /\ k.x = i.x + 1 /\ k.y = i.y /\ k.z = i.z
      BY <1>1, <2>1, <3>1, <3>3, <3>6
    <3>7. CASE i.x = i.box.x2 /\ i.y < i.box.y2 /\ k.x = 0 /\ k.y = i.y + 1 /\ k.z = i.z
      <4> DEFINE a == w * i.y
                 b == d * i.z
      <4>1. i.x = w - 1 /\ w * k.y = a + w /\ d * k.z = b
        BY <1>1, <3>4, <3>7 DEF w
      <4>2. i.linear = (a + b) + (w - 1) /\ PositionOf(g, k, first, last) = ((a + w) + b) + 0
        BY <3>1, <3>7, <4>1
      <4>3. a \in Int /\ b \in Int /\ w \in Int
        BY <3>2, <3>3
      <4> HIDE DEF a, b
      <4> QED BY <2>1, <4>2, <4>3
    <3>8. CASE /\ i.x = i.box.x2 /\ i.y = i.box.y2 /\ i.z < i.box.z2
               /\ k.x = 0 /\ k.y = i.box.y1 /\ k.z = i.z + 1
      <4>1. i.x = w - 1 /\ w * i.y = w * last /\ w * k.y = w * first /\ d * k.z = d * i.z + d
        BY <1>1, <3>5, <3>8 DEF w
      <4> QED BY <1>1, <2>1, <3>1, <3>2, <3>3, <3>8, <4>1
    <3> QED BY <2>1, <3>6, <3>7, <3>8 DEF Follows
  <2>3. Right(g, k, first, last)
    BY <2>1, <2>2 DEF Right
  <2>4. k.linear # k.end
    <3>1. k.linear < k.end
      BY <2>1, <2>2, <2>3, PositionBeforeEnd DEF Right
    <3> QED BY <1>1, <2>1, <3>1
  <2>5. ASSUME NEW x \in 0 .. g.xs - 1, NEW y \in first .. last, NEW z \in 0 .. g.zs - 1,
               Passed(k, x, y, z)
        PROVE  Passed(i, x, y, z) \/ (x = i.x /\ y = i.y /\ z = i.z)
    <3>1. z < k.z \/ (z = k.z /\ y < k.y) \/ (z = k.z /\ y = k.y /\ x < k.x)
      BY <2>4, <2>5 DEF Passed
    <3>2. z < i.z \/ (z = i.z /\ y < i.y) \/ (z = i.z /\ y = i.y /\ x < i.x)
          \/ (x = i.x /\ y = i.y /\ z = i.z)
      BY <1>1, <2>1, <3>1 DEF Follows
    <3> QED BY <3>2 DEF Passed
  <2> QED BY <1>3, <2>1, <2>3, <2>5
<1> QED BY <1>2, <1>3

(* A new iterator, on a box of a task, stands at the first pixel of it.             *)
LEMMA BeginRight ==
  ASSUME NEW g \in Extents,
         NEW first \in Nat, NEW last \in Nat, first <= last, last < g.ys,
         NEW b, b = BoxOf(0, first, 0, g.xs - 1, last, g.zs),
         NEW i, i = Iterator(g, b, "XYZ")
  PROVE  /\ Right(g, i, first, last) /\ i.x = 0 /\ i.y = first /\ i.z = 0
         /\ i.linear # i.end /\ EndOf(g, i).linear = i.end
<1> DEFINE e == Ensure(g, b)
           w == g.xs
<1>1. w \in Nat \ {0} /\ g.ys \in Nat \ {0} /\ g.zs \in Nat \ {0} /\ g.maxLines \in Nat \ {0}
  BY ExtentTypes
<1>2. /\ b \in Boxes /\ b.x1 = 0 /\ b.x2 = w - 1 /\ b.y1 = first /\ b.y2 = last
      /\ b.z1 = 0 /\ b.z2 = g.zs
  BY <1>1 DEF BoxOf, Boxes
<1>3. /\ e \in Boxes /\ e.x1 = 0 /\ e.x2 = w - 1 /\ e.y1 = first /\ e.y2 = last
      /\ e.z1 = 0 /\ e.z2 = g.zs - 1
  <2>1. (IF XLength(b) > g.xs THEN g.xs - 1 ELSE b.x2) = b.x2
    BY <1>1, <1>2 DEF XLength
  <2>2. (IF YLength(b) > g.ys THEN g.ys - 1 ELSE b.y2) = b.y2
    BY <1>1, <1>2 DEF YLength
  <2>3. (IF ZLength(b) > g.zs THEN g.zs - 1 ELSE b.z2) = g.zs - 1
    BY <1>1, <1>2 DEF ZLength
  <2>4. e = [b EXCEPT !.x2 = b.x2, !.y2 = b.y2, !.z2 = g.zs - 1]
    BY <2>1, <2>2, <2>3 DEF Ensure
  <2> DEFINE x2 == b.x2
             y2 == b.y2
             z2 == g.zs - 1
  <2>5. e = [b EXCEPT !.x2 = x2, !.y2 = y2, !.z2 = z2]
    BY <2>4
  <2>6. /\ x2 \in Int /\ x2 = w - 1 /\ y2 \in Int /\ y2 = last
        /\ z2 \in Int /\ z2 = g.zs - 1
    BY <1>1, <1>2
  <2> HIDE DEF e, w, x2, y2, z2
  <2>7. e \in Boxes
    BY <1>2, <2>5, <2>6 DEF Boxes
  <2>8. /\ e.x1 = 0 /\ e.x2 = x2 /\ e.y1 = first /\ e.y2 = y2 /\ e.z1 = 0 /\ e.z2 = z2
    BY <1>2, <2>5 DEF Boxes
  <2> QED BY <2>6, <2>7, <2>8
<1> HIDE DEF e
<1> DEFINE bl == BlocksPerBand(g) * 0 + (first \div g.maxLines)
           of == w * (first % g.maxLines) + 0
           l == LinearOf(g, 0, first, 0)
           n == LinearOf(g, w - 1, last, g.zs - 1) + 1
<1>4. bl \in Int /\ of \in Int /\ l \in Int /\ n \in Int
  <2>1. first \div g.maxLines \in Int /\ first % g.maxLines \in Int
    BY <1>1
  <2>2. bl \in Int
    BY <2>1, BlocksAre
  <2>3. of \in Int
    BY <1>1, <2>1
  <2>4. w * g.ys \in Int
    BY <1>1
  <2>5. l \in Int /\ n \in Int
    BY <1>1, <2>4 DEF LinearOf
  <2> QED BY <2>2, <2>3, <2>5
<1>5. /\ i \in Iterators
      /\ i.box = e /\ i.x = 0 /\ i.y = first /\ i.z = 0
      /\ i.block = bl /\ i.offset = of /\ i.linear = l /\ i.end = n
  <2> DEFINE r == [box |-> e, flow |-> "XYZ", x |-> 0, y |-> first, z |-> 0,
                   block |-> 0, offset |-> 0, linear |-> 0, end |-> 0]
             c == CellOf(g, <<r.x, r.y, r.z>>)
             l1 == LinearOf(g, r.x, r.y, r.z)
             n1 == LinearOf(g, r.box.x2, r.box.y2, r.box.z2) + 1
  <2>1. r \in Iterators /\ r.box = e /\ r.x = 0 /\ r.y = first /\ r.z = 0
    BY <1>3 DEF Iterators
  <2>2. i = InitPosition(g, r)
    BY <1>3 DEF Iterator, e
  <2> HIDE DEF r
  <2>3. i = [r EXCEPT !.block = c[1], !.offset = c[2], !.linear = l1, !.end = n1]
    BY <2>2 DEF InitPosition
  <2>4. c[1] = bl /\ c[2] = of /\ l1 = l /\ n1 = n
    <3>1. c = <<bl, of>>
      BY <2>1, CellIs DEF w
    <3>2. l1 = l /\ n1 = n
      BY <1>3, <2>1
    <3> HIDE DEF bl, of, l, n, c, l1, n1
    <3> QED BY <3>1, <3>2
  <2> HIDE DEF bl, of, l, n, c, l1, n1
  <2>5. i = [r EXCEPT !.block = bl, !.offset = of, !.linear = l, !.end = n]
    BY <2>3, <2>4
  <2> QED BY <1>4, <2>1, <2>5 DEF Iterators
<1>6. Placed(g, i, first, last)
  <2>1. i.x \in 0 .. w - 1 /\ i.y \in first .. last /\ i.z \in 0 .. g.zs - 1
    BY <1>1, <1>5
  <2> QED BY <1>3, <1>5, <2>1 DEF Placed, w
<1>7. InCell(g, i)
  BY <1>5 DEF InCell, w
<1>8. i.linear = PositionOf(g, i, first, last)
  <2> DEFINE d == w * (last - first + 1)
             p == w * first
             q == w * g.ys
  <2>1. d \in Int /\ p \in Int /\ q \in Int
    BY <1>1
  <2>2. PositionOf(g, i, first, last) = (p + d * 0) + 0
    BY <1>5 DEF PositionOf, w
  <2>3. i.linear = 0 + p + q * 0
    BY <1>5 DEF LinearOf, w
  <2> HIDE DEF d, p, q
  <2> QED BY <2>1, <2>2, <2>3
<1>9. i.end = LinearOf(g, g.xs - 1, last, g.zs - 1) + 1
  BY <1>5 DEF w
<1>10. Right(g, i, first, last)
  BY <1>6, <1>7, <1>8, <1>9 DEF Right
<1>11. i.linear < i.end /\ i.linear \in Int /\ i.end \in Int
  BY <1>5, <1>6, <1>8, <1>9, PositionBeforeEnd DEF Iterators
<1>12. i.x = i.box.x1 /\ i.linear <= i.end
  BY <1>3, <1>5, <1>11
<1> QED BY <1>5, <1>10, <1>11, <1>12, EndIs

-----------------------------------------------------------------------------
(* A walk over groups *)

(* From any column to the first one, s lines further or u bands further.            *)
LEMMA LinesFurther ==
  ASSUME NEW g \in Extents, NEW i \in Iterators, ~IsAtEnd(i),
         i.box.x1 = 0, XLength(i.box) \in Nat \ {0}, i.x \in Nat, i.z \in Nat,
         i.box.y1 \in Nat, YLength(i.box) \in Nat \ {0}, i.y >= i.box.y1,
         NEW n \in Nat \ {0}, NEW s \in Nat \ {0}, i.x + n = XLength(i.box) * s,
         NEW k, k = Move(g, i, n)
  PROVE  /\ i.y + s <= i.box.y2 =>
              k \in Iterators /\ k.box = i.box /\ k.x = 0 /\ k.y = i.y + s /\ k.z = i.z
         /\ \A u \in Nat \ {0} : i.y + s = i.box.y1 + YLength(i.box) * u =>
              k \in Iterators /\ k.box = i.box /\ k.x = 0 /\ k.y = i.box.y1 /\ k.z = i.z + u
<1> DEFINE m == Aside(i, n)
           next == Landed(g, m)
<1>1. /\ m \in Iterators /\ m.box = i.box
      /\ m.x = i.x + n /\ m.y = i.y /\ m.z = i.z
  <2>1. i \in Iterators /\ n \in Int
    OBVIOUS
  <2>2. m = Aside(i, n)
    OBVIOUS
  <2> HIDE DEF m
  <2>3. /\ m \in Iterators /\ m.box = i.box /\ m.flow = i.flow
        /\ m.x = i.x + n /\ m.y = i.y /\ m.z = i.z
        /\ m.block = i.block /\ m.offset = i.offset + n
        /\ m.linear = i.linear + n /\ m.end = i.end
    BY <2>1, <2>2, MovedAside, ZenonT(60)
  <2> QED BY <2>3
<1>2. k = IF m.x > m.box.x2 \/ m.z > m.box.z2 \/ m.x < m.box.x1
            THEN MoveYZ(g, m, n) ELSE m
  <2>1. i.flow = "XYZ" /\ n > 0 /\ n # 0
    BY DEF Iterators
  <2> QED BY <2>1 DEF Move, MoveXYZ, Aside
<1>3. i.box \in Boxes /\ i.y \in Nat /\ i.box.x2 \in Int /\ i.box.y2 \in Int
  BY DEF Iterators, Boxes
<1> HIDE DEF m
<1>4. m.x > m.box.x2 /\ ~(m.x < m.box.x1)
  <2> DEFINE l == XLength(i.box)
  <2>1. l = i.box.x2 + 1 /\ l \in Nat \ {0} /\ m.x = l * s
    BY <1>1, <1>3 DEF XLength
  <2> HIDE DEF l
  <2>2. l * s \in Nat /\ l <= l * s
    BY <2>1, MulGrows
  <2> QED BY <1>1, <1>3, <2>1, <2>2
<1>5. /\ next \in Iterators /\ next.box = i.box
      /\ next.x = 0 /\ next.y = i.y + s /\ next.z = i.z
  <2>1. m.box.x1 = 0 /\ XLength(m.box) \in Nat \ {0} /\ m.x = XLength(m.box) * s
        /\ m.y \in Nat /\ m.z \in Nat
    BY <1>1, <1>3
  <2>2. next = Landed(g, m)
    OBVIOUS
  <2> HIDE DEF next
  <2>3. next \in Iterators /\ next.box = m.box /\ next.x = 0 /\ next.y = m.y + s /\ next.z = m.z
    BY <1>1, <2>1, <2>2, LandedIs
  <2> QED BY <1>1, <2>3
<1>6. k = CASE next.y > next.box.y2 -> NextBand(g, next)
            [] next.y < next.box.y1 -> BandBefore(g, next)
            [] OTHER -> next
  BY <1>2, <1>4, MoveYZIs DEF next
<1> HIDE DEF next
<1>7. ~(next.y < next.box.y1)
  BY <1>3, <1>5
<1>8. ASSUME i.y + s <= i.box.y2 PROVE k = next
  <2>1. ~(next.y > next.box.y2)
    BY <1>3, <1>5, <1>8
  <2> QED BY <1>6, <1>7, <2>1
<1>9. ASSUME NEW u \in Nat \ {0}, i.y + s = i.box.y1 + YLength(i.box) * u
      PROVE  k \in Iterators /\ k.box = i.box /\ k.x = 0 /\ k.y = i.box.y1 /\ k.z = i.z + u
  <2>1. next.y > next.box.y2
    <3> DEFINE l == YLength(i.box)
    <3>1. l = i.box.y2 - i.box.y1 + 1 /\ l \in Nat \ {0} /\ next.y = i.box.y1 + l * u
      BY <1>3, <1>5, <1>9 DEF YLength
    <3> HIDE DEF l
    <3>2. l * u \in Nat /\ l <= l * u
      BY <3>1, MulGrows
    <3> DEFINE p == l * u
    <3>3. next.y = i.box.y1 + p /\ p \in Nat /\ l <= p /\ l = i.box.y2 - i.box.y1 + 1
      BY <3>1, <3>2
    <3> HIDE DEF p
    <3>4. i.box.y1 \in Nat /\ i.box.y2 \in Int
      BY <1>3
    <3>5. next.y > i.box.y2
      BY <3>3, <3>4
    <3> QED BY <1>5, <3>5
  <2>2. k = NextBand(g, next)
    BY <1>6, <1>7, <2>1
  <2>3. next.box.y1 \in Nat /\ YLength(next.box) \in Nat \ {0}
        /\ next.y = next.box.y1 + YLength(next.box) * u /\ next.z \in Nat
    BY <1>5, <1>9
  <2>4. /\ k \in Iterators /\ k.box = next.box
        /\ k.x = next.x /\ k.y = next.box.y1 /\ k.z = next.z + u
    BY <1>5, <2>2, <2>3, NextBandIs
  <2> QED BY <1>5, <2>4
<1> QED BY <1>5, <1>8, <1>9

(* The iterator of the input of an aggregation stands at the first pixel of the     *)
(* group of the pixel x, y, z of the output.                                        *)
Grouped(j, b, x, y, z, first, last) ==
  /\ b \in Iterators
  /\ b.box.x1 = 0 /\ b.box.x2 = j.grid.xs * j.size[1] - 1
  /\ b.box.y1 = first * j.size[2] /\ b.box.y2 = (last + 1) * j.size[2] - 1
  /\ b.box.z1 = 0 /\ b.box.z2 >= j.grid.zs * j.size[3] - 1
  /\ b.x = x * j.size[1] /\ b.y = y * j.size[2] /\ b.z = z * j.size[3]

(* v is the n-th place, and there are m places of s cells.                          *)
LEMMA Multiples ==
  ASSUME NEW n \in Nat, NEW m \in Nat, n < m, NEW s \in Nat \ {0}
  PROVE  /\ n * s \in Nat /\ m * s \in Nat /\ (n + 1) * s = n * s + s
         /\ n * s + s <= m * s
         /\ n + 1 < m => n * s + s + s <= m * s
         /\ n + 1 = m => n * s + s = m * s
<1>1. n * s \in Nat /\ m * s \in Nat /\ s * n = n * s /\ s * m = m * s
  OBVIOUS
<1>2. (n + 1) * s = n * s + s /\ s * (n + 1) = n * s + s
  OBVIOUS
<1>3. s * n + s <= s * m
  BY MulLess
<1>4. ASSUME n + 1 < m PROVE n * s + s + s <= m * s
  <2>1. s * (n + 1) + s <= s * m
    BY <1>4, MulLess
  <2> QED BY <1>1, <1>2, <2>1
<1>5. ASSUME n + 1 = m PROVE n * s + s = m * s
  BY <1>2, <1>5
<1> QED BY <1>1, <1>2, <1>3, <1>4, <1>5

(* ++ of the BlockIterator goes from group to group as the iterator of the output   *)
(* goes from pixel to pixel, for groups that are not wider than high.               *)
LEMMA GroupStep ==
  ASSUME job \in Jobs, job.kind = "groups", job.size[1] <= job.size[2], job.grid.xs >= 2,
         NEW first \in Nat, NEW last \in Nat, first <= last,
         NEW x \in Nat, x < job.grid.xs, NEW y \in Nat, first <= y, y <= last,
         NEW z \in Nat, z < job.grid.zs,
         ~(x + 1 = job.grid.xs /\ y = last /\ z + 1 = job.grid.zs),
         NEW i, Grouped(job, i, x, y, z, first, last),
         NEW k, k = NextBlock(job.input, i, job.size)
  PROVE  /\ x + 1 < job.grid.xs => Grouped(job, k, x + 1, y, z, first, last)
         /\ x + 1 = job.grid.xs /\ y < last => Grouped(job, k, 0, y + 1, z, first, last)
         /\ x + 1 = job.grid.xs /\ y = last => Grouped(job, k, 0, first, z + 1, first, last)
<1> DEFINE g == job.input
           sx == job.size[1]
           sy == job.size[2]
           sz == job.size[3]
           xs == job.grid.xs
           zs == job.grid.zs
           p == x * sx
           q == y * sy
           r == z * sz
           w == xs * sx
           f == first * sy
           l == (last + 1) * sy
           d == zs * sz
           h == l - f
<1>1. /\ g \in Extents /\ sx \in Nat \ {0} /\ sy \in Nat \ {0} /\ sz \in Nat \ {0}
      /\ sx <= sy /\ xs \in Nat /\ zs \in Nat /\ xs >= 2
  BY JobTypes, JobsAssumption
<1>2. /\ i \in Iterators /\ i.box.x1 = 0 /\ i.box.x2 = w - 1
      /\ i.box.y1 = f /\ i.box.y2 = l - 1
      /\ i.box.z1 = 0 /\ i.box.z2 >= d - 1
      /\ i.x = p /\ i.y = q /\ i.z = r /\ i.box.z2 \in Int
  BY DEF Grouped, Iterators, Boxes
<1>3. k = NextBlock(g, i, job.size) /\ ~(x + 1 = xs /\ y = last /\ z + 1 = zs)
  OBVIOUS
<1>4. ASSUME NEW b, b \in Iterators, b.box = i.box, NEW u, NEW v, NEW t,
             b.x = u * sx, b.y = v * sy, b.z = t * sz
      PROVE  Grouped(job, b, u, v, t, first, last)
  BY <1>2, <1>4 DEF Grouped
<1>5. /\ p \in Nat /\ w \in Nat /\ (x + 1) * sx = p + sx /\ p + sx <= w
      /\ x + 1 < xs => p + sx + sx <= w
      /\ x + 1 = xs => p + sx = w
  <2> HIDE DEF sx, xs
  <2> QED BY <1>1, Multiples DEF xs
<1>6. /\ q \in Nat /\ l \in Nat /\ (y + 1) * sy = q + sy /\ q + sy <= l
      /\ y < last => q + sy + sy <= l
      /\ y = last => q + sy = l
  <2>1. last + 1 \in Nat /\ y < last + 1
    OBVIOUS
  <2> HIDE DEF sy
  <2> QED BY <1>1, <2>1, Multiples
<1>7. /\ r \in Nat /\ d \in Nat /\ (z + 1) * sz = r + sz /\ r + sz <= d
      /\ z + 1 < zs => r + sz + sz <= d
      /\ z + 1 = zs => r + sz = d
      /\ z + 1 <= zs
  <2>1. z < zs
    OBVIOUS
  <2> HIDE DEF sz, zs, p, q, w, f, l, h
  <2>2. z \in Nat /\ zs \in Nat /\ sz \in Nat \ {0}
    BY <1>1
  <2>3. /\ z * sz \in Nat /\ zs * sz \in Nat /\ (z + 1) * sz = z * sz + sz
        /\ z * sz + sz <= zs * sz
        /\ z + 1 < zs => z * sz + sz + sz <= zs * sz
        /\ z + 1 = zs => z * sz + sz = zs * sz
    BY <2>1, <2>2, Multiples
  <2>4. z + 1 <= zs
    BY <2>1, <2>2
  <2> QED BY <2>3, <2>4
<1>8. f \in Nat /\ f <= q /\ 0 * sx = 0
  <2> HIDE DEF sx, sy
  <2>1. sy * first <= sy * y /\ sy * first = f /\ sy * y = q
    BY <1>1, MulMono
  <2> QED BY <1>1, <2>1
<1>9. w >= 2
  <2> HIDE DEF sx, xs
  <2>1. sx * 2 <= sx * xs /\ sx * xs = w
    BY <1>1, MulMono
  <2> QED BY <1>1, <2>1
<1> HIDE DEF g, sx, sy, sz, xs, zs, p, q, r, w, f, l, d
<1>10. XLength(i.box) = w /\ YLength(i.box) = h /\ h \in Nat \ {0}
  BY <1>1, <1>2, <1>5, <1>6, <1>8 DEF XLength, YLength
<1>11. ~IsAtEnd(i)
  <2> SUFFICES ASSUME i.x = i.box.x2, i.y = i.box.y2, i.z = i.box.z2 PROVE FALSE
    BY DEF IsAtEnd
  <2>1. p = w - 1 /\ q = l - 1 /\ r >= d - 1
    BY <1>2
  <2>2. x + 1 = xs
    BY <1>1, <1>5, <2>1 DEF xs
  <2>3. y = last
    BY <1>1, <1>6, <2>1
  <2>4. z + 1 = zs
    BY <1>1, <1>7, <2>1
  <2> QED BY <1>3, <2>2, <2>3, <2>4
<1> DEFINE n == StepOf(i, job.size)
           m == Move(g, i, n)
<1>12. k = IF m.z # i.z THEN Move(g, m, w * h * (sz - 1)) ELSE m
  BY <1>3, <1>10 DEF NextBlock, sz
<1>13. ~(i.y + sx - 1 > i.box.y2)
  BY <1>1, <1>2, <1>6
<1>14. n = IF i.x + sx > i.box.x2 THEN 1 + i.box.x2 - i.x + w * (sy - 1) ELSE sx
  BY <1>10, <1>13 DEF StepOf, sx, sy
<1> HIDE DEF n, m, h
<1>15. CASE x + 1 < xs
  <2>1. p + sx <= w - 1
    BY <1>1, <1>5, <1>15
  <2>2. n = sx
    BY <1>1, <1>2, <1>5, <1>14, <2>1
  <2>3. /\ Aside(i, n) \in Iterators /\ Aside(i, n).box = i.box
        /\ Aside(i, n).x = i.x + n /\ Aside(i, n).y = i.y /\ Aside(i, n).z = i.z
    <3> DEFINE a == Aside(i, n)
    <3>1. i \in Iterators /\ n \in Int
      BY <1>1, <1>2, <2>2
    <3>2. a = Aside(i, n)
      OBVIOUS
    <3> HIDE DEF a
    <3>3. /\ a \in Iterators /\ a.box = i.box /\ a.flow = i.flow
          /\ a.x = i.x + n /\ a.y = i.y /\ a.z = i.z
          /\ a.block = i.block /\ a.offset = i.offset + n
          /\ a.linear = i.linear + n /\ a.end = i.end
      BY <3>1, <3>2, MovedAside, ZenonT(60)
    <3> QED BY <3>3 DEF a
  <2>4. m = Aside(i, n)
    <3>1. i.flow = "XYZ" /\ n > 0 /\ n # 0
      BY <1>1, <1>2, <2>2 DEF Iterators
    <3>2. m = MoveXYZ(g, i, n)
      BY <1>11, <3>1 DEF Move, m
    <3>3. MoveXYZ(g, i, n) = IF \/ Aside(i, n).x > Aside(i, n).box.x2
                                \/ Aside(i, n).z > Aside(i, n).box.z2
                                \/ Aside(i, n).x < Aside(i, n).box.x1
                               THEN MoveYZ(g, Aside(i, n), n) ELSE Aside(i, n)
      BY DEF MoveXYZ, Aside
    <3>4. ~(p + sx > w - 1) /\ ~(r > i.box.z2) /\ ~(p + sx < 0)
      BY <1>1, <1>2, <1>5, <1>7, <2>1
    <3>5. /\ ~(Aside(i, n).x > Aside(i, n).box.x2)
          /\ ~(Aside(i, n).z > Aside(i, n).box.z2)
          /\ ~(Aside(i, n).x < Aside(i, n).box.x1)
      BY <1>2, <2>2, <2>3, <3>4
    <3> QED BY <3>2, <3>3, <3>5
  <2>5. m \in Iterators /\ m.box = i.box /\ m.x = p + sx /\ m.y = q /\ m.z = r
    BY <1>2, <2>2, <2>3, <2>4
  <2>6. k = m
    BY <1>2, <1>12, <2>5
  <2>7. Grouped(job, k, x + 1, y, z, first, last)
    <3>1. k.x = (x + 1) * sx /\ k.y = y * sy /\ k.z = z * sz
      BY <1>5, <2>5, <2>6 DEF q, r
    <3> QED BY <1>4, <2>5, <2>6, <3>1
  <2> QED BY <1>15, <2>7 DEF xs
<1>16. CASE x + 1 = xs
  <2> DEFINE s == w * (sy - 1)
             e == w * sy
  <2>1. s \in Nat /\ e \in Nat /\ e = s + w
    BY <1>1, <1>5
  <2> HIDE DEF s, e
  <2>2. p + sx = w
    BY <1>5, <1>16
  <2>3. i.x + sx > i.box.x2
    BY <1>1, <1>2, <1>5, <2>2
  <2>4. n = 1 + i.box.x2 - i.x + s
    BY <1>14, <2>3 DEF s
  <2>5. n \in Nat \ {0} /\ i.x + n = e
    BY <1>1, <1>2, <1>5, <2>1, <2>2, <2>4
  <2>6. /\ i.box.x1 = 0 /\ XLength(i.box) \in Nat \ {0} /\ i.x \in Nat /\ i.z \in Nat
        /\ i.box.y1 \in Nat /\ YLength(i.box) \in Nat \ {0} /\ i.y >= i.box.y1
        /\ i.x + n = XLength(i.box) * sy
    BY <1>2, <1>5, <1>6, <1>7, <1>8, <1>9, <1>10, <2>5 DEF e
  <2>7. /\ i.y + sy <= i.box.y2 =>
             m \in Iterators /\ m.box = i.box /\ m.x = 0 /\ m.y = i.y + sy /\ m.z = i.z
        /\ \A u \in Nat \ {0} : i.y + sy = i.box.y1 + YLength(i.box) * u =>
             m \in Iterators /\ m.box = i.box /\ m.x = 0 /\ m.y = i.box.y1 /\ m.z = i.z + u
    <3>1. m = Move(g, i, n)
      BY DEF m
    <3> QED BY <1>1, <1>2, <1>11, <2>5, <2>6, <3>1, LinesFurther
  <2>8. CASE y < last
    <3>1. i.y + sy <= i.box.y2
      BY <1>1, <1>2, <1>6, <2>8
    <3>2. m \in Iterators /\ m.box = i.box /\ m.x = 0 /\ m.y = q + sy /\ m.z = r
      BY <1>2, <2>7, <3>1
    <3>3. k = m
      BY <1>2, <1>12, <3>2
    <3>4. k.x = 0 * sx /\ k.y = (y + 1) * sy /\ k.z = z * sz
      BY <1>6, <1>8, <3>2, <3>3 DEF r
    <3>5. Grouped(job, k, 0, y + 1, z, first, last)
      BY <1>4, <3>2, <3>3, <3>4
    <3> QED BY <1>1, <1>16, <2>8, <3>5 DEF xs
  <2>9. CASE y = last
    <3>1. i.y + sy = i.box.y1 + YLength(i.box) * 1 /\ 1 \in Nat \ {0}
      BY <1>1, <1>2, <1>6, <1>8, <1>10, <2>9 DEF h
    <3>2. m \in Iterators /\ m.box = i.box /\ m.x = 0 /\ m.y = f /\ m.z = r + 1
      BY <1>2, <2>7, <3>1
    <3>3. k = Move(g, m, w * h * (sz - 1))
      BY <1>2, <1>7, <1>12, <3>2
    <3>4. k \in Iterators /\ k.box = i.box /\ k.x = 0 /\ k.y = f /\ k.z = r + sz
      <4>1. CASE sz = 1
        <5>1. w * h * (sz - 1) = 0
          BY <1>5, <1>10, <4>1
        <5>2. k = m
          BY <3>3, <5>1 DEF Move
        <5> QED BY <3>2, <4>1, <5>2
      <4>2. CASE sz # 1
        <5> DEFINE u == sz - 1
                   a == h * u
                   c == w * h * u
        <5>1. u \in Nat \ {0} /\ sz = u + 1
          BY <1>1, <4>2
        <5> HIDE DEF u
        <5>2. a \in Nat \ {0}
          BY <1>10, <5>1
        <5>3. c = w * a
          BY <1>5, <1>10, <5>1
        <5> HIDE DEF a, c
        <5>4. c \in Nat \ {0}
          BY <1>5, <1>9, <5>2, <5>3
        <5>5. ~IsAtEnd(m)
          BY <1>2, <1>5, <1>9, <3>2 DEF IsAtEnd
        <5>6. /\ m.box.x1 = 0 /\ XLength(m.box) \in Nat \ {0} /\ m.x \in Nat /\ m.z \in Nat
              /\ m.box.y1 \in Nat /\ YLength(m.box) \in Nat \ {0} /\ m.y >= m.box.y1
              /\ m.x + c = XLength(m.box) * a
          <6>1. w * a \in Nat
            BY <5>3, <5>4
          <6> QED BY <1>2, <1>5, <1>7, <1>8, <1>9, <1>10, <3>2, <5>3, <5>4, <6>1
        <5>7. m.y + a = m.box.y1 + YLength(m.box) * u
          BY <1>2, <1>10, <3>2 DEF a
        <5>8. k = Move(g, m, c)
          BY <3>3 DEF c, u
        <5>9. k \in Iterators /\ k.box = m.box /\ k.x = 0 /\ k.y = m.box.y1 /\ k.z = m.z + u
          <6>1. g \in Extents /\ m \in Iterators
            BY <1>1, <3>2
          <6>2. \A b \in Nat \ {0} : m.y + a = m.box.y1 + YLength(m.box) * b =>
                  k \in Iterators /\ k.box = m.box /\ k.x = 0 /\ k.y = m.box.y1 /\ k.z = m.z + b
            BY <5>2, <5>4, <5>5, <5>6, <5>8, <6>1, LinesFurther
          <6> QED BY <5>1, <5>7, <6>2
        <5>10. k \in Iterators /\ k.box = i.box /\ k.x = 0
          BY <3>2, <5>9
        <5>11. k.y = f
          <6>1. m.box.y1 = i.box.y1 /\ i.box.y1 = f
            BY <1>2, <3>2
          <6> QED BY <5>9, <6>1
        <5>12. k.z = r + sz
          BY <1>7, <3>2, <5>1, <5>9
        <5> QED BY <5>10, <5>11, <5>12
      <4> QED BY <4>1, <4>2
    <3>5. k.x = 0 * sx /\ k.y = first * sy /\ k.z = (z + 1) * sz
      BY <1>7, <1>8, <3>4 DEF f
    <3>6. Grouped(job, k, 0, first, z + 1, first, last)
      BY <1>4, <3>4, <3>5
    <3> QED BY <1>1, <1>16, <2>9, <3>6 DEF xs
  <2> QED BY <2>8, <2>9
<1>17. x + 1 < xs \/ x + 1 = xs
  BY <1>1 DEF xs
<1> QED BY <1>15, <1>16, <1>17

-----------------------------------------------------------------------------
(* What a task reads *)

(* The operations that the theorems are about.                                      *)
Divided ==
  /\ job.own = None /\ job.n = 1 /\ job.flow = "XYZ" /\ OneBlock(job.grid)
  /\ job.kind = "groups" => job.size[1] <= job.size[2]

(* The iterator b of the input is where the one of the output, i, is.               *)
Beside(j, b, i, first, last) ==
  /\ j.kind = "filter" =>
       Placed(j.input, b, first, last) /\ b.x = i.x /\ b.y = i.y /\ b.z = i.z
  /\ j.kind = "groups" => Grouped(j, b, i.x, i.y, i.z, first, last)

(* How far the iterator of the input goes with the one of the output.               *)
Steps == IF job.kind = "filter" THEN <<1, 1, 1>> ELSE job.size

(* A BlockIterator that goes on by one pixel is a PixelIterator.                    *)
LEMMA NextOfOne ==
  ASSUME NEW g \in Extents,
         NEW first \in Nat, NEW last \in Nat, first <= last, last < g.ys,
         NEW b, Placed(g, b, first, last)
  PROVE  NextBlock(g, b, <<1, 1, 1>>) = Move(g, b, 1)
<1> DEFINE w == XLength(b.box)
           h == YLength(b.box)
           s == StepOf(b, <<1, 1, 1>>)
           m == Move(g, b, 1)
<1>1. /\ b.box.x1 = 0 /\ b.box.x2 = g.xs - 1 /\ b.box.y1 = first /\ b.box.y2 = last
      /\ b.x \in Nat /\ b.x <= b.box.x2 /\ b.y \in Nat /\ b.y <= last
      /\ g.xs \in Nat /\ b.box.x2 \in Int
  BY ExtentTypes DEF Placed
<1>2. w \in Int /\ h \in Int
  BY <1>1 DEF XLength, YLength
<1>3. w * (1 - 1) = 0 /\ w * h * (1 - 1) = 0
  <2> HIDE DEF w, h
  <2> QED BY <1>2
<1>4. s = CASE b.y + 1 - 1 > b.box.y2 -> b.linear + 1 + 1
            [] b.x + 1 > b.box.x2 -> 1 + b.box.x2 - b.x + w * (1 - 1)
            [] OTHER -> 1
  BY DEF StepOf
<1>5. s = 1
  <2>1. ~(b.y + 1 - 1 > b.box.y2)
    BY <1>1
  <2>2. b.x + 1 > b.box.x2 => 1 + b.box.x2 - b.x + w * (1 - 1) = 1
    BY <1>1, <1>3
  <2> HIDE DEF w, s
  <2> QED BY <1>4, <2>1, <2>2
<1>6. NextBlock(g, b, <<1, 1, 1>>)
        = IF Move(g, b, s).z # b.z THEN Move(g, Move(g, b, s), w * h * (1 - 1)) ELSE Move(g, b, s)
  BY DEF NextBlock
<1> HIDE DEF w, h, s
<1>7. NextBlock(g, b, <<1, 1, 1>>) = IF m.z # b.z THEN Move(g, m, 0) ELSE m
  BY <1>3, <1>5, <1>6
<1>8. Move(g, m, 0) = m
  BY DEF Move
<1> QED BY <1>7, <1>8

(* The two iterators go on together.                                                *)
LEMMA BesideStep ==
  ASSUME job \in Jobs, Divided, job.kind # "pixels", job.grid.xs >= 2,
         NEW first \in Nat, NEW last \in Nat, first <= last, last < job.grid.ys,
         NEW i, Placed(job.grid, i, first, last), ~IsAtEnd(i),
         NEW k, Follows(k, i),
         NEW b, Beside(job, b, i, first, last),
         NEW c, c = NextBlock(job.input, b, Steps)
  PROVE  Beside(job, c, k, first, last)
<1>1. /\ i.box.x1 = 0 /\ i.box.x2 = job.grid.xs - 1 /\ i.box.y1 = first /\ i.box.y2 = last
      /\ i.box.z1 = 0 /\ i.box.z2 = job.grid.zs - 1
      /\ i.x \in Nat /\ i.x < job.grid.xs /\ i.y \in Nat /\ first <= i.y /\ i.y <= last
      /\ i.z \in Nat /\ i.z < job.grid.zs
      /\ job.grid.xs \in Nat /\ job.grid.zs \in Nat
  BY JobTypes DEF Placed
<1>2. CASE job.kind = "filter"
  <2>1. /\ job.input \in Extents /\ job.input.xs = job.grid.xs
        /\ job.input.ys = job.grid.ys /\ job.input.zs = job.grid.zs
    BY <1>2, JobsAssumption
  <2>2. Placed(job.input, b, first, last) /\ b.x = i.x /\ b.y = i.y /\ b.z = i.z
    BY <1>2 DEF Beside
  <2>3. b.box.x1 = i.box.x1 /\ b.box.x2 = i.box.x2 /\ b.box.y1 = i.box.y1
        /\ b.box.y2 = i.box.y2 /\ b.box.z1 = i.box.z1 /\ b.box.z2 = i.box.z2
    BY <1>1, <2>1, <2>2 DEF Placed
  <2>4. ~IsAtEnd(b)
    BY <2>2, <2>3 DEF IsAtEnd
  <2>5. c = Move(job.input, b, 1)
    BY <1>2, <2>1, <2>2, NextOfOne DEF Steps
  <2>6. Placed(job.input, c, first, last) /\ Follows(c, b)
    BY <2>1, <2>2, <2>4, <2>5, StepPlaced
  <2>7. c.x = k.x /\ c.y = k.y /\ c.z = k.z
    BY <1>1, <2>2, <2>3, <2>6 DEF Follows
  <2> QED BY <1>2, <2>6, <2>7 DEF Beside
<1>3. CASE job.kind = "groups"
  <2>1. Grouped(job, b, i.x, i.y, i.z, first, last) /\ job.size[1] <= job.size[2]
    BY <1>3 DEF Beside, Divided
  <2>2. ~(i.x + 1 = job.grid.xs /\ i.y = last /\ i.z + 1 = job.grid.zs)
    BY <1>1 DEF IsAtEnd
  <2>3. c = NextBlock(job.input, b, job.size)
    BY <1>3 DEF Steps
  <2>4. /\ i.x + 1 < job.grid.xs => Grouped(job, c, i.x + 1, i.y, i.z, first, last)
        /\ i.x + 1 = job.grid.xs /\ i.y < last => Grouped(job, c, 0, i.y + 1, i.z, first, last)
        /\ i.x + 1 = job.grid.xs /\ i.y = last => Grouped(job, c, 0, first, i.z + 1, first, last)
    BY <1>1, <1>3, <2>1, <2>2, <2>3, GroupStep
  <2>5. \/ i.x + 1 < job.grid.xs /\ k.x = i.x + 1 /\ k.y = i.y /\ k.z = i.z
        \/ i.x + 1 = job.grid.xs /\ i.y < last /\ k.x = 0 /\ k.y = i.y + 1 /\ k.z = i.z
        \/ i.x + 1 = job.grid.xs /\ i.y = last /\ k.x = 0 /\ k.y = first /\ k.z = i.z + 1
    BY <1>1 DEF Follows
  <2>6. Grouped(job, c, k.x, k.y, k.z, first, last)
    BY <2>4, <2>5
  <2> QED BY <1>3, <2>6 DEF Beside
<1> QED BY <1>2, <1>3, JobsAssumption

(* A new iterator stands at the first pixel of its box.                             *)
LEMMA NewIterator ==
  ASSUME NEW g \in Extents, NEW c, NEW e, e = Ensure(g, c), e \in Boxes,
         e.x1 \in Nat, e.y1 \in Nat, e.z1 \in Nat,
         NEW i, i = Iterator(g, c, "XYZ")
  PROVE  i \in Iterators /\ i.box = e /\ i.x = e.x1 /\ i.y = e.y1 /\ i.z = e.z1
<1> DEFINE r == [box |-> e, flow |-> "XYZ", x |-> e.x1, y |-> e.y1, z |-> e.z1,
                 block |-> 0, offset |-> 0, linear |-> 0, end |-> 0]
           bl == CellOf(g, <<r.x, r.y, r.z>>)[1]
           of == CellOf(g, <<r.x, r.y, r.z>>)[2]
           l == LinearOf(g, r.x, r.y, r.z)
           n == LinearOf(g, r.box.x2, r.box.y2, r.box.z2) + 1
<1>1. r \in Iterators /\ r.box = e /\ r.x = e.x1 /\ r.y = e.y1 /\ r.z = e.z1
  BY DEF Iterators, Boxes
<1>2. i = [r EXCEPT !.block = bl, !.offset = of, !.linear = l, !.end = n]
  BY DEF Iterator, InitPosition
<1>3. /\ g.xs \in Nat /\ g.ys \in Nat /\ g.maxLines \in Nat \ {0} /\ BlocksPerBand(g) \in Nat
      /\ e.x2 \in Int /\ e.y2 \in Int /\ e.z2 \in Int
  BY ExtentTypes, BlocksAre DEF Boxes
<1>4. bl \in Int /\ of \in Int
  <2> DEFINE q == e.y1 \div g.maxLines
             s == e.y1 % g.maxLines
  <2>1. q \in Int /\ s \in Int
    BY <1>3
  <2>2. bl = BlocksPerBand(g) * e.z1 + q /\ of = g.xs * s + e.x1
    BY <1>1, CellIs
  <2> HIDE DEF q, s, bl, of, r
  <2>3. BlocksPerBand(g) * e.z1 \in Int /\ g.xs * s \in Int
    BY <1>3, <2>1
  <2> QED BY <2>1, <2>2, <2>3
<1>5. l \in Int /\ n \in Int
  <2> DEFINE a == g.xs * g.ys
  <2>1. a \in Int
    BY <1>3
  <2>2. l = e.x1 + g.xs * e.y1 + a * e.z1 /\ n = (e.x2 + g.xs * e.y2 + a * e.z2) + 1
    BY <1>1 DEF LinearOf
  <2> HIDE DEF a, l, n, r
  <2>3. g.xs * e.y1 \in Int /\ a * e.z1 \in Int /\ g.xs * e.y2 \in Int /\ a * e.z2 \in Int
    BY <1>3, <2>1
  <2> QED BY <1>3, <2>2, <2>3
<1> HIDE DEF r, bl, of, l, n
<1>6. i \in Iterators /\ i.box = r.box /\ i.x = r.x /\ i.y = r.y /\ i.z = r.z
  BY <1>1, <1>2, <1>4, <1>5 DEF Iterators
<1> QED BY <1>1, <1>6

LEMMA BesideBegin ==
  ASSUME job \in Jobs, job.kind # "pixels",
         NEW first \in Nat, NEW last \in Nat, first <= last, last < job.grid.ys,
         NEW b, b = BoxOf(0, first, 0, job.grid.xs - 1, last, job.grid.zs),
         NEW i, i.x = 0, i.y = first, i.z = 0,
         NEW c, c = Iterator(job.input, InputBox(b), "XYZ")
  PROVE  Beside(job, c, i, first, last)
<1>1. CASE job.kind = "filter"
  <2>1. /\ job.input \in Extents /\ job.input.xs = job.grid.xs
        /\ job.input.ys = job.grid.ys /\ job.input.zs = job.grid.zs
    BY <1>1, JobsAssumption
  <2>2. InputBox(b) = b
    BY <1>1 DEF InputBox
  <2>3. b = BoxOf(0, first, 0, job.input.xs - 1, last, job.input.zs)
    BY <2>1
  <2>4. Right(job.input, c, first, last) /\ c.x = 0 /\ c.y = first /\ c.z = 0
    BY <2>1, <2>2, <2>3, BeginRight
  <2> QED BY <1>1, <2>4 DEF Beside, Right
<1>2. CASE job.kind = "groups"
  <2> DEFINE g == job.input
             sx == job.size[1]
             sy == job.size[2]
             sz == job.size[3]
             xs == job.grid.xs
             ys == job.grid.ys
             zs == job.grid.zs
             x2 == xs * sx - 1
             y1 == first * sy
             y2 == (last + 1) * sy - 1
             z2 == (zs + 1) * sz - 1
             d == InputBox(b)
             z3 == IF ZLength(d) > g.zs THEN g.zs - 1 ELSE z2
             e == Ensure(g, d)
  <2>1. /\ g \in Extents /\ g.zs \in Nat
        /\ sx \in Nat \ {0} /\ sy \in Nat \ {0} /\ sz \in Nat \ {0}
        /\ xs \in Nat \ {0} /\ ys \in Nat \ {0} /\ zs \in Nat \ {0}
        /\ xs * sx <= g.xs /\ ys * sy <= g.ys /\ zs * sz <= g.zs
        /\ g.xs \in Nat /\ g.ys \in Nat
    BY <1>2, JobTypes, JobsAssumption DEF Extents
  <2>2. b.x1 = 0 /\ b.x2 + 1 = xs /\ b.y1 = first /\ b.y2 = last /\ b.z1 = 0 /\ b.z2 = zs
    BY <2>1 DEF BoxOf
  <2>3. d = BoxOf(b.x1, b.y1 * sy, b.z1 * sz,
                  (b.x2 + 1) * sx - 1, (b.y2 + 1) * sy - 1, (b.z2 + 1) * sz - 1)
    BY <1>2 DEF InputBox
  <2>4. 0 * sz = 0
    BY <2>1
  <2>5. d = BoxOf(0, y1, 0, x2, y2, z2)
    <3> HIDE DEF d
    <3> QED BY <2>2, <2>3, <2>4
  <2>6. /\ x2 \in Int /\ x2 + 1 <= g.xs
        /\ y1 \in Nat /\ y2 \in Int /\ y2 - y1 + 1 <= g.ys
        /\ z2 \in Int /\ z2 >= zs * sz - 1 /\ zs * sz \in Nat
    <3> HIDE DEF g, sx, sy, sz, xs, ys, zs
    <3>1. xs * sx \in Nat /\ ys * sy \in Nat /\ zs * sz \in Nat /\ (zs + 1) * sz = zs * sz + sz
      BY <2>1
    <3>2. y1 \in Nat /\ (last + 1) * sy \in Nat
      BY <2>1
    <3>3. (last + 1) * sy <= ys * sy
      <4>1. last + 1 <= ys /\ last + 1 \in Int
        BY <2>1 DEF ys
      <4>2. sy * (last + 1) <= sy * ys
        BY <2>1, <4>1, MulMono
      <4>3. sy * (last + 1) = (last + 1) * sy /\ sy * ys = ys * sy
        BY <2>1
      <4> QED BY <4>2, <4>3
    <3> QED BY <2>1, <3>1, <3>2, <3>3
  <2> HIDE DEF x2, y1, y2, z2, d, g
  <2>7. /\ d.x1 = 0 /\ d.y1 = y1 /\ d.z1 = 0 /\ d.x2 = x2 /\ d.y2 = y2 /\ d.z2 = z2
        /\ d \in Boxes
    BY <2>5, <2>6 DEF BoxOf, Boxes
  <2>8. (IF XLength(d) > g.xs THEN g.xs - 1 ELSE d.x2) = x2
    BY <2>1, <2>6, <2>7 DEF XLength
  <2>9. (IF YLength(d) > g.ys THEN g.ys - 1 ELSE d.y2) = y2
    BY <2>1, <2>6, <2>7 DEF YLength
  <2>10. z3 \in Int /\ z3 >= zs * sz - 1
    <3> HIDE DEF sz, zs
    <3> QED BY <2>1, <2>6
  <2>11. e = [d EXCEPT !.x2 = x2, !.y2 = y2, !.z2 = z3]
    BY <2>7, <2>8, <2>9 DEF Ensure
  <2> HIDE DEF z3, e, sx, sy, sz, xs, ys, zs
  <2>12. /\ e \in Boxes /\ e.x1 = 0 /\ e.y1 = y1 /\ e.z1 = 0
         /\ e.x2 = x2 /\ e.y2 = y2 /\ e.z2 = z3
    BY <2>6, <2>7, <2>10, <2>11 DEF Boxes
  <2>13. c \in Iterators /\ c.box = e /\ c.x = 0 /\ c.y = y1 /\ c.z = 0
    <3>1. c = Iterator(g, d, "XYZ") /\ e = Ensure(g, d)
      BY DEF g, d, e
    <3>2. e.x1 \in Nat /\ e.y1 \in Nat /\ e.z1 \in Nat
      BY <2>6, <2>12
    <3>3. c \in Iterators /\ c.box = e /\ c.x = e.x1 /\ c.y = e.y1 /\ c.z = e.z1
      BY <2>1, <2>12, <3>1, <3>2, NewIterator
    <3> QED BY <2>12, <3>3
  <2>14. 0 * sx = 0 /\ 0 * sz = 0
    BY <2>1
  <2>15. Grouped(job, c, 0, first, 0, first, last)
    BY <2>10, <2>12, <2>13, <2>14 DEF Grouped, x2, y1, y2, sx, sy, sz, xs, zs
  <2> QED BY <1>2, <2>15 DEF Beside
<1> QED BY <1>1, <1>2, JobsAssumption

(* What a filter that sees no line after last computes at p, and an aggregation.    *)
WindowOf(j, p, last) ==
  [place \in PlacesOfAWindow(j.size) |->
    CellOf(j.input, <<Within(p[1] + place[1], j.grid.xs - 1), Within(p[2] + place[2], last), p[3]>>)]

GroupOf(j, p) ==
  [place \in CellsOfABlock(j.size) |->
    CellOf(j.input, [i \in 1 .. 3 |-> p[i] * j.size[i] + place[i]])]

(* The cell that is read is the one of the position that is seen.                   *)
LEMMA CellSeenIs ==
  ASSUME NEW g \in Extents, NEW b, NEW place, NEW q, q[2] \in Nat, q[3] \in Nat,
         q[1] = ActualPosition(b, place)[1], q[2] = ActualPosition(b, place)[2],
         q[3] = ActualPosition(b, place)[3]
  PROVE  CellSeen(g, b, place) = CellOf(g, q)
<1> DEFINE k == BlocksPerBand(g)
           d == q[2] \div g.maxLines
           o == g.xs * (q[2] % g.maxLines) + q[1]
<1>1. k \in Nat /\ d \in Int
  BY ExtentTypes, BlocksAre
<1>2. CellSeen(g, b, place) = <<d + k * q[3], o>>
  BY DEF CellSeen
<1>3. CellOf(g, q) = <<k * q[3] + d, o>>
  BY DEF CellOf
<1> HIDE DEF k, d, o
<1>4. d + k * q[3] = k * q[3] + d
  BY <1>1
<1> QED BY <1>2, <1>3, <1>4

LEMMA WithinIs ==
  ASSUME NEW v \in Int, NEW last \in Nat
  PROVE  /\ Within(v, last) \in Nat /\ Within(v, last) <= last
         /\ v \in 0 .. last => Within(v, last) = v
BY DEF Within, Smallest

LEMMA SizeTypes ==
  ASSUME job \in Jobs, job.kind # "pixels"
  PROVE  /\ job.input \in Extents
         /\ job.size[1] \in Nat \ {0} /\ job.size[2] \in Nat \ {0} /\ job.size[3] \in Nat \ {0}
BY JobsAssumption

(* A filter sees the window around its pixel up to the last line of its box.        *)
LEMMA WindowSeen ==
  ASSUME job \in Jobs, job.kind = "filter",
         NEW first \in Nat, NEW last \in Nat, first <= last, last < job.grid.ys,
         NEW b, Placed(job.input, b, first, last)
  PROVE  [place \in PlacesOfAWindow(job.size) |-> CellSeen(job.input, b, place)]
           = WindowOf(job, <<b.x, b.y, b.z>>, last)
<1>1. /\ job.input \in Extents /\ job.input.xs = job.grid.xs
      /\ job.grid.xs \in Nat \ {0}
      /\ b.box.x2 = job.grid.xs - 1 /\ b.box.y2 = last /\ b.box.z2 \in Nat
      /\ b.x \in Nat /\ b.y \in Nat /\ b.z \in 0 .. b.box.z2
  BY JobTypes, JobsAssumption, ExtentTypes DEF Placed
<1>2. ASSUME NEW place \in PlacesOfAWindow(job.size)
      PROVE  CellSeen(job.input, b, place)
               = CellOf(job.input, <<Within(b.x + place[1], job.grid.xs - 1),
                                     Within(b.y + place[2], last), b.z>>)
  <2>1. place[1] \in Int /\ place[2] \in Int /\ place[3] = 0
    <3> DEFINE u == job.size[1] \div 2
               v == job.size[2] \div 2
    <3>1. place \in (-u .. u) \X (-v .. v) \X {0}
      BY DEF PlacesOfAWindow
    <3> HIDE DEF u, v
    <3> QED BY <3>1
  <2> DEFINE x == Within(b.x + place[1], job.grid.xs - 1)
             y == Within(b.y + place[2], last)
  <2>2. y \in Nat
    <3>1. b.y + place[2] \in Int
      BY <1>1, <2>1
    <3> QED BY <3>1, WithinIs
  <2>3. Within(b.z + place[3], b.box.z2) = b.z
    <3>1. b.z + place[3] = b.z /\ b.z \in Int
      BY <1>1, <2>1
    <3> QED BY <1>1, <3>1, WithinIs
  <2>4. ActualPosition(b, place) = <<x, y, b.z>>
    BY <1>1, <2>3 DEF ActualPosition
  <2>5. b.z \in Nat /\ job.input \in Extents
    BY <1>1
  <2> DEFINE t == <<x, y, b.z>>
  <2>6. /\ t[2] \in Nat /\ t[3] \in Nat
        /\ t[1] = ActualPosition(b, place)[1] /\ t[2] = ActualPosition(b, place)[2]
        /\ t[3] = ActualPosition(b, place)[3]
    BY <2>2, <2>4, <2>5
  <2> HIDE DEF x, y, t
  <2>7. CellSeen(job.input, b, place) = CellOf(job.input, t)
    BY <2>5, <2>6, CellSeenIs
  <2> QED BY <2>7 DEF x, y, t
<1> QED BY <1>2 DEF WindowOf

(* An aggregation sees the cells of the group of its pixel.                         *)
LEMMA GroupSeen ==
  ASSUME job \in Jobs, job.kind = "groups",
         NEW first \in Nat, NEW last \in Nat, first <= last,
         NEW x \in Nat, x < job.grid.xs, NEW y \in Nat, y <= last,
         NEW z \in Nat, z < job.grid.zs,
         NEW b, Grouped(job, b, x, y, z, first, last)
  PROVE  [place \in CellsOfABlock(job.size) |-> CellSeen(job.input, b, place)]
           = GroupOf(job, <<x, y, z>>)
<1> DEFINE sx == job.size[1]
           sy == job.size[2]
           sz == job.size[3]
<1>1. /\ job.input \in Extents /\ sx \in Nat \ {0} /\ sy \in Nat \ {0} /\ sz \in Nat \ {0}
      /\ job.grid.xs \in Nat /\ job.grid.zs \in Nat /\ last + 1 \in Nat /\ y < last + 1
  BY JobTypes, SizeTypes
<1>2. x * sx \in Nat /\ x * sx + sx <= job.grid.xs * sx /\ job.grid.xs * sx \in Nat
  <2> HIDE DEF sx
  <2> QED BY <1>1, Multiples
<1>3. y * sy \in Nat /\ y * sy + sy <= (last + 1) * sy /\ (last + 1) * sy \in Nat
  <2> HIDE DEF sy
  <2> QED BY <1>1, Multiples
<1>4. z * sz \in Nat /\ z * sz + sz <= job.grid.zs * sz /\ job.grid.zs * sz \in Nat
  <2> HIDE DEF sz
  <2> QED BY <1>1, Multiples
<1>5. /\ b.x = x * sx /\ b.y = y * sy /\ b.z = z * sz
      /\ b.box.x2 = job.grid.xs * sx - 1 /\ b.box.y2 = (last + 1) * sy - 1
      /\ b.box.z2 >= job.grid.zs * sz - 1 /\ b.box.z2 \in Int
  BY DEF Grouped, Iterators, Boxes
<1> HIDE DEF sx, sy, sz
<1> DEFINE p == x * sx
           q == y * sy
           r == z * sz
           w == job.grid.xs * sx
           l == (last + 1) * sy
           d == job.grid.zs * sz
<1>6. /\ p \in Nat /\ p + sx <= w /\ w \in Nat /\ q \in Nat /\ q + sy <= l /\ l \in Nat
      /\ r \in Nat /\ r + sz <= d /\ d \in Nat
      /\ b.x = p /\ b.y = q /\ b.z = r
      /\ b.box.x2 = w - 1 /\ b.box.y2 = l - 1 /\ b.box.z2 >= d - 1
  BY <1>2, <1>3, <1>4, <1>5
<1> HIDE DEF p, q, r, w, l, d
<1>7. ASSUME NEW place \in CellsOfABlock(job.size)
      PROVE  CellSeen(job.input, b, place)
               = CellOf(job.input, [i \in 1 .. 3 |-> <<x, y, z>>[i] * job.size[i] + place[i]])
  <2>1. place \in (0 .. sx - 1) \X (0 .. sy - 1) \X (0 .. sz - 1)
    BY DEF CellsOfABlock, sx, sy, sz
  <2>2. place[1] \in 0 .. sx - 1 /\ place[2] \in 0 .. sy - 1 /\ place[3] \in 0 .. sz - 1
    BY <2>1
  <2>3. Within(b.x + place[1], b.box.x2) = p + place[1]
    <3>1. p + place[1] \in 0 .. w - 1 /\ p + place[1] \in Int /\ w - 1 \in Nat
      BY <1>1, <1>6, <2>2
    <3> QED BY <1>6, <3>1, WithinIs
  <2>4. Within(b.y + place[2], b.box.y2) = q + place[2]
    <3>1. q + place[2] \in 0 .. l - 1 /\ q + place[2] \in Int /\ l - 1 \in Nat
      BY <1>1, <1>6, <2>2
    <3> QED BY <1>6, <3>1, WithinIs
  <2>5. Within(b.z + place[3], b.box.z2) = r + place[3]
    <3>1. r + place[3] \in 0 .. b.box.z2 /\ r + place[3] \in Int /\ b.box.z2 \in Nat
      BY <1>1, <1>5, <1>6, <2>2
    <3> QED BY <1>6, <3>1, WithinIs
  <2>6. ActualPosition(b, place) = <<p + place[1], q + place[2], r + place[3]>>
    BY <2>3, <2>4, <2>5 DEF ActualPosition
  <2>7. q + place[2] \in Nat /\ r + place[3] \in Nat
    BY <1>1, <1>6, <2>2
  <2> DEFINE f == [i \in 1 .. 3 |-> <<x, y, z>>[i] * job.size[i] + place[i]]
  <2>8. f[1] = p + place[1] /\ f[2] = q + place[2] /\ f[3] = r + place[3]
    BY DEF p, q, r, sx, sy, sz
  <2> DEFINE u == p + place[1]
             v == q + place[2]
             t == r + place[3]
  <2> HIDE DEF f
  <2>9. f[1] = u /\ f[2] = v /\ f[3] = t /\ v \in Nat /\ t \in Nat
        /\ ActualPosition(b, place) = <<u, v, t>>
    BY <2>6, <2>7, <2>8
  <2> HIDE DEF u, v, t
  <2>10. /\ f[2] \in Nat /\ f[3] \in Nat
         /\ f[1] = ActualPosition(b, place)[1] /\ f[2] = ActualPosition(b, place)[2]
         /\ f[3] = ActualPosition(b, place)[3]
    BY <2>9
  <2>11. CellSeen(job.input, b, place) = CellOf(job.input, f)
    BY <1>1, <2>10, CellSeenIs
  <2> QED BY <2>11 DEF f
<1> QED BY <1>7 DEF GroupOf

-----------------------------------------------------------------------------
(* The cells that the tasks write *)

(* v is what operation j, with the boxes bs, computes for a pixel: a filter does    *)
(* that in one of the boxes that the pixel is in.                                   *)
Computed(j, bs, v, x, y, z) ==
  /\ j.kind = "pixels" => v = <<x, y, z>>
  /\ j.kind = "filter" =>
       \E t \in DOMAIN bs : y \in bs[t].y1 .. bs[t].y2 /\ v = WindowOf(j, <<x, y, z>>, bs[t].y2)
  /\ j.kind = "groups" => v = GroupOf(j, <<x, y, z>>)

(* A task walks its box, what it computed is in the cells of the pixels it has      *)
(* passed, and it has passed all of them when it is done.                           *)
Covered(t) ==
  /\ Right(job.grid, it[t], boxes[t].y1, boxes[t].y2)
  /\ endAt[t] = it[t].end
  /\ job.kind # "pixels" /\ it[t].linear # it[t].end =>
       Beside(job, blockIt[t], it[t], boxes[t].y1, boxes[t].y2)
  /\ \A x \in 0 .. job.grid.xs - 1, y \in boxes[t].y1 .. boxes[t].y2, z \in 0 .. job.grid.zs - 1 :
       Passed(it[t], x, y, z) =>
         Computed(job, boxes, cells[CellOf(job.grid, <<x, y, z>>)], x, y, z)
  /\ state[t] = "done" => it[t].linear = it[t].end

Work ==
  /\ DOMAIN it = Tasks /\ DOMAIN blockIt = Tasks /\ DOMAIN endAt = Tasks
  /\ DOMAIN cells = Cells(job.grid)
  /\ Divided => \A t \in Tasks : state[t] \in {"walks", "done"} => Covered(t)

LEMMA InitWork == Init => Work
<1> SUFFICES ASSUME Init PROVE Work
  OBVIOUS
<1>1. \A t \in Tasks : state[t] = "none"
  BY DEF Init
<1>2. /\ DOMAIN it = Tasks /\ DOMAIN blockIt = Tasks /\ DOMAIN endAt = Tasks
      /\ DOMAIN cells = Cells(job.grid)
  BY DEF Init
<1> QED BY <1>1, <1>2 DEF Work

LEMMA ExecuteWork ==
  ASSUME Work, Execute
  PROVE  Work'
<1>1. \A t \in Tasks : state'[t] \in {"none", "new"}
  BY DEF Execute
<1>2. UNCHANGED <<job, it, blockIt, endAt, cells>>
  BY DEF Execute
<1> QED BY <1>1, <1>2 DEF Work, Tasks

(* What a task does leaves the others as they are.                                  *)
LEMMA OthersCovered ==
  ASSUME NEW t \in Tasks, Covered(t),
         UNCHANGED <<job, boxes, cells>>,
         it'[t] = it[t], blockIt'[t] = blockIt[t], endAt'[t] = endAt[t], state'[t] = state[t]
  PROVE  Covered(t)'
BY DEF Covered

(* A task that walks has a box that is not thin, of lines of the raster.            *)
LEMMA BoxOfATask ==
  ASSUME Control, Divided, NEW t \in Tasks, state[t] \in {"walks", "done"}
  PROVE  /\ job \in Jobs /\ boxes = SubdivideTasks(job.grid, NumberOfTasks)
         /\ t \in 1 .. NumberOfTasks /\ t \in DOMAIN boxes /\ ~Thin(boxes[t])
         /\ boxes[t].y1 \in Nat /\ boxes[t].y2 \in Nat
         /\ boxes[t].y1 <= boxes[t].y2 /\ boxes[t].y2 < job.grid.ys
         /\ job.grid.xs \in Nat /\ job.grid.xs >= 2
<1>1. t \in DOMAIN boxes /\ boxes # << >>
  BY DEF Control
<1>2. job \in Jobs /\ boxes = SubdivideTasks(job.grid, NumberOfTasks) /\ Judged(t)
  BY <1>1 DEF Control, Divided
<1>3. t \in 1 .. NumberOfTasks
  BY <1>1, <1>2, DividedDomain
<1>4. boxes[t].y1 \in Nat /\ boxes[t].y2 \in Nat
      /\ boxes[t].y1 <= boxes[t].y2 /\ boxes[t].y2 <= job.grid.ys - 1
  BY <1>2, <1>3, BoxIs
<1>5. ~Thin(boxes[t])
  BY <1>2 DEF Judged
<1> QED BY <1>1, <1>2, <1>3, <1>4, <1>5, JobTypes DEF Thin

LEMMA BeginWork ==
  ASSUME Control, Control', Work, NEW t \in Tasks, Begin(t)
  PROVE  Work'
<1> DEFINE new == Iterator(job.grid, boxes[t], job.flow)
           block == IF job.kind = "pixels" THEN None
                    ELSE Iterator(job.input, InputBox(boxes[t]), "XYZ")
<1>1. state[t] = "new" /\ UNCHANGED <<job, boxes, cells>>
  BY DEF Begin
<1>2. \/ /\ it' = [it EXCEPT ![t] = new]
         /\ blockIt' = [blockIt EXCEPT ![t] = block]
         /\ endAt' = [endAt EXCEPT ![t] = EndOf(job.grid, new).linear]
         /\ state' = [state EXCEPT ![t] = "walks"]
      \/ /\ state' = [state EXCEPT ![t] = "threw"]
         /\ UNCHANGED <<it, blockIt, endAt>>
  BY DEF Begin
<1> HIDE DEF new, block
<1>3. /\ DOMAIN it' = Tasks /\ DOMAIN blockIt' = Tasks /\ DOMAIN endAt' = Tasks
      /\ DOMAIN cells' = Cells(job'.grid)
  BY <1>1, <1>2 DEF Work
<1>4. state \in [Tasks -> States]
  BY DEF Control
<1>5. ASSUME Divided', NEW s \in Tasks, state'[s] \in {"walks", "done"}
      PROVE  Covered(s)'
  <2>0. Divided
    BY <1>1, <1>5 DEF Divided
  <2>1. CASE s # t
    <3>1. it'[s] = it[s] /\ blockIt'[s] = blockIt[s] /\ endAt'[s] = endAt[s] /\ state'[s] = state[s]
      BY <1>2, <1>4, <2>1 DEF Work
    <3>2. Covered(s)
      BY <1>5, <2>0, <3>1 DEF Work
    <3> QED BY <1>1, <3>1, <3>2, OthersCovered
  <2>2. CASE s = t
    <3>1. /\ state'[t] = "walks" /\ it'[t] = new /\ blockIt'[t] = block
          /\ endAt'[t] = EndOf(job.grid, new).linear
      BY <1>2, <1>4, <1>5, <2>2 DEF Work
    <3>2. /\ job \in Jobs /\ boxes = SubdivideTasks(job.grid, NumberOfTasks)
          /\ t \in 1 .. NumberOfTasks
      <4>1. t \in DOMAIN boxes /\ boxes # << >>
        BY <1>1 DEF Control
      <4>2. boxes = SubdivideTasks(job.grid, NumberOfTasks) /\ job \in Jobs
        BY <2>0, <4>1 DEF Control, Divided
      <4> QED BY <4>1, <4>2, DividedDomain
    <3> DEFINE first == boxes[t].y1
               last == boxes[t].y2
    <3>3. /\ first \in Nat /\ last \in Nat /\ first <= last /\ last < job.grid.ys
          /\ boxes[t] = BoxOf(0, first, 0, job.grid.xs - 1, last, job.grid.zs)
      <4>1. /\ boxes[t] = BoxOf(0, (t - 1) * LineStep, 0, job.grid.xs - 1,
                                Smallest(job.grid.ys - 1, t * LineStep), job.grid.zs)
            /\ first \in Nat /\ last \in Nat /\ first <= last /\ last <= job.grid.ys - 1
        BY <3>2, BoxIs
      <4>2. first = (t - 1) * LineStep /\ last = Smallest(job.grid.ys - 1, t * LineStep)
        BY <4>1 DEF BoxOf
      <4> HIDE DEF first, last
      <4> QED BY <3>2, <4>1, <4>2, JobTypes
    <3>4. new = Iterator(job.grid, boxes[t], "XYZ") /\ job.grid \in Extents
      BY <2>0, <3>2, JobTypes DEF new, Divided
    <3> HIDE DEF first, last
    <3>5. /\ Right(job.grid, new, first, last)
          /\ new.x = 0 /\ new.y = first /\ new.z = 0 /\ new.linear # new.end
          /\ EndOf(job.grid, new).linear = new.end
      BY <3>3, <3>4, BeginRight
    <3>6. job.kind # "pixels" => Beside(job, block, new, first, last)
      <4> SUFFICES ASSUME job.kind # "pixels" PROVE Beside(job, block, new, first, last)
        OBVIOUS
      <4>1. block = Iterator(job.input, InputBox(boxes[t]), "XYZ")
        BY DEF block
      <4> QED BY <3>2, <3>3, <3>5, <4>1, BesideBegin
    <3>7. ASSUME NEW x \in 0 .. job.grid.xs - 1, NEW y \in first .. last,
                 NEW z \in 0 .. job.grid.zs - 1
          PROVE  ~Passed(new, x, y, z)
      <4>1. first \in Int /\ last \in Int /\ job.grid.xs \in Int /\ job.grid.zs \in Int
        BY <3>2, <3>3, JobTypes
      <4> QED BY <3>5, <4>1 DEF Passed
    <3>8. /\ Right(job.grid, it[t], boxes[t].y1, boxes[t].y2)'
          /\ (job.kind # "pixels" => Beside(job, blockIt[t], it[t], boxes[t].y1, boxes[t].y2))'
      BY <1>1, <3>1, <3>5, <3>6 DEF first, last
    <3>9. \A x \in 0 .. job'.grid.xs - 1, y \in boxes'[t].y1 .. boxes'[t].y2,
             z \in 0 .. job'.grid.zs - 1 : ~Passed(it'[t], x, y, z)
      BY <1>1, <3>1, <3>7 DEF first, last
    <3>10. endAt'[t] = it'[t].end /\ state'[t] # "done"
      BY <3>1, <3>5
    <3>11. Covered(t)'
      BY <3>8, <3>9, <3>10 DEF Covered
    <3> QED BY <2>2, <3>11
  <2> QED BY <2>1, <2>2
<1> QED BY <1>3, <1>5 DEF Work, Tasks

(* Where a task is that has not come to its end.                                    *)
LEMMA WalkingTask ==
  ASSUME Control, Work, Divided, NEW t \in Tasks, state[t] = "walks", ~AtEnd(t)
  PROVE  /\ Covered(t) /\ it[t].linear # it[t].end
         /\ Right(job.grid, it[t], boxes[t].y1, boxes[t].y2)
         /\ Placed(job.grid, it[t], boxes[t].y1, boxes[t].y2)
         /\ it[t].x \in 0 .. job.grid.xs - 1 /\ it[t].y \in boxes[t].y1 .. boxes[t].y2
         /\ it[t].z \in 0 .. job.grid.zs - 1
         /\ CellAt(it[t]) = CellOf(job.grid, <<it[t].x, it[t].y, it[t].z>>)
         /\ job.kind # "pixels" => Beside(job, blockIt[t], it[t], boxes[t].y1, boxes[t].y2)
<1>1. Covered(t)
  BY DEF Work
<1>2. it[t].linear # it[t].end
  BY <1>1 DEF Covered, AtEnd
<1>3. Right(job.grid, it[t], boxes[t].y1, boxes[t].y2)
  BY <1>1 DEF Covered
<1>4. Placed(job.grid, it[t], boxes[t].y1, boxes[t].y2) /\ InCell(job.grid, it[t])
  BY <1>3 DEF Right
<1>5. CellAt(it[t]) = CellOf(job.grid, <<it[t].x, it[t].y, it[t].z>>)
  BY <1>4, InCellIs DEF PixelAt
<1>6. job.kind # "pixels" => Beside(job, blockIt[t], it[t], boxes[t].y1, boxes[t].y2)
  BY <1>1, <1>2 DEF Covered
<1>7. it[t].x \in 0 .. job.grid.xs - 1 /\ it[t].y \in boxes[t].y1 .. boxes[t].y2
      /\ it[t].z \in 0 .. job.grid.zs - 1
  BY <1>4 DEF Placed
<1> QED BY <1>1, <1>2, <1>3, <1>4, <1>5, <1>6, <1>7

(* A task writes at the pixel it stands at what is computed for it.  What another   *)
(* task wrote at another pixel stays, because that has another cell.                *)
LEMMA WriteWork ==
  ASSUME Control, Work, NEW t \in Tasks, NEW v, Write(t, v),
         blockIt' = IF job.kind = "pixels" THEN blockIt
                    ELSE [blockIt EXCEPT ![t] = NextBlock(job.input, blockIt[t], Steps)],
         Divided => Computed(job, boxes, v, it[t].x, it[t].y, it[t].z)
  PROVE  Work'
<1> DEFINE i == it[t]
           c == CellAt(it[t])
<1>1. /\ state[t] = "walks" /\ ~AtEnd(t)
      /\ cells' = [d \in DOMAIN cells |-> IF d = c THEN v ELSE cells[d]]
      /\ it' = [it EXCEPT ![t] = Move(job.grid, it[t], job.n)]
      /\ UNCHANGED <<job, boxes, endAt, state>>
  BY DEF Write
<1>2. /\ DOMAIN it' = Tasks /\ DOMAIN blockIt' = Tasks /\ DOMAIN endAt' = Tasks
      /\ DOMAIN cells' = Cells(job'.grid)
  BY <1>1 DEF Work
<1>3. /\ it'[t] = Move(job.grid, i, job.n)
      /\ job.kind # "pixels" => blockIt'[t] = NextBlock(job.input, blockIt[t], Steps)
      /\ \A s \in Tasks : s # t => it'[s] = it[s] /\ blockIt'[s] = blockIt[s]
  BY <1>1 DEF Work
<1>4. ASSUME Divided', NEW s \in Tasks, state'[s] \in {"walks", "done"}
      PROVE  Covered(s)'
  <2> DEFINE g == job.grid
  <2>1. Divided /\ job.n = 1 /\ OneBlock(g)
    BY <1>1, <1>4 DEF Divided
  <2>2. Covered(s) /\ state[s] \in {"walks", "done"}
    BY <1>1, <1>4, <2>1 DEF Work
  <2>3. /\ job \in Jobs /\ g \in Extents /\ g.xs >= 2
        /\ boxes[t].y1 \in Nat /\ boxes[t].y2 \in Nat
        /\ boxes[t].y1 <= boxes[t].y2 /\ boxes[t].y2 < g.ys
    BY <1>1, <2>1, BoxOfATask, JobTypes
  <2>4. boxes[s].y1 \in Nat /\ boxes[s].y2 \in Nat /\ boxes[s].y2 < g.ys
    BY <1>4, <2>1, <2>2, BoxOfATask
  <2>5. /\ i.linear # i.end
        /\ Right(g, i, boxes[t].y1, boxes[t].y2) /\ Placed(g, i, boxes[t].y1, boxes[t].y2)
        /\ i.x \in 0 .. g.xs - 1 /\ i.y \in boxes[t].y1 .. boxes[t].y2 /\ i.z \in 0 .. g.zs - 1
        /\ c = CellOf(g, <<i.x, i.y, i.z>>)
        /\ job.kind # "pixels" => Beside(job, blockIt[t], i, boxes[t].y1, boxes[t].y2)
    BY <1>1, <2>1, WalkingTask
  <2> DEFINE k == it'[t]
             first == boxes[t].y1
             last == boxes[t].y2
             e == blockIt'[t]
  <2>6. k = Move(g, i, 1)
    BY <1>3, <2>1
  <2>7. job.kind # "pixels" => e = NextBlock(job.input, blockIt[t], Steps)
    BY <1>3
  <2> HIDE DEF g, i, c, k, first, last, e
  <2>8. /\ Right(g, k, first, last) /\ k.end = i.end
        /\ k.linear # k.end => ~IsAtEnd(i) /\ Follows(k, i)
        /\ \A x \in 0 .. g.xs - 1, y \in first .. last, z \in 0 .. g.zs - 1 :
             Passed(k, x, y, z) => Passed(i, x, y, z) \/ (x = i.x /\ y = i.y /\ z = i.z)
    BY <2>1, <2>3, <2>5, <2>6, StepRight DEF first, last
  <2>9. job.kind # "pixels" /\ k.linear # k.end => Beside(job, e, k, first, last)
    <3> SUFFICES ASSUME job.kind # "pixels", k.linear # k.end
                 PROVE  Beside(job, e, k, first, last)
      OBVIOUS
    <3>1. ~IsAtEnd(i) /\ Follows(k, i)
      BY <2>8
    <3>2. e = NextBlock(job.input, blockIt[t], Steps) /\ Beside(job, blockIt[t], i, first, last)
      BY <2>5, <2>7 DEF first, last
    <3>3. /\ first \in Nat /\ last \in Nat /\ first <= last /\ last < job.grid.ys
          /\ job.grid.xs >= 2 /\ Placed(job.grid, i, first, last)
      BY <2>3, <2>5 DEF first, last, g
    <3> QED BY <2>1, <2>3, <3>1, <3>2, <3>3, BesideStep
  <2>10. ASSUME NEW x \in 0 .. g.xs - 1, NEW y \in boxes[s].y1 .. boxes[s].y2,
                NEW z \in 0 .. g.zs - 1, Passed(it'[s], x, y, z)
         PROVE  Computed(job, boxes, cells'[CellOf(g, <<x, y, z>>)], x, y, z)
    <3> DEFINE d == CellOf(g, <<x, y, z>>)
    <3>1. y \in 0 .. g.ys - 1 /\ y \in Nat /\ i.y \in 0 .. g.ys - 1 /\ z \in Nat /\ i.z \in Nat
      <4>1. g.ys \in Nat /\ g.zs \in Nat
        BY <2>3, ExtentTypes
      <4> QED BY <2>3, <2>4, <2>5, <4>1
    <3>2. d \in DOMAIN cells
      BY <2>3, <3>1, CellIsThere DEF Work, g
    <3>3. cells'[d] = IF d = c THEN v ELSE cells[d]
      BY <1>1, <3>2 DEF c
    <3>4. d = c => x = i.x /\ y = i.y /\ z = i.z
      BY <2>3, <2>5, <3>1, CellsApart
    <3>5. Passed(it[s], x, y, z) \/ (s = t /\ x = i.x /\ y = i.y /\ z = i.z)
      BY <1>3, <2>8, <2>10 DEF k, i, first, last
    <3>6. Passed(it[s], x, y, z) => Computed(job, boxes, cells[d], x, y, z)
      BY <2>2 DEF Covered, g
    <3>7. x = i.x /\ y = i.y /\ z = i.z => d = c /\ Computed(job, boxes, v, x, y, z)
      BY <2>1, <2>5 DEF i
    <3> HIDE DEF d
    <3>8. Computed(job, boxes, cells'[d], x, y, z)
      BY <3>3, <3>4, <3>5, <3>6, <3>7
    <3> QED BY <3>8 DEF d
  <2>11. Right(g, it'[s], boxes[s].y1, boxes[s].y2)
    BY <1>3, <2>2, <2>8 DEF Covered, g, k, first, last
  <2>12. endAt[s] = it'[s].end
    BY <1>3, <2>2, <2>8 DEF Covered, i, k
  <2>13. job.kind # "pixels" /\ it'[s].linear # it'[s].end =>
           Beside(job, blockIt'[s], it'[s], boxes[s].y1, boxes[s].y2)
    BY <1>3, <2>2, <2>9 DEF Covered, k, e, first, last
  <2>14. state[s] = "done" => it'[s].linear = it'[s].end
    BY <1>1, <1>3, <2>2 DEF Covered
  <2> QED BY <1>1, <2>10, <2>11, <2>12, <2>13, <2>14 DEF Covered, g
<1> QED BY <1>2, <1>4 DEF Work, Tasks

LEMMA StepWork ==
  ASSUME Control, Work, NEW t \in Tasks, Step(t)
  PROVE  Work'
<1>1. job.kind = "pixels" /\ Write(t, PixelAt(it[t])) /\ blockIt' = blockIt
  BY DEF Step
<1>2. Computed(job, boxes, PixelAt(it[t]), it[t].x, it[t].y, it[t].z)
  BY <1>1 DEF Computed, PixelAt
<1> QED BY <1>1, <1>2, WriteWork

LEMMA FilterStepWork ==
  ASSUME Control, Work, NEW t \in Tasks, FilterStep(t)
  PROVE  Work'
<1> DEFINE v == [place \in PlacesOfAWindow(job.size) |-> CellSeen(job.input, blockIt[t], place)]
<1>1. /\ job.kind = "filter" /\ Write(t, v)
      /\ blockIt' = [blockIt EXCEPT ![t] = NextBlock(job.input, blockIt[t], Steps)]
  BY DEF FilterStep, Steps
<1>2. ASSUME Divided PROVE Computed(job, boxes, v, it[t].x, it[t].y, it[t].z)
  <2>1. state[t] = "walks" /\ ~AtEnd(t)
    BY <1>1 DEF Write
  <2>2. /\ it[t].y \in boxes[t].y1 .. boxes[t].y2
        /\ Beside(job, blockIt[t], it[t], boxes[t].y1, boxes[t].y2)
    BY <1>1, <1>2, <2>1, WalkingTask
  <2>3. /\ job \in Jobs /\ t \in DOMAIN boxes
        /\ boxes[t].y1 \in Nat /\ boxes[t].y2 \in Nat
        /\ boxes[t].y1 <= boxes[t].y2 /\ boxes[t].y2 < job.grid.ys
    BY <1>2, <2>1, BoxOfATask
  <2>4. /\ Placed(job.input, blockIt[t], boxes[t].y1, boxes[t].y2)
        /\ blockIt[t].x = it[t].x /\ blockIt[t].y = it[t].y /\ blockIt[t].z = it[t].z
    BY <1>1, <2>2 DEF Beside
  <2>5. v = WindowOf(job, <<blockIt[t].x, blockIt[t].y, blockIt[t].z>>, boxes[t].y2)
    BY <1>1, <2>3, <2>4, WindowSeen
  <2> HIDE DEF v
  <2> QED BY <1>1, <2>2, <2>3, <2>4, <2>5 DEF Computed
<1> HIDE DEF v
<1> QED BY <1>1, <1>2, WriteWork

LEMMA AggregateStepWork ==
  ASSUME Control, Work, NEW t \in Tasks, AggregateStep(t)
  PROVE  Work'
<1> DEFINE v == [place \in CellsOfABlock(job.size) |-> CellSeen(job.input, blockIt[t], place)]
<1>1. /\ job.kind = "groups" /\ Write(t, v)
      /\ blockIt' = [blockIt EXCEPT ![t] = NextBlock(job.input, blockIt[t], Steps)]
  BY DEF AggregateStep, Steps
<1>2. ASSUME Divided PROVE Computed(job, boxes, v, it[t].x, it[t].y, it[t].z)
  <2>1. state[t] = "walks" /\ ~AtEnd(t)
    BY <1>1 DEF Write
  <2>2. /\ it[t].x \in 0 .. job.grid.xs - 1 /\ it[t].y \in boxes[t].y1 .. boxes[t].y2
        /\ it[t].z \in 0 .. job.grid.zs - 1
        /\ Beside(job, blockIt[t], it[t], boxes[t].y1, boxes[t].y2)
    BY <1>1, <1>2, <2>1, WalkingTask
  <2>3. /\ job \in Jobs
        /\ boxes[t].y1 \in Nat /\ boxes[t].y2 \in Nat /\ boxes[t].y1 <= boxes[t].y2
    BY <1>2, <2>1, BoxOfATask
  <2> DEFINE b == blockIt[t]
             x == it[t].x
             y == it[t].y
             z == it[t].z
             first == boxes[t].y1
             last == boxes[t].y2
  <2>4. /\ x \in Nat /\ x < job.grid.xs /\ y \in Nat /\ y <= last /\ z \in Nat /\ z < job.grid.zs
    BY <2>2, <2>3, JobTypes
  <2>5. Grouped(job, b, x, y, z, first, last) /\ first \in Nat /\ last \in Nat /\ first <= last
    BY <1>1, <2>2, <2>3 DEF Beside
  <2>6. v = [place \in CellsOfABlock(job.size) |-> CellSeen(job.input, b, place)]
    OBVIOUS
  <2> HIDE DEF b, x, y, z, first, last
  <2>7. [place \in CellsOfABlock(job.size) |-> CellSeen(job.input, b, place)]
          = GroupOf(job, <<x, y, z>>)
    BY <1>1, <2>3, <2>4, <2>5, GroupSeen
  <2> HIDE DEF v
  <2> QED BY <1>1, <2>6, <2>7 DEF Computed, x, y, z
<1> HIDE DEF v
<1> QED BY <1>1, <1>2, WriteWork

LEMMA FinishWork ==
  ASSUME Control, Work, NEW t \in Tasks, Finish(t)
  PROVE  Work'
<1>1. /\ state[t] = "walks" /\ AtEnd(t)
      /\ state' = [state EXCEPT ![t] = "done"]
      /\ UNCHANGED <<job, boxes, it, blockIt, endAt, cells>>
  BY DEF Finish
<1>2. ASSUME Divided', NEW s \in Tasks, state'[s] \in {"walks", "done"}
      PROVE  Covered(s)'
  <2>1. Divided
    BY <1>1, <1>2 DEF Divided
  <2>2. Covered(s)
    BY <1>1, <1>2, <2>1 DEF Work, Control
  <2>3. state'[s] = "done" => it[s].linear = it[s].end
    BY <1>1, <2>2 DEF Covered, AtEnd, Control
  <2> QED BY <1>1, <2>2, <2>3 DEF Covered
<1> QED BY <1>1, <1>2 DEF Work, Tasks

LEMMA SameWork ==
  ASSUME Work, UNCHANGED <<job, boxes, it, blockIt, endAt, state, cells>>
  PROVE  Work'
<1>1. ASSUME Divided', NEW s \in Tasks, state'[s] \in {"walks", "done"}
      PROVE  Covered(s)'
  <2>1. Divided /\ state[s] \in {"walks", "done"}
    BY <1>1 DEF Divided
  <2> QED BY <2>1, OthersCovered DEF Work
<1> QED BY <1>1 DEF Work, Tasks

LEMMA NextWork == Control /\ Control' /\ Work /\ [Next]_vars => Work'
<1> SUFFICES ASSUME Control, Control', Work, [Next]_vars PROVE Work'
  OBVIOUS
<1>1. CASE Join \/ Ended \/ UNCHANGED vars
  BY <1>1, SameWork DEF Join, Ended, vars
<1> QED BY <1>1, ExecuteWork, BeginWork, StepWork, FilterStepWork, AggregateStepWork, FinishWork
        DEF Next

LEMMA WorkAlways == Spec => []Work
<1>1. Spec => []Control
  BY ControlAlways
<1> QED BY <1>1, InitWork, NextWork, PTL DEF Spec

(* When at most one line is left over, every line is in the box of some task.       *)
LEMMA LinesAreInBoxes ==
  ASSUME job \in Jobs, job.grid.ys % NumberOfTasks <= 1, NEW y \in 0 .. job.grid.ys - 1
  PROVE  \E t \in 1 .. NumberOfTasks :
           /\ SubdivideTasks(job.grid, NumberOfTasks)[t].y1 <= y
           /\ y <= SubdivideTasks(job.grid, NumberOfTasks)[t].y2
<1> DEFINE n == NumberOfTasks
           h == job.grid.ys
           l == LineStep
           q == y \div l
           b == SubdivideTasks(job.grid, NumberOfTasks)
           left == h % n
<1>1. /\ n \in Nat \ {0} /\ h \in Nat \ {0} /\ l \in Nat \ {0} /\ n <= h
      /\ n * l + left = h /\ left \in 0 .. n - 1 /\ left <= 1 /\ y \in Nat /\ y <= h - 1
  BY NumberIs, JobTypes, StepIs
<1>2. \A t \in 1 .. n : b[t].y1 = (t - 1) * l /\ b[t].y2 = Smallest(h - 1, t * l)
  BY DEF SubdivideTasks, BoxOf, LineStep
<1>3. q \in Nat /\ y % l \in 0 .. l - 1 /\ y = l * q + (y % l)
  BY <1>1, DivMod
<1> DEFINE r == y % l
<1> HIDE DEF n, h, l, q, b, r, left
<1>4. CASE q < n
  <2> DEFINE t == q + 1
  <2>1. t \in 1 .. n
    BY <1>1, <1>3, <1>4
  <2>2. (t - 1) * l = l * q /\ t * l = l * q + l /\ l * q \in Int
    BY <1>1, <1>3
  <2> HIDE DEF t
  <2>3. (t - 1) * l <= y /\ y <= Smallest(h - 1, t * l)
    BY <1>1, <1>3, <2>2 DEF Smallest, r
  <2>4. b[t].y1 <= y /\ y <= b[t].y2
    BY <1>2, <2>1, <2>3
  <2> QED BY <2>1, <2>4 DEF n, b
<1>5. CASE n <= q
  <2>1. l * n <= l * q /\ l * n \in Int /\ l * q \in Int /\ l * n = n * l
    BY <1>1, <1>3, <1>5, MulMono
  <2>2. y = h - 1 /\ y = n * l
    BY <1>1, <1>3, <2>1 DEF r
  <2>3. n \in 1 .. n /\ (n - 1) * l <= n * l
    BY <1>1
  <2>4. (n - 1) * l <= y /\ y <= Smallest(h - 1, n * l)
    BY <1>1, <2>2, <2>3 DEF Smallest
  <2>5. b[n].y1 <= y /\ y <= b[n].y2
    BY <1>2, <2>3, <2>4
  <2> QED BY <2>3, <2>5 DEF n, b
<1> QED BY <1>1, <1>3, <1>4, <1>5

(* When all tasks are done, everything is computed.                                 *)
LEMMA EverythingComputed ==
  ASSUME Control, Work, result = "done", Divided, LinesDivide,
         NEW x \in 0 .. job.grid.xs - 1, NEW y \in 0 .. job.grid.ys - 1,
         NEW z \in 0 .. job.grid.zs - 1
  PROVE  Computed(job, boxes, cells[CellOf(job.grid, <<x, y, z>>)], x, y, z)
<1>1. /\ job \in Jobs /\ boxes = SubdivideTasks(job.grid, NumberOfTasks)
      /\ DOMAIN boxes = 1 .. NumberOfTasks
      /\ \A t \in DOMAIN boxes : t \in Tasks /\ state[t] = "done"
  <2>1. result # None /\ boxes # << >>
    BY NoneAssumption DEF Control
  <2> QED BY <2>1, DividedDomain DEF Control, Divided
<1>2. PICK t \in 1 .. NumberOfTasks : boxes[t].y1 <= y /\ y <= boxes[t].y2
  BY <1>1, LinesAreInBoxes DEF LinesDivide
<1>3. Covered(t) /\ it[t].linear = it[t].end
  BY <1>1, <1>2 DEF Work, Covered
<1>4. y \in boxes[t].y1 .. boxes[t].y2
  <2>1. boxes[t].y1 \in Nat /\ boxes[t].y2 \in Nat
    BY <1>1, <1>2, BoxOfATask
  <2> QED BY <1>2, <2>1
<1> QED BY <1>3, <1>4 DEF Covered, Passed

LEMMA PixelOfARaster ==
  ASSUME NEW p \in PixelsOf(WholeBox(job.grid))
  PROVE  /\ p[1] \in 0 .. job.grid.xs - 1 /\ p[2] \in 0 .. job.grid.ys - 1
         /\ p[3] \in 0 .. job.grid.zs - 1 /\ p = <<p[1], p[2], p[3]>>
<1>1. p \in (0 .. job.grid.xs - 1) \X (0 .. job.grid.ys - 1) \X (0 .. job.grid.zs - 1)
  BY DEF PixelsOf, WholeBox, BoxOf
<1> QED BY <1>1

(* A window that ends before the last line that is seen does not depend on that.    *)
LEMMA WindowAbove ==
  ASSUME job \in Jobs, job.kind = "filter",
         NEW last \in Nat, NEW end \in Nat, last <= end,
         NEW p, p[2] \in Nat, p[2] <= last - job.size[2] \div 2
  PROVE  WindowOf(job, p, last) = WindowOf(job, p, end)
<1>1. ASSUME NEW place \in PlacesOfAWindow(job.size)
      PROVE  Within(p[2] + place[2], last) = Within(p[2] + place[2], end)
  <2> DEFINE u == job.size[1] \div 2
             h == job.size[2] \div 2
             y == p[2] + place[2]
  <2>1. h \in Nat /\ p[2] + h <= last
    BY SizeTypes
  <2>2. place \in (-u .. u) \X (-h .. h) \X {0}
    BY DEF PlacesOfAWindow
  <2> HIDE DEF u, h
  <2>3. place[2] \in -h .. h
    BY <2>2
  <2>4. y \in Int /\ y <= last
    BY <2>1, <2>3
  <2> HIDE DEF y
  <2>5. Within(y, last) = Within(y, end)
    BY <2>4 DEF Within, Smallest
  <2> QED BY <2>5 DEF y
<1> QED BY <1>1 DEF WindowOf

(* When an operation that divides its lines over the tasks, with at most one left,  *)
(* has returned, every pixel was computed and is in its cell, in whatever order the *)
(* tasks ran and wrote the lines they share, in one band or in bands of one block   *)
(* (operationhelpergrid.h: execute, subdivideTasks; pixeliterator.cpp: move).       *)
THEOREM TheRasterIsCovered == Spec => []TasksCoverTheRaster
<1>1. Control /\ Work => TasksCoverTheRaster
  <2> SUFFICES ASSUME Control, Work, result = "done", job.own = None, job.kind = "pixels",
                      job.n = 1, job.flow = "XYZ", OneBlockBands, LinesDivide,
                      NEW p \in PixelsOf(WholeBox(job.grid))
               PROVE  cells[CellOf(job.grid, p)] = p
    BY DEF TasksCoverTheRaster
  <2>1. Divided
    BY DEF Divided, OneBlock, OneBlockBands
  <2>2. Computed(job, boxes, cells[CellOf(job.grid, p)], p[1], p[2], p[3])
    BY <2>1, PixelOfARaster, EverythingComputed
  <2> QED BY <2>2, PixelOfARaster DEF Computed
<1>2. Spec => []Control
  BY ControlAlways
<1>3. Spec => []Work
  BY WorkAlways
<1> QED BY <1>1, <1>2, <1>3, PTL

(* When a linear filter has returned, every pixel was computed from the window      *)
(* around it, cut off at the edge of the raster or, half a window before it, at the *)
(* last line of the box of a task (linearrasterfilter.cpp; rasterfilter.cpp:        *)
(* LinearGridFilter::applyTo; blockiterator.cpp, operationhelpergrid.h).            *)
THEOREM LinearFiltersSeeTheirWindows == Spec => []WindowsAreRight
<1>1. Control /\ Work => WindowsAreRight
  <2> SUFFICES ASSUME Control, Work, result = "done", job.kind = "filter",
                      OneBlockBands, LinesDivide,
                      NEW p \in PixelsOf(WholeBox(job.grid)),
                      NEW seen, seen = cells[CellOf(job.grid, p)]
               PROVE  \/ seen = WindowUpTo(p, job.grid.ys - 1)
                      \/ \E last \in LastLines :
                           p[2] \in last - job.size[2] \div 2 + 1 .. last
                           /\ seen = WindowUpTo(p, last)
    BY DEF WindowsAreRight
  <2>1. job \in Jobs /\ job.grid.ys \in Nat \ {0} /\ job.size[2] \in Nat
    BY JobTypes, SizeTypes DEF Control
  <2>2. Divided
    BY <2>1, JobsAssumption DEF Divided, OneBlock, OneBlockBands
  <2>3. Computed(job, boxes, seen, p[1], p[2], p[3])
    BY <2>2, PixelOfARaster, EverythingComputed
  <2>4. PICK t \in DOMAIN boxes : /\ p[2] \in boxes[t].y1 .. boxes[t].y2
                                  /\ seen = WindowOf(job, <<p[1], p[2], p[3]>>, boxes[t].y2)
    BY <2>3 DEF Computed
  <2> DEFINE first == boxes[t].y1
             last == boxes[t].y2
             h == job.size[2] \div 2
  <2>5. first \in Nat /\ last \in Nat /\ first <= last /\ last < job.grid.ys
    <3>1. result # None /\ boxes # << >>
      BY NoneAssumption DEF Control
    <3>2. t \in Tasks /\ state[t] = "done"
      BY <2>2, <2>4, <3>1 DEF Control
    <3> QED BY <2>2, <3>2, BoxOfATask
  <2>6. \A l : WindowUpTo(p, l) = WindowOf(job, p, l)
    BY DEF WindowUpTo, WindowOf
  <2>7. p = <<p[1], p[2], p[3]>> /\ p[2] \in Nat /\ p[2] <= last
    BY <2>4, <2>5, PixelOfARaster
  <2>8. seen = WindowUpTo(p, last)
    BY <2>4, <2>6, <2>7
  <2>9. CASE p[2] <= last - h
    <3>1. job.grid.ys - 1 \in Nat /\ last <= job.grid.ys - 1
      BY <2>1, <2>5
    <3>2. WindowOf(job, p, last) = WindowOf(job, p, job.grid.ys - 1)
      BY <2>1, <2>5, <2>7, <2>9, <3>1, WindowAbove
    <3> QED BY <2>6, <2>8, <3>2
  <2>10. CASE ~(p[2] <= last - h)
    <3>1. Ensure(job.grid, boxes[t]).y2 = last
      <4>1. boxes = SubdivideTasks(job.grid, NumberOfTasks) /\ t \in 1 .. NumberOfTasks
        BY <2>1, <2>2, <2>4, DividedDomain, NoneAssumption DEF Control, Divided
      <4>2. boxes[t] = BoxOf(0, (t - 1) * LineStep, 0, job.grid.xs - 1,
                             Smallest(job.grid.ys - 1, t * LineStep), job.grid.zs)
        BY <2>1, <4>1, BoxIs
      <4>3. ~(YLength(boxes[t]) > job.grid.ys)
        BY <2>1, <2>5 DEF YLength
      <4> QED BY <4>2, <4>3 DEF Ensure, BoxOf
    <3>2. last \in LastLines
      BY <2>4, <3>1 DEF LastLines
    <3>3. p[2] \in last - h + 1 .. last
      <4>1. h \in Int
        BY <2>1
      <4> HIDE DEF h, last
      <4> QED BY <2>5, <2>7, <2>10, <4>1
    <3> QED BY <2>8, <3>2, <3>3
  <2> QED BY <2>9, <2>10
<1>2. Spec => []Control
  BY ControlAlways
<1>3. Spec => []Work
  BY WorkAlways
<1> QED BY <1>1, <1>2, <1>3, PTL

(* When an aggregation has returned, every pixel was computed from the cells of its *)
(* group, all of them and no others (aggregateraster.cpp, blockiterator.cpp,        *)
(* operationhelpergrid.h).                                                          *)
THEOREM AggregationsSeeTheirGroups == Spec => []GroupsAreWhole
<1>1. Control /\ Work => GroupsAreWhole
  <2> SUFFICES ASSUME Control, Work, result = "done", job.kind = "groups",
                      job.size[1] <= job.size[2], OneBlockBands, LinesDivide,
                      NEW p \in PixelsOf(WholeBox(job.grid))
               PROVE  cells[CellOf(job.grid, p)] = GroupOf(job, p)
    BY DEF GroupsAreWhole, GroupOf
  <2>1. Divided
    BY JobsAssumption DEF Control, Divided, OneBlock, OneBlockBands
  <2>2. Computed(job, boxes, cells[CellOf(job.grid, p)], p[1], p[2], p[3])
    BY <2>1, PixelOfARaster, EverythingComputed
  <2> QED BY <2>2, PixelOfARaster DEF Computed
<1>2. Spec => []Control
  BY ControlAlways
<1>3. Spec => []Work
  BY WorkAlways
<1> QED BY <1>1, <1>2, <1>3, PTL

-----------------------------------------------------------------------------
(* Counting on: pixels of a box are numbered with three digits, the lowest *)
(* of A values and the next of B.                                          *)

LEMMA MulAdd ==
  ASSUME NEW a \in Int, NEW b \in Int, NEW k \in Int
  PROVE  k * (a + b) = k * a + k * b /\ k * a \in Int /\ k * b \in Int
OBVIOUS

LEMMA Carried ==
  ASSUME NEW A \in Nat, NEW B \in Nat, NEW a \in Nat, NEW b \in Nat, NEW c \in Nat, NEW n \in Nat,
         NEW q \in Nat, NEW r \in Nat, a + n = A * q + r,
         NEW p \in Nat, NEW s \in Nat, b + q = B * p + s
  PROVE  r + A * (s + B * (c + p)) = (a + A * (b + B * c)) + n
<1> DEFINE u == b + B * c
           v == s + B * (c + p)
<1>1. B * (c + p) = B * c + B * p /\ B * c \in Int /\ B * p \in Int
  BY MulAdd
<1>2. u \in Int /\ v \in Int /\ v = u + q
  BY <1>1
<1> HIDE DEF u, v
<1>3. A * (u + q) = A * u + A * q /\ A * u \in Int /\ A * q \in Int
  BY <1>2, MulAdd
<1>4. r + A * v = (a + A * u) + n
  BY <1>2, <1>3
<1> QED BY <1>4 DEF u, v

(* Counting on by n gives the digits r and s, and carries q and p.         *)
Digits(A, B, a, b, n, q, r, p, s) ==
  /\ q = (a + n) \div A /\ r = (a + n) % A
  /\ p = (b + q) \div B /\ s = (b + q) % B

LEMMA CountOn ==
  ASSUME NEW A \in Nat \ {0}, NEW B \in Nat \ {0},
         NEW a \in 0 .. A - 1, NEW b \in 0 .. B - 1, NEW c \in Nat, NEW n \in Nat,
         NEW q, NEW r, NEW p, NEW s, Digits(A, B, a, b, n, q, r, p, s)
  PROVE  /\ q \in Nat /\ r \in 0 .. A - 1 /\ a + n = A * q + r
         /\ p \in Nat /\ s \in 0 .. B - 1 /\ b + q = B * p + s
         /\ r + A * (s + B * (c + p)) = (a + A * (b + B * c)) + n
<1>1. q \in Nat /\ r \in 0 .. A - 1 /\ a + n = A * q + r
  <2>1. a + n \in Nat
    OBVIOUS
  <2> QED BY <2>1, DivMod DEF Digits
<1>2. p \in Nat /\ s \in 0 .. B - 1 /\ b + q = B * p + s
  <2>1. b + q \in Nat
    BY <1>1
  <2> QED BY <2>1, DivMod DEF Digits
<1>3. a \in Nat /\ b \in Nat /\ r \in Nat /\ s \in Nat /\ A \in Nat /\ B \in Nat
  BY <1>1, <1>2
<1>4. r + A * (s + B * (c + p)) = (a + A * (b + B * c)) + n
  BY <1>1, <1>2, <1>3, Carried
<1> QED BY <1>1, <1>2, <1>4

(* The last digit tells whether the number is one of the A * B * C.        *)
LEMMA InVolume ==
  ASSUME NEW A \in Nat \ {0}, NEW B \in Nat \ {0}, NEW C \in Nat \ {0},
         NEW a \in 0 .. A - 1, NEW b \in 0 .. B - 1, NEW c \in Nat
  PROVE  /\ a + A * (b + B * c) \in Nat /\ A * (B * C) \in Nat
         /\ c < C <=> a + A * (b + B * c) < A * (B * C)
<1> DEFINE u == b + B * c
           w == B * C
<1>1. u \in Nat /\ w \in Nat
  OBVIOUS
<1>2. ASSUME c < C PROVE u < w
  <2>1. B * c + B <= B * C /\ B * c \in Int
    BY <1>2, MulLess
  <2> QED BY <2>1
<1>3. ASSUME ~(c < C) PROVE w <= u
  <2>1. B * C <= B * c /\ B * c \in Int
    BY <1>3, MulMono
  <2> QED BY <2>1
<1> HIDE DEF u, w
<1>4. A * u \in Nat /\ A * w \in Nat
  BY <1>1
<1>5. ASSUME c < C PROVE a + A * u < A * w
  <2>1. A * u + A <= A * w
    BY <1>1, <1>2, <1>5, MulLess
  <2> QED BY <1>4, <2>1
<1>6. ASSUME ~(c < C) PROVE A * w <= a + A * u
  <2>1. A * w <= A * u
    BY <1>1, <1>3, <1>6, MulMono
  <2> QED BY <1>4, <2>1
<1>7. a + A * u \in Nat /\ (c < C <=> a + A * u < A * w)
  BY <1>4, <1>5, <1>6
<1> QED BY <1>4, <1>7 DEF u, w

-----------------------------------------------------------------------------
(* Boxes in a raster, in any flow *)

Walkers == [box : Boxes, flow : {"XYZ", "ZXY", "YXZ"}, x : Int, y : Int, z : Int,
            block : Int, offset : Int, linear : Int, end : Int]

Inside(g, b) ==
  /\ b \in Boxes
  /\ 0 <= b.x1 /\ b.x1 < b.x2 /\ b.x2 < g.xs
  /\ 0 <= b.y1 /\ b.y1 < b.y2 /\ b.y2 < g.ys
  /\ 0 <= b.z1 /\ b.z1 <= b.z2 /\ b.z2 < g.zs

InBox(b, x, y, z) == x \in b.x1 .. b.x2 /\ y \in b.y1 .. b.y2 /\ z \in b.z1 .. b.z2

LEMMA InsideIs ==
  ASSUME NEW g \in Extents, NEW b, Inside(g, b)
  PROVE  /\ XLength(b) \in Nat \ {0} /\ YLength(b) \in Nat \ {0} /\ ZLength(b) \in Nat \ {0}
         /\ XLength(b) <= g.xs /\ YLength(b) <= g.ys /\ ZLength(b) <= g.zs
         /\ b.x1 \in Nat /\ b.x2 \in Nat /\ b.y1 \in Nat /\ b.y2 \in Nat
         /\ b.z1 \in Nat /\ b.z2 \in Nat
         /\ b.x2 = b.x1 + XLength(b) - 1 /\ b.y2 = b.y1 + YLength(b) - 1
         /\ b.z2 = b.z1 + ZLength(b) - 1
BY ExtentTypes DEF Inside, Boxes, XLength, YLength, ZLength

(* What is in a record in which some fields of a walker were changed.      *)
LEMMA WalkerTypes ==
  ASSUME NEW i \in Walkers
  PROVE  /\ i.box \in Boxes /\ i.x \in Int /\ i.y \in Int /\ i.z \in Int
         /\ i.block \in Int /\ i.offset \in Int /\ i.linear \in Int /\ i.end \in Int
         /\ i.flow \in {"XYZ", "ZXY", "YXZ"}
BY DEF Walkers

BlockOf(g, y, z) == BlocksPerBand(g) * z + (y \div g.maxLines)
OffsetIn(g, x, y) == g.xs * (y % g.maxLines) + x

LEMMA LineTypes ==
  ASSUME NEW g \in Extents, NEW y \in Nat
  PROVE  /\ y \div g.maxLines \in Nat /\ y % g.maxLines \in Nat
         /\ y = g.maxLines * (y \div g.maxLines) + (y % g.maxLines)
         /\ Trunc(y, g.maxLines) = y \div g.maxLines
         /\ BlocksPerBand(g) \in Nat /\ g.maxLines \in Nat /\ g.xs \in Nat
<1>1. g.maxLines \in Nat \ {0} /\ g.xs \in Nat /\ BlocksPerBand(g) \in Nat
  BY ExtentTypes, BlocksAre
<1>2. /\ y \div g.maxLines \in Nat /\ y % g.maxLines \in 0 .. g.maxLines - 1
      /\ y = g.maxLines * (y \div g.maxLines) + (y % g.maxLines)
  BY <1>1, DivMod
<1>3. Trunc(y, g.maxLines) = y \div g.maxLines
  BY DEF Trunc
<1> QED BY <1>1, <1>2, <1>3

LEMMA BlockIs ==
  ASSUME NEW g \in Extents, NEW y \in Nat, NEW z \in Int
  PROVE  /\ BlockOf(g, y, z) \in Int
         /\ z * BlocksPerBand(g) + (y \div g.maxLines) = BlockOf(g, y, z)
         /\ BlocksPerBand(g) * z + Trunc(y, g.maxLines) = BlockOf(g, y, z)
<1> DEFINE q == y \div g.maxLines
<1>1. q \in Nat /\ Trunc(y, g.maxLines) = q /\ BlocksPerBand(g) \in Nat
  BY LineTypes
<1>2. BlockOf(g, y, z) = BlocksPerBand(g) * z + q
  BY DEF BlockOf
<1> HIDE DEF q
<1>3. BlocksPerBand(g) * z \in Int /\ z * BlocksPerBand(g) = BlocksPerBand(g) * z
  BY <1>1
<1>4. /\ BlockOf(g, y, z) \in Int
      /\ z * BlocksPerBand(g) + q = BlockOf(g, y, z)
      /\ BlocksPerBand(g) * z + Trunc(y, g.maxLines) = BlockOf(g, y, z)
  BY <1>1, <1>2, <1>3
<1> QED BY <1>4 DEF q

LEMMA OffsetIs ==
  ASSUME NEW g \in Extents, NEW x \in Int, NEW y \in Nat
  PROVE  /\ OffsetIn(g, x, y) \in Int /\ OffsetOf(g, x, y) = OffsetIn(g, x, y)
         /\ x + g.xs * (y - g.maxLines * Trunc(y, g.maxLines)) = OffsetIn(g, x, y)
<1> DEFINE q == y \div g.maxLines
           r == y % g.maxLines
<1>1. /\ q \in Nat /\ r \in Nat /\ y = g.maxLines * q + r /\ Trunc(y, g.maxLines) = q
      /\ g.maxLines \in Nat /\ g.xs \in Nat
  BY LineTypes
<1>2. OffsetIn(g, x, y) = g.xs * r + x /\ OffsetOf(g, x, y) = x + g.xs * r
  BY DEF OffsetIn, OffsetOf
<1> HIDE DEF q, r
<1>3. g.xs * r \in Int /\ g.maxLines * q \in Int
  BY <1>1
<1>4. y - g.maxLines * q = r
  BY <1>1, <1>3
<1> QED BY <1>1, <1>2, <1>3, <1>4

LEMMA NextBlockIs ==
  ASSUME NEW g \in Extents, NEW m \in Walkers, m.y \in Nat,
         NEW k, k = Move2NextBlock(g, m)
  PROVE  /\ k \in Walkers /\ k.box = m.box /\ k.flow = m.flow /\ k.end = m.end
         /\ k.x = m.x /\ k.y = m.y /\ k.z = m.z
         /\ k.block = BlockOf(g, m.y, m.z)
         /\ k.offset = IF k.block # m.block THEN m.x ELSE m.offset
         /\ k.linear = IF k.block >= Blocks(g) THEN m.end ELSE m.linear
<1> DEFINE bl == BlocksPerBand(g) * m.z + Trunc(m.y, g.maxLines)
           o == IF bl # m.block THEN m.x ELSE m.offset
           l == IF bl >= Blocks(g) THEN m.end ELSE m.linear
<1>1. k = [m EXCEPT !.block = bl, !.offset = o, !.linear = l]
  BY DEF Move2NextBlock
<1>2. bl = BlockOf(g, m.y, m.z) /\ bl \in Int
  <2>1. m.x \in Int /\ m.z \in Int
    BY WalkerTypes
  <2>2. BlocksPerBand(g) * m.z + Trunc(m.y, g.maxLines) = BlockOf(g, m.y, m.z)
    BY <2>1, BlockIs
  <2>3. BlockOf(g, m.y, m.z) \in Int
    BY <2>1, BlockIs
  <2> QED BY <2>2, <2>3
<1>3. o \in Int /\ l \in Int
  BY WalkerTypes
<1>4. /\ o = IF bl # m.block THEN m.x ELSE m.offset
      /\ l = IF bl >= Blocks(g) THEN m.end ELSE m.linear
  OBVIOUS
<1> HIDE DEF bl, o, l
<1>5. /\ k \in Walkers /\ k.box = m.box /\ k.flow = m.flow /\ k.end = m.end
      /\ k.x = m.x /\ k.y = m.y /\ k.z = m.z /\ k.block = bl /\ k.offset = o /\ k.linear = l
  BY <1>1, <1>2, <1>3 DEF Walkers
<1> QED BY <1>2, <1>4, <1>5

IsQuotient(a, m, q, r) == q = a \div m /\ r = a % m

(* Beyond the last column the iterator lands q lines further, in column r. *)
LEMMA LandsAt ==
  ASSUME NEW g \in Extents, NEW m \in Walkers, m.y \in Nat,
         NEW q \in Nat, NEW r \in Nat, IsQuotient(m.x - m.box.x1, XLength(m.box), q, r),
         NEW k, k = Landed(g, m)
  PROVE  /\ k \in Walkers /\ k.box = m.box /\ k.flow = m.flow /\ k.end = m.end
         /\ k.x = m.box.x1 + r /\ k.y = m.y + q /\ k.z = m.z
         /\ k.block = BlockOf(g, k.y, k.z)
         /\ k.offset = IF k.block # m.block THEN k.x ELSE OffsetIn(g, k.x, k.y)
         /\ k.linear = IF k.block >= Blocks(g) THEN m.end ELSE m.linear
<1> DEFINE c == NextLine(g, m)
           f == c.x + g.xs * (c.y - g.maxLines * Trunc(c.y, g.maxLines))
           p == [c EXCEPT !.offset = f]
           x == m.box.x1 + r
           y == m.y + q
<1>1. x \in Int /\ y \in Nat /\ m.z \in Int
  BY WalkerTypes DEF Boxes
<1>2. c = [m EXCEPT !.x = x, !.y = y]
  BY DEF NextLine, IsQuotient
<1>3. k = Move2NextBlock(g, p)
  BY DEF Landed
<1>4. x = m.box.x1 + r /\ y = m.y + q
  OBVIOUS
<1> HIDE DEF c, x, y
<1>5. /\ c \in Walkers /\ c.box = m.box /\ c.flow = m.flow /\ c.end = m.end
      /\ c.x = x /\ c.y = y /\ c.z = m.z /\ c.block = m.block /\ c.linear = m.linear
  <2>1. /\ c.box = m.box /\ c.flow = m.flow /\ c.end = m.end
        /\ c.x = x /\ c.y = y /\ c.z = m.z /\ c.block = m.block /\ c.linear = m.linear
    BY <1>2 DEF Walkers
  <2>2. x \in Int /\ y \in Int
    BY <1>1
  <2>3. c \in Walkers
    BY <2>2, <1>2 DEF Walkers
  <2> QED BY <2>1, <2>3
<1>6. f = OffsetIn(g, x, y) /\ f \in Int
  BY <1>1, <1>5, OffsetIs
<1> HIDE DEF f
<1>7. /\ p \in Walkers /\ p.box = m.box /\ p.flow = m.flow /\ p.end = m.end
      /\ p.x = x /\ p.y = y /\ p.z = m.z /\ p.block = m.block /\ p.linear = m.linear
      /\ p.offset = f
  BY <1>5, <1>6 DEF Walkers
<1> HIDE DEF p
<1>8. p.y \in Nat
  BY <1>1, <1>7
<1>9. /\ k \in Walkers /\ k.box = p.box /\ k.flow = p.flow /\ k.end = p.end
      /\ k.x = p.x /\ k.y = p.y /\ k.z = p.z
      /\ k.block = BlockOf(g, p.y, p.z)
      /\ k.offset = IF k.block # p.block THEN p.x ELSE p.offset
      /\ k.linear = IF k.block >= Blocks(g) THEN p.end ELSE p.linear
  BY <1>3, <1>7, <1>8, NextBlockIs
<1> QED BY <1>4, <1>6, <1>7, <1>9

(* Beyond the last line it goes on p bands further, in line s of the box.  *)
LEMMA BandAt ==
  ASSUME NEW g \in Extents, NEW m \in Walkers, m.y \in Nat, m.box.y1 \in Nat,
         NEW p \in Nat, NEW s \in Nat, IsQuotient(m.y - m.box.y1, YLength(m.box), p, s),
         NEW k, k = NextBand(g, m)
  PROVE  /\ k \in Walkers /\ k.box = m.box /\ k.flow = m.flow /\ k.end = m.end
         /\ k.x = m.x /\ k.y = m.box.y1 + s /\ k.z = m.z + p
         /\ k.block = BlockOf(g, m.y, k.z) /\ k.offset = OffsetIn(g, k.x, k.y)
         /\ k.linear = IF k.z > m.box.z2 THEN m.end ELSE m.linear
<1> DEFINE y == m.box.y1 + s
           z == m.z + p
           bl == z * BlocksPerBand(g) + (m.y \div g.maxLines)
           o == OffsetOf(g, m.x, y)
           l == IF z > m.box.z2 THEN m.end ELSE m.linear
<1>1. k = [m EXCEPT !.block = bl, !.z = z, !.y = y, !.offset = o, !.linear = l]
  BY DEF NextBand, IsQuotient
<1>2. y \in Nat /\ z \in Int /\ m.x \in Int /\ l \in Int
  BY WalkerTypes
<1>3. y = m.box.y1 + s /\ z = m.z + p /\ l = IF z > m.box.z2 THEN m.end ELSE m.linear
  OBVIOUS
<1> HIDE DEF y, z, l
<1>4. bl = BlockOf(g, m.y, z) /\ bl \in Int /\ o = OffsetIn(g, m.x, y) /\ o \in Int
  <2>1. z * BlocksPerBand(g) + (m.y \div g.maxLines) = BlockOf(g, m.y, z)
    BY <1>2, BlockIs
  <2>2. OffsetOf(g, m.x, y) = OffsetIn(g, m.x, y)
    BY <1>2, OffsetIs
  <2>3. BlockOf(g, m.y, z) \in Int /\ OffsetIn(g, m.x, y) \in Int
    BY <1>2, BlockIs, OffsetIs
  <2> QED BY <2>1, <2>2, <2>3
<1> HIDE DEF bl, o
<1>5. /\ k \in Walkers /\ k.box = m.box /\ k.flow = m.flow /\ k.end = m.end
      /\ k.x = m.x /\ k.y = y /\ k.z = z /\ k.block = bl /\ k.offset = o /\ k.linear = l
  <2>1. /\ k.box = m.box /\ k.flow = m.flow /\ k.end = m.end
        /\ k.x = m.x /\ k.y = y /\ k.z = z /\ k.block = bl /\ k.offset = o /\ k.linear = l
    BY <1>1 DEF Walkers
  <2>2. y \in Int /\ z \in Int /\ bl \in Int /\ o \in Int /\ l \in Int
    BY <1>2, <1>4
  <2>3. k \in Walkers
    BY <2>2, <1>1 DEF Walkers
  <2> QED BY <2>1, <2>3
<1> QED BY <1>3, <1>4, <1>5

(* The iterator stands at a pixel of a box in the raster.                  *)
Stands(g, i) == i \in Walkers /\ Inside(g, i.box) /\ InBox(i.box, i.x, i.y, i.z)

LEMMA StandsIs ==
  ASSUME NEW g \in Extents, NEW i, Stands(g, i), NEW b, b = i.box
  PROVE  /\ i \in Walkers /\ Inside(g, b)
         /\ i.x \in Nat /\ i.y \in Nat /\ i.z \in Nat
         /\ i.x - b.x1 \in 0 .. XLength(b) - 1 /\ i.y - b.y1 \in 0 .. YLength(b) - 1
         /\ i.z - b.z1 \in 0 .. ZLength(b) - 1
         /\ i.x <= b.x2 /\ i.y <= b.y2 /\ i.z <= b.z2
<1>1. /\ b.x1 \in Nat /\ b.x2 \in Nat /\ b.y1 \in Nat /\ b.y2 \in Nat
      /\ b.z1 \in Nat /\ b.z2 \in Nat
      /\ b.x2 = b.x1 + XLength(b) - 1 /\ b.y2 = b.y1 + YLength(b) - 1
      /\ b.z2 = b.z1 + ZLength(b) - 1
      /\ XLength(b) \in Nat /\ YLength(b) \in Nat /\ ZLength(b) \in Nat
  BY InsideIs DEF Stands
<1>2. /\ i.x \in Int /\ b.x1 <= i.x /\ i.x <= b.x2
      /\ i.y \in Int /\ b.y1 <= i.y /\ i.y <= b.y2
      /\ i.z \in Int /\ b.z1 <= i.z /\ i.z <= b.z2
  BY <1>1, WalkerTypes DEF Stands, InBox
<1> QED BY <1>1, <1>2 DEF Stands

(* However many lines are passed, the block that is computed for them is   *)
(* one of the raster as long as the band that is reached is in the box.    *)
LEMMA BlockIsReached ==
  ASSUME NEW g \in Extents, NEW b, Inside(g, b), NEW y \in Nat, NEW z \in Nat,
         NEW p \in Nat, NEW s \in 0 .. YLength(b) - 1, y - b.y1 = YLength(b) * p + s,
         z + p <= b.z2
  PROVE  ~(BlockOf(g, y, z) >= Blocks(g))
<1> DEFINE L == YLength(b)
           h == g.ys
           m == g.maxLines
           k == BlocksPerBand(g)
           q == y \div m
<1>1. /\ L \in Nat \ {0} /\ L <= h /\ b.y1 \in Nat /\ b.y1 + L - 1 < h /\ h \in Nat
      /\ m \in Nat \ {0} /\ k \in Nat \ {0} /\ h <= m * k /\ g.zs \in Nat /\ b.z2 < g.zs
      /\ Blocks(g) = k * g.zs /\ b.z2 \in Nat
  BY InsideIs, ExtentTypes, BlocksAre DEF Inside, Blocks
<1>2. q \in Nat /\ y = m * q + (y % m) /\ y % m \in Nat
  BY LineTypes
<1>3. BlockOf(g, y, z) = k * z + q
  BY DEF BlockOf
<1>4. y = b.y1 + (L * p + s) /\ s \in 0 .. L - 1
  BY <1>1
<1> HIDE DEF L, h, m, k, q
<1>5. L * p <= h * p /\ L * p \in Int /\ h * p \in Int
  <2>1. p * L <= p * h /\ p * L \in Int /\ p * h \in Int
    BY <1>1, MulMono
  <2> QED BY <1>1, <2>1
<1>6. y < h * p + h
  BY <1>1, <1>4, <1>5
<1>7. h * p + h <= (m * k) * p + m * k /\ m * k \in Nat /\ (m * k) * p \in Int
  <2>1. m * k \in Nat
    BY <1>1
  <2>2. p * h <= p * (m * k) /\ p * h \in Int /\ p * (m * k) \in Int
    BY <1>1, <2>1, MulMono
  <2> HIDE DEF h
  <2> QED BY <1>1, <2>1, <2>2
<1>8. (m * k) * p + m * k = m * (k * p + k)
  BY <1>1
<1>9. q < k * p + k
  <2> DEFINE w == k * p + k
  <2>0. w \in Nat
    BY <1>1
  <2> SUFFICES ASSUME w <= q PROVE FALSE
    BY <1>2, <2>0
  <2> HIDE DEF w
  <2>1. m * w <= m * q /\ m * q \in Int /\ m * w \in Int
    BY <1>1, <1>2, <2>0, MulMono
  <2>2. y < m * w
    BY <1>1, <1>5, <1>6, <1>7, <1>8, <2>1 DEF w
  <2> QED BY <1>2, <2>1, <2>2
<1>10. k * z + q < k * (z + p) + k /\ k * z \in Int /\ k * (z + p) \in Int
  <2>1. k * (z + p) = k * z + k * p /\ k * z \in Int /\ k * p \in Int
    BY <1>1, MulAdd
  <2> QED BY <1>1, <1>2, <1>9, <2>1
<1>11. k * (z + p) + k <= k * g.zs /\ k * g.zs \in Int
  <2>1. z + p < g.zs /\ z + p \in Int /\ g.zs \in Int
    BY <1>1
  <2> QED BY <1>1, <2>1, MulLess
<1> QED BY <1>1, <1>2, <1>3, <1>10, <1>11

LEMMA AsideIs ==
  ASSUME NEW i \in Walkers, NEW n \in Int, NEW m, m = Aside(i, n)
  PROVE  /\ m \in Walkers /\ m.box = i.box /\ m.flow = i.flow /\ m.end = i.end
         /\ m.x = i.x + n /\ m.y = i.y /\ m.z = i.z
         /\ m.block = i.block /\ m.offset = i.offset + n /\ m.linear = i.linear + n
<1> DEFINE a == i.x + n
           b == i.linear + n
           c == i.offset + n
<1>1. a \in Int /\ b \in Int /\ c \in Int
  BY WalkerTypes
<1>2. m = [i EXCEPT !.x = a, !.linear = b, !.offset = c]
  BY DEF Aside
<1>3. a = i.x + n /\ b = i.linear + n /\ c = i.offset + n
  OBVIOUS
<1> HIDE DEF a, b, c
<1> QED BY <1>1, <1>2, <1>3 DEF Walkers

AheadXYZ(i, n, q, r, p, s) ==
  LET b == i.box IN Digits(XLength(b), YLength(b), i.x - b.x1, i.y - b.y1, n, q, r, p, s)

(* In the XYZ flow n further is column r, line s and p bands on.           *)
LEMMA GoesXYZ ==
  ASSUME NEW g \in Extents, NEW i, Stands(g, i), NEW b, b = i.box,
         NEW n \in Nat \ {0}, NEW q, NEW r, NEW p, NEW s,
         AheadXYZ(i, n, q, r, p, s),
         NEW k, k = MoveXYZ(g, i, n)
  PROVE  /\ k \in Walkers /\ k.box = b /\ k.flow = i.flow /\ k.end = i.end
         /\ k.x = b.x1 + r /\ k.y = b.y1 + s /\ k.z = i.z + p
         /\ k.linear = IF k.z > b.z2 THEN i.end ELSE i.linear + n
         /\ q = 0 => k.block = i.block /\ k.offset = i.offset + n
         /\ q # 0 /\ p = 0 =>
              /\ k.block = BlockOf(g, k.y, k.z)
              /\ k.offset = IF k.block # i.block THEN k.x ELSE OffsetIn(g, k.x, k.y)
<1> DEFINE X == XLength(b)
           Y == YLength(b)
           m == Aside(i, n)
           c == i.z - b.z1
<1>0. Digits(XLength(b), YLength(b), i.x - b.x1, i.y - b.y1, n, q, r, p, s)
  BY DEF AheadXYZ
<1> USE <1>0
<1>1. /\ i \in Walkers /\ Inside(g, b) /\ i.x \in Nat /\ i.y \in Nat /\ i.z \in Nat
      /\ i.x - b.x1 \in 0 .. X - 1 /\ i.y - b.y1 \in 0 .. Y - 1
      /\ i.x <= b.x2 /\ i.y <= b.y2 /\ i.z <= b.z2
  BY StandsIs
<1>2. /\ X \in Nat \ {0} /\ Y \in Nat \ {0} /\ b.x1 \in Nat /\ b.y1 \in Nat /\ b.z2 \in Nat
      /\ b.x2 = b.x1 + X - 1 /\ b.y2 = b.y1 + Y - 1
  BY <1>1, InsideIs
<1>3. /\ q \in Nat /\ r \in 0 .. X - 1 /\ (i.x - b.x1) + n = X * q + r
      /\ p \in Nat /\ s \in 0 .. Y - 1 /\ (i.y - b.y1) + q = Y * p + s
  <2>1. 0 \in Nat /\ n \in Nat
    OBVIOUS
  <2> QED BY <1>1, <1>2, <2>1, CountOn
<1>4. /\ m \in Walkers /\ m.box = b /\ m.flow = i.flow /\ m.end = i.end
      /\ m.x = i.x + n /\ m.y = i.y /\ m.z = i.z
      /\ m.block = i.block /\ m.offset = i.offset + n /\ m.linear = i.linear + n
  <2>1. n \in Int /\ m = Aside(i, n)
    OBVIOUS
  <2> HIDE DEF m
  <2>2. /\ m \in Walkers /\ m.box = i.box /\ m.flow = i.flow /\ m.end = i.end
        /\ m.x = i.x + n /\ m.y = i.y /\ m.z = i.z
        /\ m.block = i.block /\ m.offset = i.offset + n /\ m.linear = i.linear + n
    <3>1. i \in Walkers
      BY <1>1
    <3> QED BY <2>1, <3>1, AsideIs, Zenon
  <2> QED BY <2>2
<1>5. k = IF m.x > m.box.x2 \/ m.z > m.box.z2 \/ m.x < m.box.x1
            THEN MoveYZ(g, m, n) ELSE m
  BY DEF MoveXYZ, Aside
<1> HIDE DEF X, Y, m, c
<1>6. k = IF i.x + n > b.x2 THEN MoveYZ(g, m, n) ELSE m
  <2>1. (m.x > m.box.x2 \/ m.z > m.box.z2 \/ m.x < m.box.x1) <=> i.x + n > b.x2
    BY <1>1, <1>2, <1>4
  <2> QED BY <1>5, <2>1
<1>7. i.x + n <= b.x2 <=> q = 0
  <2>1. CASE q = 0
    <3>1. X * q = 0
      BY <1>2, <2>1
    <3> QED BY <1>1, <1>2, <1>3, <3>1, <2>1
  <2>2. CASE q # 0
    <3>1. X <= X * q /\ X * q \in Nat
      BY <1>2, <1>3, <2>2, MulGrows
    <3> QED BY <1>1, <1>2, <1>3, <3>1, <2>2
  <2> QED BY <2>1, <2>2
<1>8. CASE q = 0
  <2>1. X * q = 0 /\ r = (i.x - b.x1) + n
    BY <1>1, <1>2, <1>3, <1>8
  <2>2. p = 0 /\ s = i.y - b.y1
    <3>1. (i.y - b.y1) + q = i.y - b.y1
      BY <1>1, <1>8
    <3>2. 0 \in Nat /\ 0 * Y = 0
      BY <1>2
    <3>3. p # 0 => Y <= Y * p /\ Y * p \in Nat
      BY <1>2, <1>3, MulGrows
    <3>4. p = 0
      BY <1>1, <1>2, <1>3, <3>1, <3>3
    <3>5. Y * p = 0
      BY <1>2, <3>4
    <3> QED BY <1>1, <1>3, <3>1, <3>4, <3>5
  <2>3. k = m
    BY <1>1, <1>2, <1>6, <1>7, <1>8
  <2>4. /\ k.x = b.x1 + r /\ k.y = b.y1 + s /\ k.z = i.z + p
        /\ k.linear = i.linear + n /\ ~(k.z > b.z2)
    BY <1>1, <1>2, <1>4, <2>1, <2>2, <2>3
  <2> QED BY <1>4, <1>8, <2>3, <2>4
<1>9. CASE q # 0
  <2> DEFINE d == Landed(g, m)
  <2>1. /\ d \in Walkers /\ d.box = b /\ d.flow = i.flow /\ d.end = i.end
        /\ d.x = b.x1 + r /\ d.y = i.y + q /\ d.z = i.z
        /\ d.block = BlockOf(g, d.y, d.z)
        /\ d.offset = IF d.block # i.block THEN d.x ELSE OffsetIn(g, d.x, d.y)
        /\ d.linear = IF d.block >= Blocks(g) THEN i.end ELSE i.linear + n
    <3>1. IsQuotient(m.x - m.box.x1, XLength(m.box), q, r)
      <4>1. m.x - m.box.x1 = (i.x - b.x1) + n
        BY <1>1, <1>2, <1>4
      <4> QED BY <1>4, <4>1 DEF IsQuotient, Digits
    <3>2. r \in Nat /\ m.y \in Nat
      BY <1>1, <1>3, <1>4
    <3>3. d = Landed(g, m)
      OBVIOUS
    <3> HIDE DEF d
    <3>4. /\ d \in Walkers /\ d.box = m.box /\ d.flow = m.flow /\ d.end = m.end
          /\ d.x = m.box.x1 + r /\ d.y = m.y + q /\ d.z = m.z
          /\ d.block = BlockOf(g, d.y, d.z)
          /\ d.offset = IF d.block # m.block THEN d.x ELSE OffsetIn(g, d.x, d.y)
          /\ d.linear = IF d.block >= Blocks(g) THEN m.end ELSE m.linear
      BY <1>3, <1>4, <3>1, <3>2, <3>3, LandsAt
    <3> QED BY <1>4, <3>4
  <2>2. k = MoveYZ(g, m, n)
    BY <1>1, <1>2, <1>6, <1>7, <1>9
  <2>3. ~(m.x < m.box.x1)
    BY <1>1, <1>2, <1>4
  <2>4. k = CASE d.y > d.box.y2 -> NextBand(g, d)
              [] d.y < d.box.y1 -> BandBefore(g, d)
              [] OTHER -> d
    BY <2>2, <2>3, MoveYZIs
  <2> HIDE DEF d
  <2>5. d.y = b.y1 + (Y * p + s) /\ d.y \in Nat
    BY <1>1, <1>2, <1>3, <2>1
  <2>6. d.y > b.y2 <=> p # 0
    <3>1. p = 0 => Y * p = 0
      BY <1>2
    <3>2. p # 0 => Y <= Y * p /\ Y * p \in Nat
      BY <1>2, <1>3, MulGrows
    <3> QED BY <1>2, <1>3, <2>5, <3>1, <3>2
  <2>7. ~(d.y < b.y1)
    BY <1>1, <1>2, <1>3, <2>1
  <2>8. i.z + p <= b.z2 => ~(d.block >= Blocks(g))
    <3>1. d.y - b.y1 = Y * p + s
      <4>1. Y * p \in Int
        BY <1>2, <1>3
      <4> QED BY <1>2, <1>3, <2>5, <4>1
    <3> QED BY <1>1, <1>3, <2>1, <2>5, <3>1, BlockIsReached DEF Y
  <2>9. CASE p = 0
    <3>1. k = d
      BY <2>1, <2>4, <2>6, <2>7, <2>9
    <3>2. Y * p = 0
      BY <1>2, <2>9
    <3>3. k.y = b.y1 + s
      BY <1>2, <1>3, <2>5, <3>1, <3>2
    <3>4. i.z + p = i.z /\ k.z = i.z + p /\ ~(k.z > b.z2)
      BY <1>1, <1>2, <2>1, <2>9, <3>1
    <3>5. k.linear = i.linear + n
      BY <1>1, <1>2, <2>1, <2>8, <3>1, <3>4
    <3> QED BY <2>1, <1>9, <3>1, <3>3, <3>4, <3>5
  <2>10. CASE p # 0
    <3>1. k = NextBand(g, d)
      <4>1. d.y > d.box.y2 /\ ~(d.y < d.box.y1)
        BY <2>1, <2>6, <2>7, <2>10
      <4> QED BY <2>4, <4>1
    <3>2. IsQuotient(d.y - d.box.y1, YLength(d.box), p, s)
      <4>1. d.y - d.box.y1 = (i.y - b.y1) + q
        BY <1>1, <1>2, <1>3, <2>1
      <4> QED BY <2>1, <4>1 DEF IsQuotient, Digits
    <3>3. /\ k \in Walkers /\ k.box = d.box /\ k.flow = d.flow /\ k.end = d.end
          /\ k.x = d.x /\ k.y = d.box.y1 + s /\ k.z = d.z + p
          /\ k.linear = IF k.z > d.box.z2 THEN d.end ELSE d.linear
      <4>1. s \in Nat /\ d.box.y1 \in Nat
        BY <1>2, <1>3, <2>1
      <4> QED BY <1>3, <2>1, <2>5, <3>1, <3>2, <4>1, BandAt
    <3>4. k.linear = IF k.z > b.z2 THEN i.end ELSE i.linear + n
      <4>1. ~(k.z > b.z2) => ~(d.block >= Blocks(g))
        BY <1>1, <1>2, <1>3, <2>1, <2>8, <3>3
      <4> QED BY <2>1, <3>3, <4>1
    <3> QED BY <2>1, <2>10, <1>9, <3>3, <3>4
  <2> QED BY <2>9, <2>10
<1> QED BY <1>8, <1>9

LEMMA CarryIs ==
  ASSUME NEW A \in Nat \ {0}, NEW a \in Nat, NEW p \in Nat, NEW s \in 0 .. A - 1, a = A * p + s
  PROVE  /\ p = 0 <=> a < A
         /\ p = 0 => s = a
<1>1. CASE p = 0
  <2>1. A * p = 0
    BY <1>1
  <2> QED BY <1>1, <2>1
<1>2. CASE p # 0
  <2>1. A <= A * p /\ A * p \in Nat
    BY <1>2, MulGrows
  <2> QED BY <1>2, <2>1
<1> QED BY <1>1, <1>2

LEMMA LinearTypes ==
  ASSUME NEW g \in Extents, NEW x \in Int, NEW y \in Int, NEW z \in Int
  PROVE  LinearOf(g, x, y, z) \in Int
BY ExtentTypes DEF LinearOf

(* Beyond the last band the iterator goes on q columns further, in band r  *)
(* of the box, and beyond the last column p lines further, in column s.    *)
LEMMA AcrossIs ==
  ASSUME NEW g \in Extents, NEW m \in Walkers, NEW b, b = m.box, m.y \in Nat,
         XLength(b) \in Nat \ {0}, b.x2 = b.x1 + XLength(b) - 1, m.x - b.x1 \in Nat,
         NEW q \in Nat, NEW r \in Nat, IsQuotient(m.z - b.z1, ZLength(b), q, r),
         NEW p \in Nat, NEW s \in 0 .. XLength(b) - 1,
         IsQuotient((m.x - b.x1) + q, XLength(b), p, s),
         (m.x - b.x1) + q = XLength(b) * p + s,
         NEW k, k = MoveXY(g, m)
  PROVE  /\ k \in Walkers /\ k.box = b /\ k.flow = m.flow /\ k.end = m.end
         /\ k.x = b.x1 + s /\ k.y = m.y + p /\ k.z = b.z1 + r
         /\ k.y > b.y2 => k.linear = m.end
         /\ ~(k.y > b.y2) =>
              /\ k.linear = LinearOf(g, k.x, k.y, k.z)
              /\ k.block = BlockOf(g, k.y, k.z) /\ k.offset = OffsetIn(g, k.x, k.y)
<1> DEFINE z == b.z1 + r
           x == m.x + q
           y == m.y + p
           c == b.x1 + s
           o == OffsetOf(g, c, y)
           bl == z * BlocksPerBand(g) + y \div g.maxLines
           l == LinearOf(g, c, y, z)
           f == [m EXCEPT !.x = c, !.y = y, !.z = z]
<1>1. /\ z = b.z1 + ((m.z - b.z1) % ZLength(b))
      /\ x = m.x + (m.z - b.z1) \div ZLength(b)
  BY DEF IsQuotient
<1>2. m.x \in Int /\ m.z \in Int /\ b.x1 \in Int /\ b.z1 \in Int /\ b.y2 \in Int
      /\ b.x2 \in Int /\ m.end \in Int
  BY WalkerTypes DEF Boxes
<1>3. x - b.x1 = (m.x - b.x1) + q
  BY <1>2
<1>4. (x > b.x2 <=> p # 0) /\ (p = 0 => c = x)
  <2>1. (m.x - b.x1) + q \in Nat
    OBVIOUS
  <2>2. (p = 0 <=> (m.x - b.x1) + q < XLength(b)) /\ (p = 0 => s = (m.x - b.x1) + q)
    BY <2>1, CarryIs
  <2> QED BY <1>2, <1>3, <2>2
<1>5. y = IF x > b.x2 THEN m.y + (x - b.x1) \div XLength(b) ELSE m.y
  <2>1. (x - b.x1) \div XLength(b) = p
    BY <1>3 DEF IsQuotient
  <2>2. y = m.y + p /\ (p = 0 => y = m.y)
    OBVIOUS
  <2> HIDE DEF x, y, c
  <2> QED BY <1>4, <2>1, <2>2
<1>6. c = IF x > b.x2 THEN b.x1 + ((x - b.x1) % XLength(b)) ELSE x
  <2>1. (x - b.x1) % XLength(b) = s
    BY <1>3 DEF IsQuotient
  <2>2. c = b.x1 + s
    OBVIOUS
  <2> HIDE DEF c, x
  <2> QED BY <1>4, <2>1, <2>2
<1>7. c \in Int /\ y \in Nat /\ z \in Int
  BY <1>2
<1>8. c = b.x1 + s /\ y = m.y + p /\ z = b.z1 + r
  OBVIOUS
<1> HIDE DEF c, y, z, x
<1>9. k = IF y > b.y2 THEN ToEnd(f)
          ELSE [f EXCEPT !.offset = OffsetOf(g, f.x, f.y), !.block = bl,
                         !.linear = LinearOf(g, f.x, f.y, f.z)]
  <2> DEFINE B == m.box
             Z == B.z1 + ((m.z - B.z1) % ZLength(B))
             A == m.x + (m.z - B.z1) \div ZLength(B)
             Y == IF A > B.x2 THEN m.y + (A - B.x1) \div XLength(B) ELSE m.y
             C == IF A > B.x2 THEN B.x1 + ((A - B.x1) % XLength(B)) ELSE A
             F == [m EXCEPT !.x = C, !.y = Y, !.z = Z]
  <2>1. k = IF Y > B.y2 THEN ToEnd(F)
            ELSE [F EXCEPT !.offset = OffsetOf(g, F.x, F.y),
                           !.block = Z * BlocksPerBand(g) + Y \div g.maxLines,
                           !.linear = LinearOf(g, F.x, F.y, F.z)]
    BY DEF MoveXY
  <2>2. Z = z /\ A = x
    BY <1>1
  <2>3. Y = y /\ C = c
    BY <1>5, <1>6, <2>2
  <2> HIDE DEF Z, A, Y, C
  <2>4. F = f
    BY <2>2, <2>3
  <2> HIDE DEF F, f
  <2> QED BY <2>1, <2>2, <2>3, <2>4
<1>10. /\ f \in Walkers /\ f.box = b /\ f.flow = m.flow /\ f.end = m.end
       /\ f.x = c /\ f.y = y /\ f.z = z
  <2>1. c \in Int /\ y \in Int /\ z \in Int
    BY <1>7
  <2>2. f \in Walkers
    BY <2>1 DEF Walkers
  <2> QED BY <2>2 DEF Walkers
<1>11. o = OffsetIn(g, c, y) /\ o \in Int
  BY <1>7, OffsetIs
<1>12. bl = BlockOf(g, y, z) /\ bl \in Int
  BY <1>7, BlockIs
<1>13. l = LinearOf(g, c, y, z) /\ l \in Int
  BY <1>7, LinearTypes
<1> HIDE DEF f, o, bl, l
<1>14. CASE y > b.y2
  <2>1. k = [f EXCEPT !.linear = f.end]
    BY <1>9, <1>14 DEF ToEnd
  <2>2. /\ k \in Walkers /\ k.box = f.box /\ k.flow = f.flow /\ k.end = f.end
        /\ k.x = f.x /\ k.y = f.y /\ k.z = f.z /\ k.linear = f.end
    BY <1>10, <2>1 DEF Walkers
  <2> QED BY <1>8, <1>10, <1>14, <2>2
<1>15. CASE ~(y > b.y2)
  <2>1. k = [f EXCEPT !.offset = o, !.block = bl, !.linear = l]
    BY <1>9, <1>10, <1>15 DEF o, l
  <2>2. /\ k \in Walkers /\ k.box = f.box /\ k.flow = f.flow /\ k.end = f.end
        /\ k.x = f.x /\ k.y = f.y /\ k.z = f.z /\ k.linear = l /\ k.block = bl /\ k.offset = o
    BY <1>10, <1>11, <1>12, <1>13, <2>1 DEF Walkers
  <2> QED BY <1>8, <1>10, <1>11, <1>12, <1>13, <1>15, <2>2
<1> QED BY <1>14, <1>15

AheadZXY(i, n, q, r, p, s) ==
  LET b == i.box IN Digits(ZLength(b), XLength(b), i.z - b.z1, i.x - b.x1, n, q, r, p, s)

(* In the ZXY flow n further is band r, column s and p lines on.           *)
LEMMA GoesZXY ==
  ASSUME NEW g \in Extents, NEW i, Stands(g, i), NEW b, b = i.box,
         NEW n \in Nat \ {0}, NEW q, NEW r, NEW p, NEW s,
         AheadZXY(i, n, q, r, p, s),
         NEW k, k = MoveZXY(g, i, n)
  PROVE  /\ k \in Walkers /\ k.box = b /\ k.flow = i.flow /\ k.end = i.end
         /\ k.x = b.x1 + s /\ k.y = i.y + p /\ k.z = b.z1 + r
         /\ q = 0 => /\ p = 0 /\ k.z = i.z + n /\ s = i.x - b.x1
                     /\ k.linear = i.linear + n * XLength(b) * YLength(b)
                     /\ k.block = BlockOf(g, i.y, k.z) /\ k.offset = i.offset
         /\ q # 0 /\ k.y > b.y2 => k.linear = i.end
         /\ q # 0 /\ ~(k.y > b.y2) =>
              /\ k.linear = LinearOf(g, k.x, k.y, k.z)
              /\ k.block = BlockOf(g, k.y, k.z) /\ k.offset = OffsetIn(g, k.x, k.y)
<1> DEFINE X == XLength(b)
           Z == ZLength(b)
           z == i.z + n
           l == i.linear + n * XLength(b) * YLength(b)
           bl == z * BlocksPerBand(g) + i.y \div g.maxLines
           m == [i EXCEPT !.z = z, !.linear = l, !.block = bl]
<1>0. Digits(ZLength(b), XLength(b), i.z - b.z1, i.x - b.x1, n, q, r, p, s)
  BY DEF AheadZXY
<1> USE <1>0
<1>1. /\ i \in Walkers /\ Inside(g, b) /\ i.x \in Nat /\ i.y \in Nat /\ i.z \in Nat
      /\ i.x - b.x1 \in 0 .. X - 1 /\ i.z - b.z1 \in 0 .. Z - 1
  BY StandsIs
<1>2. /\ X \in Nat \ {0} /\ Z \in Nat \ {0} /\ b.x1 \in Nat /\ b.z1 \in Nat /\ b.z2 \in Nat
      /\ b.x2 = b.x1 + X - 1 /\ b.z2 = b.z1 + Z - 1 /\ YLength(b) \in Nat
  BY <1>1, InsideIs
<1>3. /\ q \in Nat /\ r \in 0 .. Z - 1 /\ (i.z - b.z1) + n = Z * q + r
      /\ p \in Nat /\ s \in 0 .. X - 1 /\ (i.x - b.x1) + q = X * p + s
  <2>1. 0 \in Nat /\ n \in Nat
    OBVIOUS
  <2> QED BY <1>1, <1>2, <2>1, CountOn
<1>4. z \in Nat /\ z = i.z + n
  BY <1>1
<1>5. l \in Int /\ l = i.linear + n * XLength(b) * YLength(b)
  BY <1>1, <1>2, WalkerTypes
<1>6. bl = BlockOf(g, i.y, z) /\ bl \in Int
  <2> HIDE DEF z
  <2>1. i.y \in Nat /\ z \in Int
    BY <1>1, <1>4
  <2>2. bl = BlockOf(g, i.y, z)
    BY <2>1, BlockIs
  <2>3. BlockOf(g, i.y, z) \in Int
    BY <2>1, BlockIs
  <2> QED BY <2>2, <2>3
<1>7. k = IF z > m.box.z2 \/ z < m.box.z1 THEN MoveXY(g, m) ELSE m
  BY DEF MoveZXY
<1> HIDE DEF z, l, bl
<1>8. /\ m \in Walkers /\ m.box = b /\ m.flow = i.flow /\ m.end = i.end
      /\ m.x = i.x /\ m.y = i.y /\ m.z = z
      /\ m.block = bl /\ m.offset = i.offset /\ m.linear = l
  <2>1. z \in Int
    BY <1>4
  <2> QED BY <1>1, <1>5, <1>6, <2>1 DEF Walkers
<1> HIDE DEF m, X, Z
<1>9. q = 0 <=> z <= b.z2
  <2>1. (i.z - b.z1) + n \in Nat
    BY <1>1
  <2>2. q = 0 <=> (i.z - b.z1) + n < Z
    BY <1>2, <1>3, <2>1, CarryIs
  <2> QED BY <1>1, <1>2, <1>4, <2>2
<1>10. CASE q = 0
  <2>1. r = (i.z - b.z1) + n
    <3>1. Z * q = 0
      BY <1>2, <1>10
    <3> QED BY <1>1, <1>3, <3>1
  <2>2. p = 0 /\ s = i.x - b.x1
    <3> DEFINE a == i.x - b.x1
    <3>1. a + q = a /\ a \in Nat /\ a < X /\ a = X * p + s
      <4>1. a \in 0 .. X - 1 /\ a + q = X * p + s
        BY <1>1, <1>3
      <4> HIDE DEF a
      <4> QED BY <4>1, <1>10, <1>2
    <3> HIDE DEF a
    <3>2. (p = 0 <=> a < X) /\ (p = 0 => s = a)
      <4>1. X \in Nat \ {0} /\ p \in Nat /\ s \in 0 .. X - 1
        BY <1>2, <1>3
      <4> QED BY <3>1, <4>1, CarryIs
    <3>3. p = 0 /\ s = a
      BY <3>1, <3>2
    <3> QED BY <3>3 DEF a
  <2>3. k = m
    BY <1>1, <1>2, <1>4, <1>7, <1>8, <1>9, <1>10
  <2>4. k.x = b.x1 + s /\ k.y = i.y + p /\ k.z = b.z1 + r
    BY <1>1, <1>2, <1>4, <1>8, <2>1, <2>2, <2>3
  <2> QED BY <1>4, <1>5, <1>6, <1>8, <1>10, <2>2, <2>3, <2>4
<1>11. CASE q # 0
  <2>1. k = MoveXY(g, m)
    BY <1>1, <1>2, <1>4, <1>7, <1>8, <1>9, <1>11
  <2>2. IsQuotient(m.z - b.z1, ZLength(b), q, r)
    <3>1. m.z - b.z1 = (i.z - b.z1) + n
      BY <1>1, <1>2, <1>4, <1>8
    <3> QED BY <3>1 DEF IsQuotient, Digits
  <2>3. IsQuotient((m.x - b.x1) + q, XLength(b), p, s)
    BY <1>8 DEF IsQuotient, Digits
  <2>4. (m.x - b.x1) + q = XLength(b) * p + s
    BY <1>3, <1>8 DEF X
  <2>5. /\ m.y \in Nat /\ m.x - b.x1 \in Nat /\ s \in 0 .. XLength(b) - 1
        /\ XLength(b) \in Nat \ {0} /\ b.x2 = b.x1 + XLength(b) - 1 /\ r \in Nat
    BY <1>1, <1>2, <1>3, <1>8 DEF X
  <2>6. b = m.box
    BY <1>8
  <2>7. /\ k \in Walkers /\ k.box = b /\ k.flow = m.flow /\ k.end = m.end
        /\ k.x = b.x1 + s /\ k.y = m.y + p /\ k.z = b.z1 + r
        /\ k.y > b.y2 => k.linear = m.end
        /\ ~(k.y > b.y2) =>
              /\ k.linear = LinearOf(g, k.x, k.y, k.z)
              /\ k.block = BlockOf(g, k.y, k.z) /\ k.offset = OffsetIn(g, k.x, k.y)
    BY <1>3, <1>8, <2>1, <2>2, <2>3, <2>4, <2>5, <2>6, AcrossIs
  <2> QED BY <1>8, <1>11, <2>7
<1> QED BY <1>10, <1>11

Split(a, m, q, r) ==
  /\ IsQuotient(a, m, q, r)
  /\ q \in Nat /\ r \in 0 .. m - 1 /\ a = m * q + r

(* The iterator m has left its box at the last line: it goes on q columns  *)
(* further, in line r, and beyond the last column p bands further, in      *)
(* column s.                                                               *)
Over(g, m, b, q, r, p, s) ==
  /\ m \in Walkers /\ b = m.box
  /\ b.x1 \in Nat /\ b.y1 \in Nat /\ m.y \in Nat /\ m.x - b.x1 \in Nat
  /\ XLength(b) \in Nat \ {0} /\ YLength(b) \in Nat \ {0} /\ b.x2 = b.x1 + XLength(b) - 1
  /\ Split(m.y - b.y1, YLength(b), q, r) /\ Split((m.x - b.x1) + q, XLength(b), p, s)
  /\ ~(BlockOf(g, b.y1 + r, m.z) >= Blocks(g))

LEMMA OverIs ==
  ASSUME NEW g \in Extents, NEW m, NEW b, NEW q, NEW r, NEW p, NEW s, Over(g, m, b, q, r, p, s),
         NEW k, k = MoveXZ(g, m)
  PROVE  /\ k \in Walkers /\ k.box = b /\ k.flow = m.flow /\ k.end = m.end
         /\ k.x = b.x1 + s /\ k.y = b.y1 + r /\ k.z = m.z + p
         /\ k.block = BlockOf(g, k.y, k.z)
         /\ p = 0 => /\ k.linear = LinearOf(g, k.x, k.y, k.z)
                     /\ k.offset = IF k.block # m.block THEN k.x ELSE OffsetIn(g, k.x, k.y)
         /\ p # 0 =>
              /\ k.linear = IF k.z > b.z2 THEN m.end
                            ELSE LinearOf(g, m.x + q, k.y, m.z)
              /\ k.offset = OffsetIn(g, k.x, k.y)
<1> DEFINE y == b.y1 + r
           x == m.x + q
           z == m.z + p
           c == b.x1 + s
           o == OffsetOf(g, x, y)
           l == LinearOf(g, x, y, m.z)
           f == [m EXCEPT !.x = x, !.y = y, !.offset = o, !.linear = l]
           d == Move2NextBlock(g, f)
           bl == z * BlocksPerBand(g) + y \div g.maxLines
           u == OffsetOf(g, c, y)
<1>a. /\ m \in Walkers /\ b = m.box
      /\ b.x1 \in Nat /\ b.y1 \in Nat /\ m.y \in Nat /\ m.x - b.x1 \in Nat
      /\ XLength(b) \in Nat \ {0} /\ YLength(b) \in Nat \ {0} /\ b.x2 = b.x1 + XLength(b) - 1
      /\ ~(BlockOf(g, b.y1 + r, m.z) >= Blocks(g))
  BY DEF Over
<1> USE <1>a
<1>0. /\ q \in Nat /\ r \in 0 .. YLength(b) - 1 /\ m.y - b.y1 = YLength(b) * q + r
      /\ p \in Nat /\ s \in 0 .. XLength(b) - 1 /\ (m.x - b.x1) + q = XLength(b) * p + s
      /\ IsQuotient(m.y - b.y1, YLength(b), q, r)
      /\ IsQuotient((m.x - b.x1) + q, XLength(b), p, s)
  BY DEF Over, Split
<1>1. m.x \in Int /\ m.z \in Int /\ b.z2 \in Int /\ b.x2 \in Int /\ m.end \in Int
      /\ m.block \in Int
  BY WalkerTypes DEF Boxes
<1>2. (x > b.x2 <=> p # 0) /\ (p = 0 => c = x) /\ x - b.x1 = (m.x - b.x1) + q
      /\ x = b.x1 + (XLength(b) * p + s)
  <2>1. (m.x - b.x1) + q \in Nat
    BY <1>0
  <2>2. (p = 0 <=> (m.x - b.x1) + q < XLength(b)) /\ (p = 0 => s = (m.x - b.x1) + q)
    BY <1>0, <2>1, CarryIs
  <2>3. XLength(b) * p \in Int
    BY <1>0
  <2> QED BY <1>0, <1>1, <2>2, <2>3
<1>3. (m.y - y) \div YLength(b) = q
  <2>1. m.y - y = YLength(b) * q + 0 /\ YLength(b) * q \in Nat
    <3>1. YLength(b) * q \in Nat
      BY <1>0
    <3> QED BY <1>0, <3>1
  <2>2. m.y - y \in Nat /\ 0 \in 0 .. YLength(b) - 1
    BY <2>1
  <2> HIDE DEF y
  <2> QED BY <1>0, <2>1, <2>2, DivUnique
<1>4. y = b.y1 + ((m.y - b.y1) % YLength(b))
  <2>1. (m.y - b.y1) % YLength(b) = r
    BY <1>0 DEF IsQuotient
  <2> QED BY <2>1
<1>5. z = m.z + (x - b.x1) \div XLength(b) /\ c = b.x1 + ((x - b.x1) % XLength(b))
  <2>1. (x - b.x1) \div XLength(b) = p /\ (x - b.x1) % XLength(b) = s
    BY <1>0, <1>2 DEF IsQuotient
  <2> HIDE DEF x
  <2> QED BY <2>1
<1>6. /\ y \in Nat /\ x \in Int /\ z \in Int /\ c \in Int
      /\ y = b.y1 + r /\ z = m.z + p /\ c = b.x1 + s
  BY <1>0, <1>1
<1> HIDE DEF y, x, z, c
<1>7. k = IF x <= b.x2 THEN d
          ELSE [d EXCEPT !.z = z, !.x = c, !.offset = u, !.block = bl,
                         !.linear = IF z > b.z2 THEN m.end ELSE @]
  <2> DEFINE B == m.box
             YY == B.y1 + ((m.y - B.y1) % YLength(B))
             XX == m.x + (m.y - YY) \div YLength(B)
             M == Move2NextBlock(g, [m EXCEPT !.x = XX, !.y = YY, !.offset = OffsetOf(g, XX, YY),
                                              !.linear = LinearOf(g, XX, YY, m.z)])
             ZZ == m.z + (XX - B.x1) \div XLength(B)
             CC == B.x1 + ((XX - B.x1) % XLength(B))
  <2>1. k = IF XX <= B.x2 THEN M
            ELSE [M EXCEPT !.z = ZZ, !.x = CC, !.offset = OffsetOf(g, CC, YY),
                           !.block = ZZ * BlocksPerBand(g) + YY \div g.maxLines,
                           !.linear = IF ZZ > B.z2 THEN m.end ELSE @]
    BY DEF MoveXZ
  <2>2. YY = y
    BY <1>4
  <2>3. XX = x
    <3>1. x = m.x + q
      BY DEF x
    <3> HIDE DEF YY
    <3> QED BY <1>3, <2>2, <3>1
  <2> HIDE DEF YY, XX
  <2>4. ZZ = z /\ CC = c
    BY <1>5, <2>3
  <2> HIDE DEF ZZ, CC
  <2>5. M = d
    BY <2>2, <2>3
  <2> HIDE DEF M, d
  <2> QED BY <2>1, <2>2, <2>3, <2>4, <2>5
<1>8. o = OffsetIn(g, x, y) /\ o \in Int
  BY <1>6, OffsetIs
<1>9. l = LinearOf(g, x, y, m.z) /\ l \in Int
  BY <1>1, <1>6, LinearTypes
<1>10. bl = BlockOf(g, y, z) /\ bl \in Int
  <2>1. bl = BlockOf(g, y, z)
    BY <1>6, BlockIs
  <2>2. BlockOf(g, y, z) \in Int
    BY <1>6, BlockIs
  <2> QED BY <2>1, <2>2
<1>11. u = OffsetIn(g, c, y) /\ u \in Int
  BY <1>6, OffsetIs
<1> HIDE DEF o, l, bl, u
<1>12. /\ f \in Walkers /\ f.box = b /\ f.flow = m.flow /\ f.end = m.end
       /\ f.x = x /\ f.y = y /\ f.z = m.z /\ f.block = m.block /\ f.offset = o /\ f.linear = l
  <2>1. x \in Int /\ y \in Int /\ o \in Int /\ l \in Int
    BY <1>6, <1>8, <1>9
  <2>2. f \in Walkers
    BY <2>1 DEF Walkers
  <2> QED BY <2>2 DEF Walkers
<1> HIDE DEF f
<1>13. /\ d \in Walkers /\ d.box = b /\ d.flow = m.flow /\ d.end = m.end
       /\ d.x = x /\ d.y = y /\ d.z = m.z /\ d.block = BlockOf(g, y, m.z)
       /\ d.offset = IF d.block # m.block THEN x ELSE o
       /\ d.linear = l
  <2>1. f.y \in Nat /\ d = Move2NextBlock(g, f)
    BY <1>6, <1>12
  <2> HIDE DEF d
  <2>2. /\ d \in Walkers /\ d.box = f.box /\ d.flow = f.flow /\ d.end = f.end
        /\ d.x = f.x /\ d.y = f.y /\ d.z = f.z
        /\ d.block = BlockOf(g, f.y, f.z)
        /\ d.offset = IF d.block # f.block THEN f.x ELSE f.offset
        /\ d.linear = IF d.block >= Blocks(g) THEN f.end ELSE f.linear
    BY <1>12, <2>1, NextBlockIs
  <2>3. ~(d.block >= Blocks(g))
    BY <1>6, <1>12, <2>2
  <2> QED BY <1>12, <2>2, <2>3
<1> HIDE DEF d
<1>14. CASE p = 0
  <2>1. k = d /\ z = m.z /\ c = x
    BY <1>1, <1>2, <1>6, <1>7, <1>14
  <2> QED BY <1>6, <1>8, <1>9, <1>13, <1>14, <2>1
<1>15. CASE p # 0
  <2> DEFINE v == IF z > b.z2 THEN m.end ELSE d.linear
  <2>1. k = [d EXCEPT !.z = z, !.x = c, !.offset = u, !.block = bl, !.linear = v]
    BY <1>1, <1>2, <1>6, <1>7, <1>15
  <2>2. v \in Int /\ v = IF z > b.z2 THEN m.end ELSE l
    BY <1>1, <1>9, <1>13
  <2> HIDE DEF v
  <2>3. /\ k \in Walkers /\ k.box = d.box /\ k.flow = d.flow /\ k.end = d.end
        /\ k.x = c /\ k.y = d.y /\ k.z = z /\ k.block = bl /\ k.offset = u /\ k.linear = v
    <3>1. k \in Walkers
      BY <1>6, <1>10, <1>11, <1>13, <2>1, <2>2 DEF Walkers
    <3> QED BY <1>13, <2>1, <3>1 DEF Walkers
  <2>4. l = LinearOf(g, m.x + q, y, m.z)
    BY <1>9 DEF x
  <2> QED BY <1>6, <1>10, <1>11, <1>13, <1>15, <2>2, <2>3, <2>4
<1> QED BY <1>14, <1>15

LEMMA BlockInBox ==
  ASSUME NEW g \in Extents, NEW b, Inside(g, b), NEW y \in b.y1 .. b.y2, NEW z \in b.z1 .. b.z2
  PROVE  ~(BlockOf(g, y, z) >= Blocks(g))
<1>1. /\ b.y1 \in Nat /\ b.y2 \in Nat /\ b.z1 \in Nat /\ b.z2 \in Nat
      /\ b.y2 = b.y1 + YLength(b) - 1 /\ YLength(b) \in Nat \ {0}
  BY InsideIs
<1>2. y \in Nat /\ z \in Nat /\ y - b.y1 \in 0 .. YLength(b) - 1 /\ z + 0 <= b.z2 /\ 0 \in Nat
  BY <1>1
<1>3. y - b.y1 = YLength(b) * 0 + (y - b.y1)
  <2>1. YLength(b) * 0 = 0
    BY <1>1
  <2> QED BY <1>1, <1>2, <2>1
<1> QED BY <1>2, <1>3, BlockIsReached

Down(a, i, n) == a + n * XLength(i.box)

DownAside(i, n) ==
  [i EXCEPT !.y = @ + n, !.linear = @ + n * XLength(i.box), !.offset = @ + n * XLength(i.box)]

LEMMA DownAsideIs ==
  ASSUME NEW i \in Walkers, NEW n \in Nat, XLength(i.box) \in Nat, NEW m, m = DownAside(i, n)
  PROVE  /\ m \in Walkers /\ m.box = i.box /\ m.flow = i.flow /\ m.end = i.end
         /\ m.x = i.x /\ m.y = i.y + n /\ m.z = i.z
         /\ m.block = i.block
         /\ m.offset = Down(i.offset, i, n) /\ m.linear = Down(i.linear, i, n)
<1> DEFINE w == n * XLength(i.box)
           a == i.y + n
           b == i.linear + w
           c == i.offset + w
<1>1. a \in Int /\ b \in Int /\ c \in Int
  <2>1. w \in Int
    OBVIOUS
  <2> HIDE DEF w
  <2> QED BY <2>1, WalkerTypes
<1>2. m = [i EXCEPT !.y = a, !.linear = b, !.offset = c]
  BY DEF DownAside
<1>3. a = i.y + n /\ b = Down(i.linear, i, n) /\ c = Down(i.offset, i, n)
  BY DEF Down
<1> HIDE DEF a, b, c
<1>4. m \in Walkers
  BY <1>1, <1>2 DEF Walkers
<1> QED BY <1>2, <1>3, <1>4 DEF Walkers

AheadYXZ(i, n, q, r, p, s) ==
  LET b == i.box IN Digits(YLength(b), XLength(b), i.y - b.y1, i.x - b.x1, n, q, r, p, s)

(* In the YXZ flow n further is line r, column s and p bands on.           *)
LEMMA GoesYXZ ==
  ASSUME NEW g \in Extents, NEW i, Stands(g, i), NEW b, b = i.box,
         NEW n \in Nat \ {0}, NEW q, NEW r, NEW p, NEW s,
         AheadYXZ(i, n, q, r, p, s),
         NEW k, k = MoveYXZ(g, i, n),
         NEW o, o = Down(i.offset, i, n)
  PROVE  /\ k \in Walkers /\ k.box = b /\ k.flow = i.flow /\ k.end = i.end
         /\ k.x = b.x1 + s /\ k.y = b.y1 + r /\ k.z = i.z + p
         /\ q = 0 => /\ p = 0 /\ k.y = i.y + n /\ k.x = i.x
                     /\ k.linear = Down(i.linear, i, n)
                     /\ \/ /\ ~(o < 0 \/ o >= BlockSize(g, i.block))
                           /\ k.block = i.block /\ k.offset = o
                        \/ /\ o < 0 \/ o >= BlockSize(g, i.block)
                           /\ k.block = BlockOf(g, k.y, k.z)
                           /\ k.offset = IF k.block # i.block THEN k.x ELSE o
         /\ q # 0 => k.block = BlockOf(g, k.y, k.z)
         /\ q # 0 /\ p = 0 =>
              /\ k.linear = LinearOf(g, k.x, k.y, k.z)
              /\ k.offset = IF k.block # i.block THEN k.x ELSE OffsetIn(g, k.x, k.y)
         /\ q # 0 /\ p # 0 =>
              /\ k.linear = IF k.z > b.z2 THEN i.end
                            ELSE LinearOf(g, i.x + q, k.y, i.z)
              /\ k.offset = OffsetIn(g, k.x, k.y)
<1> DEFINE X == XLength(b)
           Y == YLength(b)
           m == DownAside(i, n)
<1>0. Digits(YLength(b), XLength(b), i.y - b.y1, i.x - b.x1, n, q, r, p, s)
  BY DEF AheadYXZ
<1> USE <1>0
<1>1. /\ i \in Walkers /\ Inside(g, b) /\ i.x \in Nat /\ i.y \in Nat /\ i.z \in Nat
      /\ i.x - b.x1 \in 0 .. X - 1 /\ i.y - b.y1 \in 0 .. Y - 1 /\ i.z \in b.z1 .. b.z2
  <2>1. i.z \in b.z1 .. b.z2
    BY DEF Stands, InBox
  <2> QED BY <2>1, StandsIs
<1>2. /\ X \in Nat \ {0} /\ Y \in Nat \ {0} /\ b.x1 \in Nat /\ b.y1 \in Nat /\ b.y2 \in Nat
      /\ b.x2 = b.x1 + X - 1 /\ b.y2 = b.y1 + Y - 1
  BY <1>1, InsideIs
<1>3. /\ q \in Nat /\ r \in 0 .. Y - 1 /\ (i.y - b.y1) + n = Y * q + r
      /\ p \in Nat /\ s \in 0 .. X - 1 /\ (i.x - b.x1) + q = X * p + s
  <2>1. 0 \in Nat /\ n \in Nat
    OBVIOUS
  <2> QED BY <1>1, <1>2, <2>1, CountOn
<1>4. /\ m \in Walkers /\ m.box = b /\ m.flow = i.flow /\ m.end = i.end
      /\ m.x = i.x /\ m.y = i.y + n /\ m.z = i.z
      /\ m.block = i.block /\ m.offset = o /\ m.linear = Down(i.linear, i, n)
  <2>1. i \in Walkers /\ n \in Nat /\ XLength(i.box) \in Nat /\ m = DownAside(i, n)
    BY <1>1, <1>2
  <2> HIDE DEF m
  <2>2. /\ m \in Walkers /\ m.box = i.box /\ m.flow = i.flow /\ m.end = i.end
        /\ m.x = i.x /\ m.y = i.y + n /\ m.z = i.z
        /\ m.block = i.block
        /\ m.offset = Down(i.offset, i, n) /\ m.linear = Down(i.linear, i, n)
    BY <2>1, DownAsideIs
  <2> QED BY <2>2
<1>5. k = CASE m.y > m.box.y2 \/ m.y < m.box.y1 -> MoveXZ(g, m)
            [] m.y \in m.box.y1 .. m.box.y2
               /\ (m.offset < 0 \/ m.offset >= BlockSize(g, m.block)) -> Move2NextBlock(g, m)
            [] OTHER -> m
  BY DEF MoveYXZ, DownAside
<1> HIDE DEF m, X, Y
<1>6. m.y \in Nat /\ ~(m.y < b.y1) /\ m.y - b.y1 = (i.y - b.y1) + n /\ m.y - b.y1 \in Nat
  BY <1>1, <1>2, <1>4
<1>7. (q = 0 <=> m.y <= b.y2) /\ (q = 0 => r = m.y - b.y1)
  <2>1. m.y - b.y1 = Y * q + r
    BY <1>3, <1>6
  <2>2. (q = 0 <=> m.y - b.y1 < Y) /\ (q = 0 => r = m.y - b.y1)
    <3>1. Y \in Nat \ {0} /\ q \in Nat /\ r \in 0 .. Y - 1
      BY <1>2, <1>3
    <3> QED BY <1>6, <2>1, <3>1, CarryIs
  <2> QED BY <1>2, <1>6, <2>2
<1>8. CASE q = 0
  <2>1. p = 0 /\ s = i.x - b.x1
    <3> DEFINE a == i.x - b.x1
    <3>1. a + q = a /\ a \in Nat /\ a < X /\ a = X * p + s
      <4>1. a \in 0 .. X - 1 /\ a + q = X * p + s
        BY <1>1, <1>3
      <4> HIDE DEF a
      <4> QED BY <4>1, <1>8, <1>2
    <3> HIDE DEF a
    <3>2. (p = 0 <=> a < X) /\ (p = 0 => s = a)
      <4>1. X \in Nat \ {0} /\ p \in Nat /\ s \in 0 .. X - 1
        BY <1>2, <1>3
      <4> QED BY <3>1, <4>1, CarryIs
    <3>3. p = 0 /\ s = a
      BY <3>1, <3>2
    <3> QED BY <3>3 DEF a
  <2>2. m.y \in m.box.y1 .. m.box.y2
    BY <1>2, <1>4, <1>6, <1>7, <1>8
  <2>3. m.x = b.x1 + s /\ m.y = b.y1 + r /\ m.z = i.z + p
    BY <1>1, <1>2, <1>4, <1>6, <1>7, <1>8, <2>1
  <2>4. CASE o < 0 \/ o >= BlockSize(g, i.block)
    <3>1. k = Move2NextBlock(g, m)
      <4>1. ~(m.y > m.box.y2 \/ m.y < m.box.y1)
        BY <1>2, <1>4, <1>6, <1>7, <1>8
      <4>2. m.offset < 0 \/ m.offset >= BlockSize(g, m.block)
        BY <1>4, <2>4
      <4> QED BY <1>5, <2>2, <4>1, <4>2
    <3>2. /\ k \in Walkers /\ k.box = m.box /\ k.flow = m.flow /\ k.end = m.end
          /\ k.x = m.x /\ k.y = m.y /\ k.z = m.z
          /\ k.block = BlockOf(g, m.y, m.z)
          /\ k.offset = IF k.block # m.block THEN m.x ELSE m.offset
          /\ k.linear = IF k.block >= Blocks(g) THEN m.end ELSE m.linear
      BY <1>4, <1>6, <3>1, NextBlockIs
    <3>3. ~(BlockOf(g, m.y, m.z) >= Blocks(g))
      BY <1>1, <1>4, <2>2, BlockInBox
    <3> QED BY <1>4, <1>8, <2>1, <2>3, <2>4, <3>2, <3>3
  <2>5. CASE ~(o < 0 \/ o >= BlockSize(g, i.block))
    <3>1. k = m
      <4>1. ~(m.y > m.box.y2 \/ m.y < m.box.y1)
        BY <1>2, <1>4, <1>6, <1>7, <1>8
      <4>2. ~(m.offset < 0 \/ m.offset >= BlockSize(g, m.block))
        BY <1>4, <2>5
      <4> QED BY <1>5, <2>2, <4>1, <4>2
    <3> QED BY <1>4, <1>8, <2>1, <2>3, <2>5, <3>1
  <2> QED BY <2>4, <2>5
<1>9. CASE q # 0
  <2>1. k = MoveXZ(g, m)
    <3>1. m.y > m.box.y2
      BY <1>2, <1>4, <1>6, <1>7, <1>9
    <3>2. ~(m.y \in m.box.y1 .. m.box.y2)
      BY <1>2, <1>4, <1>6, <3>1
    <3> QED BY <1>5, <3>1, <3>2
  <2>2. Split(m.y - b.y1, YLength(b), q, r)
    BY <1>3, <1>6 DEF Split, IsQuotient, Digits, Y
  <2>3. Split((m.x - b.x1) + q, XLength(b), p, s)
    BY <1>3, <1>4 DEF Split, IsQuotient, Digits, X
  <2>5. /\ m.x - b.x1 \in Nat
        /\ XLength(b) \in Nat \ {0} /\ b.x2 = b.x1 + XLength(b) - 1
        /\ YLength(b) \in Nat \ {0} /\ b.x1 \in Nat /\ b.y1 \in Nat
    BY <1>1, <1>2, <1>4 DEF X, Y
  <2>6. ~(BlockOf(g, b.y1 + r, m.z) >= Blocks(g))
    <3>1. b.y1 + r \in b.y1 .. b.y2
      BY <1>2, <1>3
    <3> QED BY <1>1, <1>4, <3>1, BlockInBox
  <2>7. b = m.box
    BY <1>4
  <2>8. /\ k \in Walkers /\ k.box = b /\ k.flow = m.flow /\ k.end = m.end
        /\ k.x = b.x1 + s /\ k.y = b.y1 + r /\ k.z = m.z + p
        /\ k.block = BlockOf(g, k.y, k.z)
        /\ p = 0 => /\ k.linear = LinearOf(g, k.x, k.y, k.z)
                    /\ k.offset = IF k.block # m.block THEN k.x ELSE OffsetIn(g, k.x, k.y)
        /\ p # 0 =>
             /\ k.linear = IF k.z > b.z2 THEN m.end
                           ELSE LinearOf(g, m.x + q, k.y, m.z)
             /\ k.offset = OffsetIn(g, k.x, k.y)
    <3>1. m \in Walkers /\ m.y \in Nat
      BY <1>4, <1>6
    <3>2. Over(g, m, b, q, r, p, s)
      BY <2>2, <2>3, <2>5, <2>6, <2>7, <3>1 DEF Over
    <3> QED BY <2>1, <3>2, OverIs
  <2>9. /\ k \in Walkers /\ k.box = b /\ k.flow = i.flow /\ k.end = i.end
        /\ k.x = b.x1 + s /\ k.y = b.y1 + r /\ k.z = i.z + p
        /\ k.block = BlockOf(g, k.y, k.z)
    BY <1>4, <2>8
  <2>10. p = 0 => /\ k.linear = LinearOf(g, k.x, k.y, k.z)
                  /\ k.offset = IF k.block # i.block THEN k.x ELSE OffsetIn(g, k.x, k.y)
    BY <1>4, <2>8
  <2>11. p # 0 =>
           /\ k.linear = IF k.z > b.z2 THEN i.end
                         ELSE LinearOf(g, i.x + q, k.y, i.z)
           /\ k.offset = OffsetIn(g, k.x, k.y)
    BY <1>4, <2>8
  <2> QED BY <1>9, <2>9, <2>10, <2>11
<1> QED BY <1>8, <1>9

-----------------------------------------------------------------------------
(* The number of a pixel among those of its box.                           *)
Number(A, B, a, b, c) == a + A * (b + B * c)

LEMMA NumberSteps ==
  ASSUME NEW A \in Nat \ {0}, NEW B \in Nat \ {0}, NEW C \in Nat \ {0},
         NEW a \in 0 .. A - 1, NEW b \in 0 .. B - 1, NEW c \in 0 .. C - 1, NEW n \in Nat,
         NEW q, NEW r, NEW p, NEW s, Digits(A, B, a, b, n, q, r, p, s)
  PROVE  /\ Number(A, B, a, b, c) \in Nat /\ A * (B * C) \in Nat
         /\ Number(A, B, a, b, c) < A * (B * C)
         /\ Number(A, B, r, s, c + p) = Number(A, B, a, b, c) + n
         /\ c + p < C <=> Number(A, B, a, b, c) + n < A * (B * C)
<1>1. c \in Nat /\ c < C
  OBVIOUS
<1>2. /\ p \in Nat /\ r \in 0 .. A - 1 /\ s \in 0 .. B - 1
      /\ Number(A, B, r, s, c + p) = Number(A, B, a, b, c) + n
  BY <1>1, CountOn DEF Number
<1>3. /\ Number(A, B, a, b, c) \in Nat /\ A * (B * C) \in Nat
      /\ Number(A, B, a, b, c) < A * (B * C)
  BY <1>1, InVolume DEF Number
<1>4. c + p < C <=> Number(A, B, r, s, c + p) < A * (B * C)
  <2>1. c + p \in Nat
    BY <1>1, <1>2
  <2> QED BY <1>2, <2>1, InVolume DEF Number
<1> QED BY <1>2, <1>3, <1>4

LEMMA LastNumber ==
  ASSUME NEW A \in Nat \ {0}, NEW B \in Nat \ {0}, NEW C \in Nat \ {0}
  PROVE  Number(A, B, A - 1, B - 1, C - 1) = A * (B * C) - 1
<1>1. B * (C - 1) = B * C - B /\ B * C \in Int
  OBVIOUS
<1>2. (B - 1) + B * (C - 1) = B * C - 1
  BY <1>1
<1>3. A * (B * C - 1) = A * (B * C) - A /\ A * (B * C) \in Int
  BY <1>1
<1> QED BY <1>2, <1>3 DEF Number

RankOf(i) == Rank(i.box, i.flow, PixelAt(i))

LEMMA RanksAre ==
  ASSUME NEW i, NEW b, b = i.box
  PROVE  /\ i.flow = "XYZ" =>
              RankOf(i) = Number(XLength(b), YLength(b), i.x - b.x1, i.y - b.y1, i.z - b.z1)
         /\ i.flow = "ZXY" =>
              RankOf(i) = Number(ZLength(b), XLength(b), i.z - b.z1, i.x - b.x1, i.y - b.y1)
         /\ i.flow = "YXZ" =>
              RankOf(i) = Number(YLength(b), XLength(b), i.y - b.y1, i.x - b.x1, i.z - b.z1)
BY DEF RankOf, Rank, PixelAt, Number

LEMMA VolumeIs ==
  ASSUME NEW b, XLength(b) \in Nat \ {0}, YLength(b) \in Nat \ {0}, ZLength(b) \in Nat \ {0}
  PROVE  /\ Volume(b) = XLength(b) * (YLength(b) * ZLength(b))
         /\ Volume(b) = ZLength(b) * (XLength(b) * YLength(b))
         /\ Volume(b) = YLength(b) * (XLength(b) * ZLength(b))
         /\ Volume(b) \in Nat \ {0}
<1> DEFINE X == XLength(b)
           Y == YLength(b)
           Z == ZLength(b)
<1>1. Volume(b) = (X * Y) * Z
  BY DEF Volume
<1> HIDE DEF X, Y, Z
<1>2. X \in Nat \ {0} /\ Y \in Nat \ {0} /\ Z \in Nat \ {0}
  BY DEF X, Y, Z
<1>3. /\ (X * Y) * Z = X * (Y * Z) /\ (X * Y) * Z = Z * (X * Y) /\ (X * Y) * Z = Y * (X * Z)
  BY <1>2
<1>4. X * Y \in Nat \ {0}
  BY <1>2, MulGrows
<1>5. (X * Y) * Z \in Nat \ {0}
  BY <1>2, <1>4, MulGrows
<1> QED BY <1>1, <1>3, <1>5 DEF X, Y, Z

(* A pixel of the box is not after its last one.                           *)
LEMMA LinearInBox ==
  ASSUME NEW g \in Extents, NEW b, Inside(g, b), NEW x, NEW y, NEW z, InBox(b, x, y, z)
  PROVE  /\ LinearOf(g, x, y, z) \in Int
         /\ LinearOf(g, x, y, z) <= LinearOf(g, b.x2, b.y2, b.z2)
<1>1. /\ b.x1 \in Nat /\ b.x2 \in Nat /\ b.y1 \in Nat /\ b.y2 \in Nat
      /\ b.z1 \in Nat /\ b.z2 \in Nat
  BY InsideIs
<1>2. x \in Nat /\ x <= b.x2 /\ y \in Nat /\ y <= b.y2 /\ z \in Nat /\ z <= b.z2
  BY <1>1 DEF InBox
<1> DEFINE u == g.xs * g.ys
<1>3. g.xs \in Nat /\ u \in Nat
  BY ExtentTypes
<1>4. /\ LinearOf(g, x, y, z) = x + g.xs * y + u * z
      /\ LinearOf(g, b.x2, b.y2, b.z2) = b.x2 + g.xs * b.y2 + u * b.z2
  BY DEF LinearOf
<1> HIDE DEF u
<1>5. g.xs * y \in Int /\ g.xs * b.y2 \in Int /\ g.xs * y <= g.xs * b.y2
  BY <1>1, <1>2, <1>3, MulMono
<1>6. u * z \in Int /\ u * b.z2 \in Int /\ u * z <= u * b.z2
  BY <1>1, <1>2, <1>3, MulMono
<1> QED BY <1>1, <1>2, <1>4, <1>5, <1>6

LEMMA AreaOfABand ==
  ASSUME NEW g \in Extents, NEW b, Inside(g, b)
  PROVE  /\ XLength(b) * YLength(b) \in Nat /\ g.xs * g.ys \in Nat
         /\ XLength(b) * YLength(b) <= g.xs * g.ys /\ XLength(b) <= g.xs * g.ys
<1> DEFINE X == XLength(b)
           Y == YLength(b)
<1>1. X \in Nat \ {0} /\ Y \in Nat \ {0} /\ X <= g.xs /\ Y <= g.ys
  BY InsideIs
<1>2. g.xs \in Nat /\ g.ys \in Nat
  BY ExtentTypes
<1> HIDE DEF X, Y
<1>3. X * Y <= X * g.ys /\ X * Y \in Nat /\ X * g.ys \in Int
  BY <1>1, <1>2, MulMono
<1>4. g.ys * X <= g.ys * g.xs /\ g.ys * X \in Int /\ g.ys * g.xs \in Int
  BY <1>1, <1>2, MulMono
<1>5. g.ys * X = X * g.ys /\ g.ys * g.xs = g.xs * g.ys
  BY <1>1, <1>2
<1>6. X <= X * Y
  BY <1>1, MulGrows
<1> QED BY <1>1, <1>3, <1>4, <1>5, <1>6 DEF X, Y

(* The linear positions of a box are at least as many as its pixels.       *)
LEMMA LinearSpan ==
  ASSUME NEW g \in Extents, NEW b, Inside(g, b)
  PROVE  LinearOf(g, b.x1, b.y1, b.z1) + Volume(b) <= LinearOf(g, b.x2, b.y2, b.z2) + 1
<1> DEFINE X == XLength(b)
           Y == YLength(b)
           Z == ZLength(b)
           w == g.xs
           u == g.xs * g.ys
<1>1. /\ X \in Nat \ {0} /\ Y \in Nat \ {0} /\ Z \in Nat \ {0} /\ X <= w /\ Y <= g.ys
      /\ b.x1 \in Nat /\ b.y1 \in Nat /\ b.z1 \in Nat
      /\ b.x2 = b.x1 + (X - 1) /\ b.y2 = b.y1 + (Y - 1) /\ b.z2 = b.z1 + (Z - 1)
  BY InsideIs
<1>2. w \in Nat /\ g.ys \in Nat /\ u \in Nat
  BY ExtentTypes
<1>3. /\ LinearOf(g, b.x1, b.y1, b.z1) = b.x1 + w * b.y1 + u * b.z1
      /\ LinearOf(g, b.x2, b.y2, b.z2) = b.x2 + w * b.y2 + u * b.z2
  BY DEF LinearOf
<1>4. X * Y <= u /\ X * Y \in Nat
  BY AreaOfABand
<1>5. Volume(b) = (X * Y) * Z
  BY DEF Volume
<1> HIDE DEF X, Y, Z, w, u
<1>6. w * b.y2 = w * b.y1 + w * (Y - 1) /\ w * b.y1 \in Int /\ w * (Y - 1) \in Int
  <2>1. Y - 1 \in Int /\ b.y1 \in Int
    BY <1>1
  <2> QED BY <1>1, <1>2, <2>1, MulAdd
<1>7. u * b.z2 = u * b.z1 + u * (Z - 1) /\ u * b.z1 \in Int /\ u * (Z - 1) \in Int
  <2>1. Z - 1 \in Int /\ b.z1 \in Int
    BY <1>1
  <2> QED BY <1>1, <1>2, <2>1, MulAdd
<1>8. X * (Y - 1) <= w * (Y - 1) /\ X * (Y - 1) = X * Y - X
  <2> DEFINE v == Y - 1
  <2>1. v \in Nat
    BY <1>1
  <2>2. X * v = X * Y - X
    BY <1>1
  <2> HIDE DEF v
  <2>3. v * X <= v * w /\ v * X \in Int /\ v * w \in Int
    BY <1>1, <1>2, <2>1, MulMono
  <2>4. v * X = X * v /\ v * w = w * v
    BY <1>1, <1>2, <2>1
  <2> QED BY <2>2, <2>3, <2>4 DEF v
<1>9. (X * Y) * (Z - 1) <= u * (Z - 1) /\ (X * Y) * (Z - 1) = (X * Y) * Z - X * Y
  <2> DEFINE v == Z - 1
             t == X * Y
  <2>1. v \in Nat /\ t \in Nat /\ t <= u
    BY <1>1, <1>4
  <2> HIDE DEF t
  <2>2. t * v = t * Z - t
    BY <1>1, <2>1
  <2> HIDE DEF v
  <2>3. v * t <= v * u /\ v * t \in Int /\ v * u \in Int
    BY <1>2, <2>1, MulMono
  <2>4. v * t = t * v /\ v * u = u * v
    BY <1>2, <2>1
  <2> QED BY <2>2, <2>3, <2>4 DEF v, t
<1>10. (X * Y) * Z \in Int
  BY <1>1
<1> QED BY <1>1, <1>3, <1>4, <1>5, <1>6, <1>7, <1>8, <1>9, <1>10

-----------------------------------------------------------------------------
(* An iterator and its linear position: what is compared with the end is   *)
(* the number of its pixel in the XYZ flow, and not after its pixel in the *)
(* others, so that it reaches the end when no pixel is left.               *)
Final(g, b) == LinearOf(g, b.x2, b.y2, b.z2) + 1

Fits(g, i) ==
  /\ Stands(g, i) /\ i.end = Final(g, i.box)
  /\ i.flow = "XYZ" => i.linear = LinearOf(g, i.box.x1, i.box.y1, i.box.z1) + RankOf(i)
  /\ i.flow # "XYZ" => i.linear <= LinearOf(g, i.x, i.y, i.z)

(* k is n pixels after i, or at the end.                                   *)
Went(g, i, n, k) ==
  /\ k \in Walkers /\ k.box = i.box /\ k.flow = i.flow /\ k.end = i.end
  /\ RankOf(i) + n < Volume(i.box) => Fits(g, k) /\ RankOf(k) = RankOf(i) + n
  /\ ~(RankOf(i) + n < Volume(i.box)) => k.linear = k.end

LEMMA DigitsExist ==
  ASSUME NEW A, NEW B, NEW a, NEW b, NEW n
  PROVE  \E q, r, p, s : Digits(A, B, a, b, n, q, r, p, s)
<1> DEFINE q == (a + n) \div A
           r == (a + n) % A
           p == (b + q) \div B
           s == (b + q) % B
<1>1. Digits(A, B, a, b, n, q, r, p, s)
  BY DEF Digits
<1> HIDE DEF q, r, p, s
<1> QED BY <1>1

LEMMA RankTypes ==
  ASSUME NEW g \in Extents, NEW i, Stands(g, i)
  PROVE  RankOf(i) \in Nat /\ Volume(i.box) \in Nat /\ RankOf(i) < Volume(i.box)
<1> DEFINE b == i.box
           X == XLength(b)
           Y == YLength(b)
           Z == ZLength(b)
           x == i.x - b.x1
           y == i.y - b.y1
           z == i.z - b.z1
<1>1. /\ Inside(g, b) /\ i \in Walkers
      /\ x \in 0 .. X - 1 /\ y \in 0 .. Y - 1 /\ z \in 0 .. Z - 1
  BY StandsIs
<1>2. X \in Nat \ {0} /\ Y \in Nat \ {0} /\ Z \in Nat \ {0}
  BY <1>1, InsideIs
<1>3. /\ Volume(b) = X * (Y * Z) /\ Volume(b) = Z * (X * Y) /\ Volume(b) = Y * (X * Z)
      /\ Volume(b) \in Nat
  BY <1>2, VolumeIs
<1>4. /\ i.flow = "XYZ" => RankOf(i) = Number(X, Y, x, y, z)
      /\ i.flow = "ZXY" => RankOf(i) = Number(Z, X, z, x, y)
      /\ i.flow = "YXZ" => RankOf(i) = Number(Y, X, y, x, z)
  BY RanksAre
<1>5. i.flow \in {"XYZ", "ZXY", "YXZ"}
  BY <1>1, WalkerTypes
<1> HIDE DEF X, Y, Z, x, y, z
<1>6. Number(X, Y, x, y, z) \in Nat /\ Number(X, Y, x, y, z) < X * (Y * Z)
  <2>1. PICK q, r, p, s : Digits(X, Y, x, y, 0, q, r, p, s)
    BY DigitsExist
  <2>2. 0 \in Nat
    OBVIOUS
  <2> QED BY <1>1, <1>2, <2>1, <2>2, NumberSteps
<1>7. Number(Z, X, z, x, y) \in Nat /\ Number(Z, X, z, x, y) < Z * (X * Y)
  <2>1. PICK q, r, p, s : Digits(Z, X, z, x, 0, q, r, p, s)
    BY DigitsExist
  <2>2. 0 \in Nat
    OBVIOUS
  <2> QED BY <1>1, <1>2, <2>1, <2>2, NumberSteps
<1>8. Number(Y, X, y, x, z) \in Nat /\ Number(Y, X, y, x, z) < Y * (X * Z)
  <2>1. PICK q, r, p, s : Digits(Y, X, y, x, 0, q, r, p, s)
    BY DigitsExist
  <2>2. 0 \in Nat
    OBVIOUS
  <2> QED BY <1>1, <1>2, <2>1, <2>2, NumberSteps
<1>9. CASE i.flow = "XYZ"
  BY <1>3, <1>4, <1>6, <1>9
<1>10. CASE i.flow = "ZXY"
  BY <1>3, <1>4, <1>7, <1>10
<1>11. CASE i.flow = "YXZ"
  BY <1>3, <1>4, <1>8, <1>11
<1> QED BY <1>5, <1>9, <1>10, <1>11

LEMMA FitsIs ==
  ASSUME NEW g \in Extents, NEW i, Fits(g, i)
  PROVE  i.linear \in Int /\ i.end \in Int /\ i.linear < i.end
<1> DEFINE b == i.box
           s == LinearOf(g, b.x1, b.y1, b.z1)
           l == LinearOf(g, b.x2, b.y2, b.z2)
           c == LinearOf(g, i.x, i.y, i.z)
           v == Volume(b)
           m == RankOf(i)
<1>1. Stands(g, i) /\ i \in Walkers /\ Inside(g, b) /\ InBox(b, i.x, i.y, i.z)
  BY DEF Fits, Stands
<1>2. i.linear \in Int /\ i.end \in Int
  BY <1>1, WalkerTypes
<1>3. c \in Int /\ c <= l
  BY <1>1, LinearInBox
<1>4. m \in Nat /\ v \in Nat /\ m < v
  BY <1>1, RankTypes
<1>5. s + v <= l + 1
  BY <1>1, LinearSpan
<1>6. s \in Int /\ l \in Int
  <2>1. /\ b.x1 \in Nat /\ b.y1 \in Nat /\ b.z1 \in Nat
        /\ b.x2 \in Nat /\ b.y2 \in Nat /\ b.z2 \in Nat
    BY <1>1, InsideIs
  <2> QED BY <2>1, LinearTypes
<1>7. i.end = l + 1 /\ (i.flow = "XYZ" => i.linear = s + m) /\ (i.flow # "XYZ" => i.linear <= c)
  BY DEF Fits, Final
<1> HIDE DEF b, s, l, c, v, m
<1> QED BY <1>2, <1>3, <1>4, <1>5, <1>6, <1>7

(* The last pixel of a box in every flow                                   *)
LEMMA LastRank ==
  ASSUME NEW g \in Extents, NEW i, Stands(g, i), IsAtEnd(i)
  PROVE  RankOf(i) = Volume(i.box) - 1
<1> DEFINE b == i.box
           X == XLength(b)
           Y == YLength(b)
           Z == ZLength(b)
<1>1. Inside(g, b) /\ i \in Walkers
  BY StandsIs
<1>2. /\ X \in Nat \ {0} /\ Y \in Nat \ {0} /\ Z \in Nat \ {0}
      /\ b.x1 \in Nat /\ b.y1 \in Nat /\ b.z1 \in Nat
      /\ b.x2 = b.x1 + X - 1 /\ b.y2 = b.y1 + Y - 1 /\ b.z2 = b.z1 + Z - 1
  BY <1>1, InsideIs
<1>3. i.x = b.x2 /\ i.y = b.y2 /\ i.z = b.z2
  BY DEF IsAtEnd
<1>4. i.x - b.x1 = X - 1 /\ i.y - b.y1 = Y - 1 /\ i.z - b.z1 = Z - 1
  BY <1>2, <1>3
<1>5. Volume(b) = X * (Y * Z) /\ Volume(b) = Z * (X * Y) /\ Volume(b) = Y * (X * Z)
  BY <1>2, VolumeIs
<1>6. /\ i.flow = "XYZ" => RankOf(i) = Number(X, Y, X - 1, Y - 1, Z - 1)
      /\ i.flow = "ZXY" => RankOf(i) = Number(Z, X, Z - 1, X - 1, Y - 1)
      /\ i.flow = "YXZ" => RankOf(i) = Number(Y, X, Y - 1, X - 1, Z - 1)
  BY <1>4, RanksAre
<1>7. i.flow \in {"XYZ", "ZXY", "YXZ"}
  BY <1>1, WalkerTypes
<1> HIDE DEF X, Y, Z
<1>8. CASE i.flow = "XYZ"
  <2>1. Number(X, Y, X - 1, Y - 1, Z - 1) = X * (Y * Z) - 1
    BY <1>2, LastNumber
  <2> QED BY <1>5, <1>6, <1>8, <2>1
<1>9. CASE i.flow = "ZXY"
  <2>1. Number(Z, X, Z - 1, X - 1, Y - 1) = Z * (X * Y) - 1
    BY <1>2, LastNumber
  <2> QED BY <1>5, <1>6, <1>9, <2>1
<1>10. CASE i.flow = "YXZ"
  <2>1. Number(Y, X, Y - 1, X - 1, Z - 1) = Y * (X * Z) - 1
    BY <1>2, LastNumber
  <2> QED BY <1>5, <1>6, <1>10, <2>1
<1> QED BY <1>7, <1>8, <1>9, <1>10

LEMMA WentXYZ ==
  ASSUME NEW g \in Extents, NEW i, Fits(g, i), i.flow = "XYZ", NEW n \in Nat \ {0},
         NEW k, k = MoveXYZ(g, i, n)
  PROVE  Went(g, i, n, k)
<1> DEFINE b == i.box
           X == XLength(b)
           Y == YLength(b)
           Z == ZLength(b)
           x == i.x - b.x1
           y == i.y - b.y1
           c == i.z - b.z1
           f == LinearOf(g, b.x1, b.y1, b.z1)
<1>1. /\ Stands(g, i) /\ i \in Walkers /\ Inside(g, b)
      /\ i.x \in Nat /\ i.y \in Nat /\ i.z \in Nat
      /\ x \in 0 .. X - 1 /\ y \in 0 .. Y - 1 /\ c \in 0 .. Z - 1
  BY StandsIs DEF Fits
<1>2. /\ X \in Nat \ {0} /\ Y \in Nat \ {0} /\ Z \in Nat \ {0}
      /\ b.x1 \in Nat /\ b.y1 \in Nat /\ b.z1 \in Nat
      /\ b.x2 = b.x1 + X - 1 /\ b.y2 = b.y1 + Y - 1 /\ b.z2 = b.z1 + Z - 1
  BY <1>1, InsideIs
<1>3. PICK q, r, p, s : Digits(X, Y, x, y, n, q, r, p, s)
  BY DigitsExist
<1>4. /\ k \in Walkers /\ k.box = b /\ k.flow = i.flow /\ k.end = i.end
      /\ k.x = b.x1 + r /\ k.y = b.y1 + s /\ k.z = i.z + p
      /\ k.linear = IF k.z > b.z2 THEN i.end ELSE i.linear + n
  <2>1. b = i.box /\ AheadXYZ(i, n, q, r, p, s)
    BY <1>3 DEF AheadXYZ
  <2> HIDE DEF b
  <2> QED BY <1>1, <2>1, GoesXYZ
<1>5. RankOf(i) = Number(X, Y, x, y, c) /\ Volume(b) = X * (Y * Z)
  BY <1>2, RanksAre, VolumeIs
<1>6. i.end = Final(g, b) /\ i.linear = f + RankOf(i) /\ f \in Int
  BY <1>2, LinearTypes DEF Fits
<1>7. n \in Nat
  OBVIOUS
<1> HIDE DEF b, X, Y, Z, x, y, c, f
<1>8. p \in Nat /\ r \in 0 .. X - 1 /\ s \in 0 .. Y - 1
  <2>1. 0 \in Nat
    OBVIOUS
  <2> QED BY <1>1, <1>2, <1>3, <1>7, <2>1, CountOn
<1>9. /\ Number(X, Y, x, y, c) \in Nat
      /\ Number(X, Y, r, s, c + p) = Number(X, Y, x, y, c) + n
      /\ c + p < Z <=> Number(X, Y, x, y, c) + n < X * (Y * Z)
  BY <1>1, <1>2, <1>3, <1>7, NumberSteps
<1>10. k.z > b.z2 <=> ~(c + p < Z)
  BY <1>1, <1>2, <1>4, <1>8 DEF c
<1>11. ASSUME c + p < Z PROVE Fits(g, k) /\ RankOf(k) = RankOf(i) + n
  <2>1. InBox(b, k.x, k.y, k.z)
    BY <1>1, <1>2, <1>4, <1>8, <1>10, <1>11 DEF InBox, c
  <2>2. k.x - b.x1 = r /\ k.y - b.y1 = s /\ k.z - b.z1 = c + p
    BY <1>1, <1>2, <1>4, <1>8 DEF c
  <2>3. RankOf(k) = RankOf(i) + n
    <3>1. RankOf(k) = Number(X, Y, k.x - b.x1, k.y - b.y1, k.z - b.z1)
      BY <1>4, RanksAre DEF X, Y
    <3> QED BY <1>5, <1>9, <2>2, <3>1
  <2>4. k.linear = f + RankOf(k)
    BY <1>4, <1>5, <1>6, <1>9, <1>10, <1>11, <2>3
  <2> QED BY <1>1, <1>4, <1>6, <2>1, <2>3, <2>4 DEF Fits, Stands, f
<1> QED BY <1>4, <1>5, <1>9, <1>10, <1>11 DEF Went, b

LEMMA WentZXY ==
  ASSUME NEW g \in Extents, NEW i, Fits(g, i), i.flow = "ZXY", NEW n \in Nat \ {0},
         NEW k, k = MoveZXY(g, i, n)
  PROVE  Went(g, i, n, k)
<1> DEFINE b == i.box
           X == XLength(b)
           Y == YLength(b)
           Z == ZLength(b)
           x == i.x - b.x1
           c == i.y - b.y1
           z == i.z - b.z1
<1>1. /\ Stands(g, i) /\ i \in Walkers /\ Inside(g, b)
      /\ i.x \in Nat /\ i.y \in Nat /\ i.z \in Nat
      /\ x \in 0 .. X - 1 /\ c \in 0 .. Y - 1 /\ z \in 0 .. Z - 1
  BY StandsIs DEF Fits
<1>2. /\ X \in Nat \ {0} /\ Y \in Nat \ {0} /\ Z \in Nat \ {0}
      /\ b.x1 \in Nat /\ b.y1 \in Nat /\ b.z1 \in Nat
      /\ b.x2 = b.x1 + X - 1 /\ b.y2 = b.y1 + Y - 1 /\ b.z2 = b.z1 + Z - 1
  BY <1>1, InsideIs
<1>3. PICK q, r, p, s : Digits(Z, X, z, x, n, q, r, p, s)
  BY DigitsExist
<1>4. /\ k \in Walkers /\ k.box = b /\ k.flow = i.flow /\ k.end = i.end
      /\ k.x = b.x1 + s /\ k.y = i.y + p /\ k.z = b.z1 + r
      /\ q = 0 => p = 0 /\ k.z = i.z + n /\ s = x /\ k.linear = i.linear + n * X * Y
      /\ q # 0 /\ k.y > b.y2 => k.linear = i.end
      /\ q # 0 /\ ~(k.y > b.y2) => k.linear = LinearOf(g, k.x, k.y, k.z)
  <2>1. b = i.box /\ AheadZXY(i, n, q, r, p, s)
    BY <1>3 DEF AheadZXY
  <2> HIDE DEF b
  <2>2. /\ k \in Walkers /\ k.box = b /\ k.flow = i.flow /\ k.end = i.end
        /\ k.x = b.x1 + s /\ k.y = i.y + p /\ k.z = b.z1 + r
        /\ q = 0 => p = 0 /\ k.z = i.z + n /\ s = i.x - b.x1
                    /\ k.linear = i.linear + n * XLength(b) * YLength(b)
        /\ q # 0 /\ k.y > b.y2 => k.linear = i.end
        /\ q # 0 /\ ~(k.y > b.y2) => k.linear = LinearOf(g, k.x, k.y, k.z)
    BY <1>1, <2>1, GoesZXY
  <2> QED BY <2>2
<1>5. RankOf(i) = Number(Z, X, z, x, c) /\ Volume(b) = Z * (X * Y)
  BY <1>2, RanksAre, VolumeIs
<1>6. i.end = Final(g, b) /\ i.linear <= LinearOf(g, i.x, i.y, i.z)
  BY DEF Fits
<1>7. n \in Nat /\ i.linear \in Int
  BY <1>1, WalkerTypes
<1>8. X * Y \in Nat /\ g.xs * g.ys \in Nat /\ X * Y <= g.xs * g.ys
  BY <1>1, AreaOfABand
<1> HIDE DEF b, X, Y, Z, x, z, c
<1>9. p \in Nat /\ r \in 0 .. Z - 1 /\ s \in 0 .. X - 1
  <2>1. 0 \in Nat
    OBVIOUS
  <2> QED BY <1>1, <1>2, <1>3, <1>7, <2>1, CountOn
<1>10. /\ Number(Z, X, z, x, c) \in Nat
       /\ Number(Z, X, r, s, c + p) = Number(Z, X, z, x, c) + n
       /\ c + p < Y <=> Number(Z, X, z, x, c) + n < Z * (X * Y)
  BY <1>1, <1>2, <1>3, <1>7, NumberSteps
<1>11. k.y > b.y2 <=> ~(c + p < Y)
  BY <1>1, <1>2, <1>4, <1>9 DEF c
<1>12. ASSUME c + p < Y PROVE Fits(g, k) /\ RankOf(k) = RankOf(i) + n
  <2>1. InBox(b, k.x, k.y, k.z)
    BY <1>1, <1>2, <1>4, <1>9, <1>11, <1>12 DEF InBox, c
  <2>2. k.z - b.z1 = r /\ k.x - b.x1 = s /\ k.y - b.y1 = c + p
    BY <1>1, <1>2, <1>4, <1>9 DEF c
  <2>3. RankOf(k) = RankOf(i) + n
    <3>1. RankOf(k) = Number(Z, X, k.z - b.z1, k.x - b.x1, k.y - b.y1)
      BY <1>4, RanksAre DEF X, Z
    <3> QED BY <1>5, <1>10, <2>2, <3>1
  <2>4. k.linear <= LinearOf(g, k.x, k.y, k.z)
    <3>1. CASE q = 0
      <4> DEFINE u == g.xs * g.ys
                 e == n * X * Y
      <4>1. k.x = i.x /\ k.y = i.y /\ k.z = i.z + n /\ k.linear = i.linear + e
        BY <1>1, <1>2, <1>4, <3>1 DEF x
      <4>2. e <= n * u /\ e \in Int /\ n * u \in Int /\ u \in Nat
        <5> DEFINE a == X * Y
        <5>1. e = n * a
          BY <1>2
        <5> HIDE DEF e, a, u
        <5> QED BY <5>1, <1>7, <1>8, MulMono DEF a, u
      <4>3. u * (i.z + n) = u * i.z + n * u /\ u * i.z \in Int
        <5> HIDE DEF u
        <5>1. u * (i.z + n) = u * i.z + u * n /\ u * i.z \in Int
          BY <1>1, <1>7, <4>2, MulAdd
        <5> QED BY <5>1, <1>7, <4>2
      <4>4. /\ LinearOf(g, i.x, i.y, i.z) = i.x + g.xs * i.y + u * i.z
            /\ LinearOf(g, i.x, i.y, i.z + n) = i.x + g.xs * i.y + u * (i.z + n)
        BY DEF LinearOf
      <4>5. g.xs * i.y \in Int
        BY <1>1, ExtentTypes
      <4> HIDE DEF u, e
      <4> QED BY <1>1, <1>6, <1>7, <4>1, <4>2, <4>3, <4>4, <4>5
    <3>2. CASE q # 0
      <4>1. k.linear = LinearOf(g, k.x, k.y, k.z) /\ k.linear \in Int
        BY <1>4, <1>11, <1>12, <3>2, WalkerTypes
      <4> QED BY <4>1
    <3> QED BY <3>1, <3>2
  <2> QED BY <1>1, <1>4, <1>6, <2>1, <2>3, <2>4 DEF Fits, Stands
<1>13. ASSUME ~(c + p < Y) PROVE k.linear = k.end
  <2>1. q # 0
    <3> SUFFICES ASSUME q = 0 PROVE FALSE
      OBVIOUS
    <3>1. p = 0
      BY <1>4
    <3> QED BY <1>1, <1>2, <1>13, <3>1
  <2> QED BY <1>4, <1>11, <1>13, <2>1
<1> QED BY <1>4, <1>5, <1>10, <1>12, <1>13 DEF Went, b

LEMMA WentYXZ ==
  ASSUME NEW g \in Extents, NEW i, Fits(g, i), i.flow = "YXZ", NEW n \in Nat \ {0},
         NEW k, k = MoveYXZ(g, i, n)
  PROVE  Went(g, i, n, k)
<1> DEFINE b == i.box
           X == XLength(b)
           Y == YLength(b)
           Z == ZLength(b)
           x == i.x - b.x1
           y == i.y - b.y1
           c == i.z - b.z1
<1>1. /\ Stands(g, i) /\ i \in Walkers /\ Inside(g, b)
      /\ i.x \in Nat /\ i.y \in Nat /\ i.z \in Nat
      /\ x \in 0 .. X - 1 /\ y \in 0 .. Y - 1 /\ c \in 0 .. Z - 1
  BY StandsIs DEF Fits
<1>2. /\ X \in Nat \ {0} /\ Y \in Nat \ {0} /\ Z \in Nat \ {0} /\ X <= g.xs
      /\ b.x1 \in Nat /\ b.y1 \in Nat /\ b.z1 \in Nat
      /\ b.x2 = b.x1 + X - 1 /\ b.y2 = b.y1 + Y - 1 /\ b.z2 = b.z1 + Z - 1
  BY <1>1, InsideIs
<1>3. PICK q, r, p, s : Digits(Y, X, y, x, n, q, r, p, s)
  BY DigitsExist
<1>4. /\ k \in Walkers /\ k.box = b /\ k.flow = i.flow /\ k.end = i.end
      /\ k.x = b.x1 + s /\ k.y = b.y1 + r /\ k.z = i.z + p
      /\ q = 0 => p = 0 /\ k.y = i.y + n /\ k.x = i.x /\ k.linear = Down(i.linear, i, n)
      /\ q # 0 /\ p = 0 => k.linear = LinearOf(g, k.x, k.y, k.z)
      /\ q # 0 /\ p # 0 =>
           k.linear = IF k.z > b.z2 THEN i.end ELSE LinearOf(g, i.x + q, k.y, i.z)
  <2> DEFINE o == Down(i.offset, i, n)
  <2>1. b = i.box /\ AheadYXZ(i, n, q, r, p, s)
    BY <1>3 DEF AheadYXZ
  <2>2. o = Down(i.offset, i, n)
    OBVIOUS
  <2> HIDE DEF b, o
  <2>3. /\ k \in Walkers /\ k.box = b /\ k.flow = i.flow /\ k.end = i.end
        /\ k.x = b.x1 + s /\ k.y = b.y1 + r /\ k.z = i.z + p
    BY <1>1, <2>1, <2>2, GoesYXZ
  <2>4. q = 0 => p = 0 /\ k.y = i.y + n /\ k.x = i.x /\ k.linear = Down(i.linear, i, n)
    BY <1>1, <2>1, <2>2, GoesYXZ
  <2>5. /\ q # 0 /\ p = 0 => k.linear = LinearOf(g, k.x, k.y, k.z)
        /\ q # 0 /\ p # 0 =>
             k.linear = IF k.z > b.z2 THEN i.end ELSE LinearOf(g, i.x + q, k.y, i.z)
    BY <1>1, <2>1, <2>2, GoesYXZ
  <2> QED BY <2>3, <2>4, <2>5
<1>5. RankOf(i) = Number(Y, X, y, x, c) /\ Volume(b) = Y * (X * Z)
  BY <1>2, RanksAre, VolumeIs
<1>6. i.end = Final(g, b) /\ i.linear <= LinearOf(g, i.x, i.y, i.z)
  BY DEF Fits
<1>7. n \in Nat /\ i.linear \in Int
  BY <1>1, WalkerTypes
<1>8. g.xs * g.ys \in Nat /\ X <= g.xs * g.ys /\ g.xs \in Nat /\ g.ys \in Nat
  BY <1>1, AreaOfABand, ExtentTypes
<1>9. Down(i.linear, i, n) = i.linear + n * X
  BY DEF Down
<1> HIDE DEF b, X, Y, Z, x, y, c
<1>10. /\ p \in Nat /\ q \in Nat /\ r \in 0 .. Y - 1 /\ s \in 0 .. X - 1 /\ x + q = X * p + s
  <2>1. 0 \in Nat
    OBVIOUS
  <2> QED BY <1>1, <1>2, <1>3, <1>7, <2>1, CountOn
<1>11. /\ Number(Y, X, y, x, c) \in Nat
       /\ Number(Y, X, r, s, c + p) = Number(Y, X, y, x, c) + n
       /\ c + p < Z <=> Number(Y, X, y, x, c) + n < Y * (X * Z)
  BY <1>1, <1>2, <1>3, <1>7, NumberSteps
<1>12. k.z > b.z2 <=> ~(c + p < Z)
  BY <1>1, <1>2, <1>4, <1>10 DEF c
<1>13. ASSUME c + p < Z PROVE Fits(g, k) /\ RankOf(k) = RankOf(i) + n
  <2>1. InBox(b, k.x, k.y, k.z)
    BY <1>1, <1>2, <1>4, <1>10, <1>12, <1>13 DEF InBox, c
  <2>2. k.y - b.y1 = r /\ k.x - b.x1 = s /\ k.z - b.z1 = c + p
    <3>1. /\ k.x = b.x1 + s /\ k.y = b.y1 + r /\ k.z = i.z + p
      BY <1>4
    <3>2. /\ b.x1 \in Int /\ b.y1 \in Int /\ b.z1 \in Int /\ i.z \in Int
          /\ r \in Int /\ s \in Int /\ p \in Int
      BY <1>1, <1>2, <1>10
    <3> QED BY <3>1, <3>2 DEF c
  <2>3. RankOf(k) = RankOf(i) + n
    <3>1. RankOf(k) = Number(Y, X, k.y - b.y1, k.x - b.x1, k.z - b.z1)
      BY <1>4, RanksAre DEF X, Y
    <3> QED BY <1>5, <1>11, <2>2, <3>1
  <2>4. k.linear <= LinearOf(g, k.x, k.y, k.z)
    <3> DEFINE u == g.xs * g.ys
               w == g.xs
    <3>1. CASE q = 0
      <4>1. k.x = i.x /\ k.y = i.y + n /\ k.z = i.z /\ k.linear = i.linear + n * X
        BY <1>1, <1>2, <1>4, <1>9, <3>1
      <4>2. n * X <= n * w /\ n * X \in Int /\ n * w \in Int
        <5> HIDE DEF w
        <5>1. w \in Int /\ X \in Int /\ X <= w
          BY <1>2, <1>8 DEF w
        <5> QED BY <5>1, <1>7, MulMono
      <4>3. w * (i.y + n) = w * i.y + n * w /\ w * i.y \in Int
        <5> HIDE DEF w
        <5>1. w \in Int
          BY <1>8 DEF w
        <5>2. w * (i.y + n) = w * i.y + w * n /\ w * i.y \in Int
          BY <1>1, <1>7, <5>1, MulAdd
        <5> QED BY <5>1, <5>2, <1>7
      <4>4. /\ LinearOf(g, i.x, i.y, i.z) = i.x + w * i.y + u * i.z
            /\ LinearOf(g, i.x, i.y + n, i.z) = i.x + w * (i.y + n) + u * i.z
        BY DEF LinearOf
      <4>5. u * i.z \in Int
        BY <1>1, <1>8
      <4> HIDE DEF u, w
      <4> QED BY <1>1, <1>6, <1>7, <4>1, <4>2, <4>3, <4>4, <4>5
    <3>2. CASE q # 0 /\ p = 0
      <4>1. k.linear = LinearOf(g, k.x, k.y, k.z) /\ k.linear \in Int
        BY <1>4, <3>2, WalkerTypes
      <4> QED BY <4>1
    <3>3. CASE q # 0 /\ p # 0
      <4>1. k.linear = LinearOf(g, i.x + q, k.y, i.z)
        BY <1>4, <1>12, <1>13, <3>3
      <4>2. i.x + q = k.x + X * p /\ X * p \in Int /\ k.x \in Int /\ k.y \in Int
        <5>1. X * p \in Int
          BY <1>2, <1>10
        <5>2. i.x + q = b.x1 + (x + q)
          BY <1>1, <1>2, <1>10 DEF x
        <5> QED BY <1>2, <1>4, <1>10, <5>1, <5>2
      <4>3. X * p <= u * p /\ u * p \in Int
        <5>1. u \in Int /\ X \in Int /\ X <= u
          BY <1>2, <1>8
        <5> HIDE DEF u
        <5>2. p * X <= p * u /\ p * X \in Int /\ p * u \in Int
          BY <5>1, <1>10, MulMono
        <5> QED BY <5>1, <5>2, <1>10
      <4>4. u * k.z = u * i.z + u * p /\ u * i.z \in Int
        <5>1. u \in Int
          BY <1>8
        <5> HIDE DEF u
        <5> QED BY <5>1, <1>1, <1>4, <1>10, MulAdd
      <4>5. /\ LinearOf(g, i.x + q, k.y, i.z) = (i.x + q) + w * k.y + u * i.z
            /\ LinearOf(g, k.x, k.y, k.z) = k.x + w * k.y + u * k.z
        BY DEF LinearOf
      <4>6. w * k.y \in Int
        BY <1>8, <4>2
      <4> HIDE DEF u, w
      <4> QED BY <4>1, <4>2, <4>3, <4>4, <4>5, <4>6
    <3> QED BY <3>1, <3>2, <3>3
  <2> QED BY <1>1, <1>4, <1>6, <2>1, <2>3, <2>4 DEF Fits, Stands
<1>14. ASSUME ~(c + p < Z) PROVE k.linear = k.end
  <2>1. p # 0
    <3> SUFFICES ASSUME p = 0 PROVE FALSE
      OBVIOUS
    <3> QED BY <1>1, <1>2, <1>14
  <2>2. q # 0
    BY <1>4, <2>1
  <2> QED BY <1>4, <1>12, <1>14, <2>1, <2>2
<1> QED BY <1>4, <1>5, <1>11, <1>13, <1>14 DEF Went, b

LEMMA MoveWent ==
  ASSUME NEW g \in Extents, NEW i, Fits(g, i), NEW n \in Nat \ {0}, NEW k, k = Move(g, i, n)
  PROVE  Went(g, i, n, k)
<1>1. Stands(g, i) /\ i \in Walkers /\ i.flow \in {"XYZ", "ZXY", "YXZ"}
  BY WalkerTypes DEF Fits, Stands
<1>2. n # 0 /\ n > 0
  OBVIOUS
<1>3. CASE IsAtEnd(i)
  <2>1. k = [i EXCEPT !.linear = i.end]
    BY <1>2, <1>3 DEF Move, ToEnd
  <2>2. k \in Walkers /\ k.box = i.box /\ k.flow = i.flow /\ k.end = i.end /\ k.linear = k.end
    BY <1>1, <2>1 DEF Walkers
  <2>3. ~(RankOf(i) + n < Volume(i.box))
    BY <1>1, <1>3, LastRank, RankTypes
  <2> QED BY <2>2, <2>3 DEF Went
<1>4. CASE ~IsAtEnd(i) /\ i.flow = "XYZ"
  <2>1. k = MoveXYZ(g, i, n)
    BY <1>2, <1>4 DEF Move
  <2> QED BY <1>4, <2>1, WentXYZ
<1>5. CASE ~IsAtEnd(i) /\ i.flow = "ZXY"
  <2>1. k = MoveZXY(g, i, n)
    BY <1>2, <1>5 DEF Move
  <2> QED BY <1>5, <2>1, WentZXY
<1>6. CASE ~IsAtEnd(i) /\ i.flow = "YXZ"
  <2>1. k = MoveYXZ(g, i, n)
    BY <1>2, <1>6 DEF Move
  <2> QED BY <1>6, <2>1, WentYXZ
<1> QED BY <1>1, <1>3, <1>4, <1>5, <1>6

(* A new iterator is at the first pixel of its box.                        *)
LEMMA FirstWalker ==
  ASSUME NEW g \in Extents, NEW c, NEW b, b = Ensure(g, c), Inside(g, b),
         NEW flow \in {"XYZ", "ZXY", "YXZ"}, NEW i, i = Iterator(g, c, flow)
  PROVE  /\ Fits(g, i) /\ InCell(g, i) /\ i.box = b /\ i.flow = flow
         /\ i.x = b.x1 /\ i.y = b.y1 /\ i.z = b.z1 /\ RankOf(i) = 0
         /\ i.linear = LinearOf(g, b.x1, b.y1, b.z1)
<1> DEFINE r == [box |-> b, flow |-> flow, x |-> b.x1, y |-> b.y1, z |-> b.z1,
                 block |-> 0, offset |-> 0, linear |-> 0, end |-> 0]
           bl == CellOf(g, <<r.x, r.y, r.z>>)[1]
           of == CellOf(g, <<r.x, r.y, r.z>>)[2]
           l == LinearOf(g, r.x, r.y, r.z)
           n == LinearOf(g, r.box.x2, r.box.y2, r.box.z2) + 1
<1>1. /\ b.x1 \in Nat /\ b.y1 \in Nat /\ b.z1 \in Nat /\ b \in Boxes
      /\ b.x2 \in Nat /\ b.y2 \in Nat /\ b.z2 \in Nat
      /\ XLength(b) \in Nat \ {0} /\ YLength(b) \in Nat \ {0} /\ ZLength(b) \in Nat \ {0}
  BY InsideIs DEF Inside
<1>2. r.box = b /\ r.flow = flow /\ r.x = b.x1 /\ r.y = b.y1 /\ r.z = b.z1
  OBVIOUS
<1>3. r \in Walkers
  <2>1. b.x1 \in Int /\ b.y1 \in Int /\ b.z1 \in Int /\ 0 \in Int
    BY <1>1
  <2> QED BY <1>1, <2>1 DEF Walkers
<1>4. i = [r EXCEPT !.block = bl, !.offset = of, !.linear = l, !.end = n]
  BY DEF Iterator, InitPosition
<1>5. bl = BlockOf(g, b.y1, b.z1) /\ of = OffsetIn(g, b.x1, b.y1)
  <2>1. bl = BlocksPerBand(g) * b.z1 + b.y1 \div g.maxLines
    BY <1>2, CellIs
  <2>2. of = g.xs * (b.y1 % g.maxLines) + b.x1
    BY <1>2, CellIs
  <2> QED BY <2>1, <2>2 DEF BlockOf, OffsetIn
<1>6. bl \in Int /\ of \in Int
  <2>0. b.x1 \in Int /\ b.y1 \in Nat /\ b.z1 \in Int
    BY <1>1
  <2>1. BlockOf(g, b.y1, b.z1) \in Int
    BY <2>0, BlockIs
  <2>2. OffsetIn(g, b.x1, b.y1) \in Int
    BY <2>0, OffsetIs
  <2> QED BY <1>5, <2>1, <2>2
<1>7. l = LinearOf(g, b.x1, b.y1, b.z1) /\ n = Final(g, b) /\ l \in Int /\ n \in Int
  <2>1. l = LinearOf(g, b.x1, b.y1, b.z1) /\ n = LinearOf(g, b.x2, b.y2, b.z2) + 1
    BY <1>2
  <2>2. LinearOf(g, b.x1, b.y1, b.z1) \in Int /\ LinearOf(g, b.x2, b.y2, b.z2) \in Int
    BY <1>1, LinearTypes
  <2> HIDE DEF l, n
  <2> QED BY <2>1, <2>2 DEF Final
<1> HIDE DEF r, bl, of, l, n
<1>8. /\ i \in Walkers /\ i.box = b /\ i.flow = flow /\ i.x = b.x1 /\ i.y = b.y1 /\ i.z = b.z1
      /\ i.block = bl /\ i.offset = of /\ i.linear = l /\ i.end = n
  <2>1. i \in Walkers
    BY <1>3, <1>4, <1>6, <1>7 DEF Walkers
  <2> QED BY <1>2, <1>3, <1>4, <2>1 DEF Walkers
<1>9. InBox(b, i.x, i.y, i.z)
  BY <1>1, <1>8 DEF InBox, Inside
<1>10. RankOf(i) = 0
  <2>1. i.x - b.x1 = 0 /\ i.y - b.y1 = 0 /\ i.z - b.z1 = 0
    BY <1>1, <1>8
  <2>2. /\ Number(XLength(b), YLength(b), 0, 0, 0) = 0
        /\ Number(ZLength(b), XLength(b), 0, 0, 0) = 0
        /\ Number(YLength(b), XLength(b), 0, 0, 0) = 0
    BY <1>1 DEF Number
  <2>3. b = i.box
    BY <1>8
  <2>4. /\ i.flow = "XYZ" => RankOf(i) = Number(XLength(b), YLength(b), 0, 0, 0)
        /\ i.flow = "ZXY" => RankOf(i) = Number(ZLength(b), XLength(b), 0, 0, 0)
        /\ i.flow = "YXZ" => RankOf(i) = Number(YLength(b), XLength(b), 0, 0, 0)
    BY <2>1, <2>3, RanksAre
  <2> QED BY <1>8, <2>2, <2>4
<1>11. Fits(g, i)
  <2>1. i.linear = LinearOf(g, b.x1, b.y1, b.z1) + RankOf(i)
    BY <1>7, <1>8, <1>10
  <2>2. i.linear <= LinearOf(g, i.x, i.y, i.z)
    BY <1>7, <1>8
  <2> QED BY <1>7, <1>8, <1>9, <2>1, <2>2 DEF Fits, Stands
<1>12. InCell(g, i)
  BY <1>5, <1>8 DEF InCell, BlockOf, OffsetIn
<1> QED BY <1>7, <1>8, <1>10, <1>11, <1>12

(* The end of the walk is one step over all the linear positions ahead.    *)
LEMMA EndOfAWalk ==
  ASSUME NEW g \in Extents, NEW i, Fits(g, i), RankOf(i) = 0,
         i.linear = LinearOf(g, i.box.x1, i.box.y1, i.box.z1)
  PROVE  EndOf(g, i).linear = i.end
<1> DEFINE n == i.end - i.linear
           k == Move(g, i, n)
<1>1. i.linear \in Int /\ i.end \in Int /\ i.linear < i.end
  BY FitsIs
<1>2. n \in Nat \ {0}
  BY <1>1
<1>3. Stands(g, i) /\ Inside(g, i.box) /\ i.end = Final(g, i.box)
  BY DEF Fits, Stands
<1>4. Volume(i.box) \in Nat /\ i.linear + Volume(i.box) <= i.end
  BY <1>3, RankTypes, LinearSpan DEF Final
<1>5. ~(RankOf(i) + n < Volume(i.box))
  BY <1>1, <1>4
<1>6. EndOf(g, i) = k
  BY DEF EndOf
<1> HIDE DEF n, k
<1>7. Went(g, i, n, k)
  BY <1>2, MoveWent DEF k
<1> QED BY <1>5, <1>6, <1>7 DEF Went

-----------------------------------------------------------------------------
(* The cell of an iterator that goes on by one pixel.                      *)
LEMMA OneFurther ==
  ASSUME NEW A \in Nat \ {0}, NEW B \in Nat \ {0}, NEW a \in 0 .. A - 1, NEW b \in 0 .. B - 1,
         NEW q, NEW r, NEW p, NEW s, Digits(A, B, a, b, 1, q, r, p, s)
  PROVE  \/ q = 0 /\ r = a + 1 /\ p = 0 /\ s = b
         \/ q = 1 /\ r = 0 /\ p = 0 /\ s = b + 1
         \/ q = 1 /\ r = 0 /\ p = 1 /\ s = 0
<1>1. /\ q \in Nat /\ r \in 0 .. A - 1 /\ a + 1 = A * q + r
      /\ p \in Nat /\ s \in 0 .. B - 1 /\ b + q = B * p + s
  <2>1. 0 \in Nat /\ 1 \in Nat
    OBVIOUS
  <2> QED BY <2>1, CountOn
<1>2. (q = 0 /\ r = a + 1) \/ (q = 1 /\ r = 0)
  <2>1. CASE q = 0
    <3>1. A * q = 0
      BY <2>1
    <3> QED BY <1>1, <2>1, <3>1
  <2>2. CASE q = 1
    <3>1. A * q = A
      BY <2>2
    <3> QED BY <1>1, <2>2, <3>1
  <2>3. CASE q > 1
    <3>1. A * 1 + A <= A * q /\ A * q \in Int
      <4>1. 1 \in Int /\ q \in Int /\ 1 < q
        BY <1>1, <2>3
      <4> QED BY <1>1, <4>1, MulLess
    <3> QED BY <1>1, <2>3, <3>1
  <2> QED BY <1>1, <2>1, <2>2, <2>3
<1>3. (p = 0 /\ s = b + q) \/ (p = 1 /\ s = 0 /\ q = 1)
  <2>1. CASE p = 0
    <3>1. B * p = 0
      BY <2>1
    <3> QED BY <1>1, <2>1, <3>1
  <2>2. CASE p = 1
    <3>1. B * p = B
      BY <2>2
    <3> QED BY <1>1, <1>2, <2>2, <3>1
  <2>3. CASE p > 1
    <3>1. B * 1 + B <= B * p /\ B * p \in Int
      <4>1. 1 \in Int /\ p \in Int /\ 1 < p
        BY <1>1, <2>3
      <4> QED BY <1>1, <4>1, MulLess
    <3> QED BY <1>1, <1>2, <2>3, <3>1
  <2> QED BY <1>1, <2>1, <2>2, <2>3
<1> QED BY <1>2, <1>3

(* The next line is the next one of its block or the first of another.     *)
LEMMA LineAfter ==
  ASSUME NEW m \in Nat \ {0}, NEW y \in Nat
  PROVE  \/ (y + 1) \div m = y \div m /\ (y + 1) % m = (y % m) + 1 /\ (y % m) + 1 < m
         \/ (y + 1) \div m = (y \div m) + 1 /\ (y + 1) % m = 0 /\ (y % m) + 1 = m
<1> DEFINE q == y \div m
           r == y % m
<1>1. q \in Nat /\ r \in 0 .. m - 1 /\ y = m * q + r
  BY DivMod
<1> HIDE DEF q, r
<1>2. CASE r + 1 < m
  <2>1. y + 1 = m * q + (r + 1) /\ r + 1 \in 0 .. m - 1 /\ y + 1 \in Nat
    BY <1>1, <1>2
  <2>2. q = (y + 1) \div m /\ r + 1 = (y + 1) % m
    BY <1>1, <2>1, DivUnique
  <2> QED BY <1>2, <2>2 DEF q, r
<1>3. CASE r + 1 = m
  <2>1. m * (q + 1) = m * q + m
    BY <1>1
  <2>2. y + 1 = m * (q + 1) + 0 /\ 0 \in 0 .. m - 1 /\ y + 1 \in Nat /\ q + 1 \in Nat
    BY <1>1, <1>3, <2>1
  <2>3. q + 1 = (y + 1) \div m /\ 0 = (y + 1) % m
    BY <1>1, <2>2, DivUnique
  <2> QED BY <1>3, <2>3 DEF q, r
<1> QED BY <1>1, <1>2, <1>3

LEMMA LineBelow ==
  ASSUME NEW g \in Extents, NEW x \in Nat, NEW y \in Nat, NEW z \in Nat
  PROVE  /\ BlockOf(g, y + 1, z) # BlockOf(g, y, z) => OffsetIn(g, x, y + 1) = x
         /\ BlockOf(g, y + 1, z) = BlockOf(g, y, z) =>
              OffsetIn(g, x, y + 1) = OffsetIn(g, x, y) + g.xs
<1> DEFINE m == g.maxLines
           q == y \div m
           r == y % m
           v == (y + 1) \div m
           w == (y + 1) % m
           u == BlocksPerBand(g) * z
<1>1. m \in Nat \ {0} /\ g.xs \in Nat /\ BlocksPerBand(g) \in Nat
  BY ExtentTypes, BlocksAre
<1>2. \/ v = q /\ w = r + 1
      \/ v = q + 1 /\ w = 0
  BY <1>1, LineAfter
<1>3. q \in Nat /\ r \in Nat
  <2>1. q \in Nat /\ r \in 0 .. m - 1
    BY <1>1, DivMod
  <2> QED BY <1>1, <2>1
<1>4. /\ BlockOf(g, y, z) = u + q /\ BlockOf(g, y + 1, z) = u + v
      /\ OffsetIn(g, x, y) = g.xs * r + x /\ OffsetIn(g, x, y + 1) = g.xs * w + x
  BY DEF BlockOf, OffsetIn
<1>5. u \in Int
  BY <1>1
<1> HIDE DEF m, q, r, v, w, u
<1>6. CASE v = q /\ w = r + 1
  <2>1. g.xs * w = g.xs * r + g.xs /\ g.xs * r \in Int
    BY <1>1, <1>3, <1>6
  <2> QED BY <1>1, <1>3, <1>4, <1>5, <1>6, <2>1
<1>7. CASE v = q + 1 /\ w = 0
  <2>1. g.xs * w = 0
    BY <1>1, <1>7
  <2> QED BY <1>1, <1>3, <1>4, <1>5, <1>7, <2>1
<1> QED BY <1>2, <1>6, <1>7

LEMMA SizeOfABlock ==
  ASSUME NEW g \in Extents, NEW y \in 0 .. g.ys - 1, NEW z \in Nat
  PROVE  BlockSize(g, BlockOf(g, y, z))
           = g.xs * Smallest(g.maxLines, g.ys - g.maxLines * (y \div g.maxLines))
<1> DEFINE k == BlocksPerBand(g)
           q == y \div g.maxLines
           b == k * z + q
<1>1. k \in Nat \ {0}
  BY ExtentTypes, BlocksAre
<1>2. q \in 0 .. k - 1
  BY BlocksAre
<1>3. BlockOf(g, y, z) = b
  BY DEF BlockOf
<1>4. BlockSize(g, b) = g.xs * Smallest(g.maxLines, g.ys - g.maxLines * (b % k))
  BY DEF BlockSize
<1> HIDE DEF k, q
<1>5. b \in Nat
  <2>1. k * z \in Nat
    BY <1>1
  <2> QED BY <1>1, <1>2, <2>1
<1>6. b % k = q
  <2>1. b = k * z + q
    OBVIOUS
  <2> HIDE DEF b
  <2> QED BY <1>1, <1>2, <1>5, <2>1, DivUnique
<1> HIDE DEF b
<1> QED BY <1>3, <1>4, <1>6 DEF q

LEMMA InCellMeans ==
  ASSUME NEW g, NEW i
  PROVE  InCell(g, i) <=> i.block = BlockOf(g, i.y, i.z) /\ i.offset = OffsetIn(g, i.x, i.y)
BY DEF InCell, BlockOf, OffsetIn

(* A whole line further down: the line is in the same block, or beyond it. *)
LEMMA EndOfABlock ==
  ASSUME NEW g \in Extents, NEW x \in 0 .. g.xs - 1, NEW y \in Nat, y + 1 < g.ys, NEW z \in Nat,
         NEW o, o = OffsetIn(g, x, y) + g.xs
  PROVE  /\ o \in Nat
         /\ BlockOf(g, y + 1, z) = BlockOf(g, y, z) <=> o < BlockSize(g, BlockOf(g, y, z))
<1> DEFINE m == g.maxLines
           w == g.xs
           q == y \div m
           r == y % m
           e == Smallest(m, g.ys - m * q)
<1>1. m \in Nat \ {0} /\ w \in Nat \ {0} /\ g.ys \in Nat /\ BlocksPerBand(g) \in Nat
  BY ExtentTypes, BlocksAre
<1>2. q \in Nat /\ r \in 0 .. m - 1 /\ y = m * q + r
  BY <1>1, DivMod
<1>3. BlockSize(g, BlockOf(g, y, z)) = w * e
  <2>1. y \in 0 .. g.ys - 1
    BY <1>1
  <2> QED BY <2>1, SizeOfABlock
<1>4. OffsetIn(g, x, y) = w * r + x
  BY DEF OffsetIn
<1>5. BlockOf(g, y + 1, z) = BlockOf(g, y, z) <=> r + 1 < m
  <2> DEFINE v == (y + 1) \div m
             u == BlocksPerBand(g) * z
  <2>1. (v = q /\ r + 1 < m) \/ (v = q + 1 /\ r + 1 = m)
    BY <1>1, LineAfter
  <2>2. BlockOf(g, y, z) = u + q /\ BlockOf(g, y + 1, z) = u + v
    BY DEF BlockOf
  <2>3. u \in Int
    BY <1>1
  <2> HIDE DEF u, v, m, q, r
  <2> QED BY <1>1, <1>2, <2>1, <2>2, <2>3
<1>6. x \in 0 .. w - 1
  OBVIOUS
<1> HIDE DEF w, q, r, m
<1>7. w * r \in Nat /\ w * (r + 1) = w * r + w
  BY <1>1, <1>2
<1>8. e \in Int /\ (r + 1 < m => r + 1 < e) /\ e <= m
  <2>1. m * q \in Int
    BY <1>1, <1>2
  <2>2. g.ys - m * q > r + 1
    BY <1>1, <1>2, <2>1
  <2> QED BY <1>1, <1>2, <2>1, <2>2 DEF Smallest
<1>9. o = w * r + w + x
  BY <1>1, <1>4, <1>6, <1>7 DEF w
<1> HIDE DEF e
<1>10. CASE r + 1 < m
  <2>1. w * (r + 1) + w <= w * e /\ w * e \in Int
    <3>1. r + 1 \in Int /\ r + 1 < e
      BY <1>2, <1>1, <1>8, <1>10
    <3> QED BY <1>1, <1>8, <3>1, MulLess
  <2> QED BY <1>1, <1>3, <1>5, <1>6, <1>7, <1>9, <1>10, <2>1
<1>11. CASE r + 1 = m
  <2>1. w * e <= w * (r + 1) /\ w * e \in Int
    <3>1. r + 1 \in Int /\ e <= r + 1
      BY <1>2, <1>1, <1>8, <1>11
    <3> QED BY <1>1, <1>8, <3>1, MulMono
  <2> QED BY <1>1, <1>3, <1>5, <1>6, <1>7, <1>9, <1>11, <2>1
<1> QED BY <1>1, <1>2, <1>10, <1>11

(* The iterator gives the cell of its pixel: in the ZXY flow always; in    *)
(* the XYZ flow one by one except in the first two lines of later bands,   *)
(* the second of which is read from its block; in the YXZ flow one by one  *)
(* in boxes of the whole width that start with a block.                    *)
Whole(g, b) == b.x1 = 0 /\ b.x2 = g.xs - 1 /\ b.y1 % g.maxLines = 0

AtCell(g, i, n) ==
  /\ i.flow = "ZXY" => InCell(g, i)
  /\ i.flow = "XYZ" /\ n = 1 =>
       /\ i.z <= i.box.z1 \/ i.y > i.box.y1 + 1 => InCell(g, i)
       /\ i.y > i.box.y1 => i.block = BlockOf(g, i.y, i.z)
  /\ i.flow = "YXZ" /\ n = 1 /\ Whole(g, i.box) => InCell(g, i)

LEMMA CellZXY ==
  ASSUME NEW g \in Extents, NEW i, Fits(g, i), i.flow = "ZXY", NEW n \in Nat \ {0},
         AtCell(g, i, n), NEW k, k = MoveZXY(g, i, n), Fits(g, k)
  PROVE  AtCell(g, k, n)
<1> DEFINE b == i.box
<1>1. Stands(g, i) /\ Stands(g, k) /\ i \in Walkers /\ i.x \in Nat /\ i.y \in Nat
  BY StandsIs DEF Fits
<1>2. PICK q, r, p, s : AheadZXY(i, n, q, r, p, s)
  BY DigitsExist DEF AheadZXY
<1>3. /\ k.box = b /\ k.flow = i.flow /\ k.x = b.x1 + s /\ k.y = i.y + p
      /\ q = 0 => /\ p = 0 /\ s = i.x - b.x1
                  /\ k.block = BlockOf(g, i.y, k.z) /\ k.offset = i.offset
      /\ q # 0 /\ ~(k.y > b.y2) =>
              /\ k.block = BlockOf(g, k.y, k.z) /\ k.offset = OffsetIn(g, k.x, k.y)
  <2>1. b = i.box
    OBVIOUS
  <2> HIDE DEF b
  <2> QED BY <1>1, <1>2, <2>1, GoesZXY
<1>4. ~(k.y > b.y2) /\ b.x1 \in Nat
  <2>1. k.y <= k.box.y2 /\ k.y \in Nat /\ k.box.y2 \in Nat /\ k.box.x1 \in Nat
    <3>1. Inside(g, k.box)
      BY <1>1 DEF Stands
    <3> QED BY <1>1, <3>1, StandsIs, InsideIs
  <2> QED BY <1>3, <2>1
<1>5. i.block = BlockOf(g, i.y, i.z) /\ i.offset = OffsetIn(g, i.x, i.y)
  BY InCellMeans DEF AtCell
<1>6. k.block = BlockOf(g, k.y, k.z) /\ k.offset = OffsetIn(g, k.x, k.y)
  <2>1. CASE q = 0
    <3>1. k.x = i.x /\ k.y = i.y
      BY <1>1, <1>3, <1>4, <2>1
    <3> QED BY <1>3, <1>5, <2>1, <3>1
  <2>2. CASE q # 0
    BY <1>3, <1>4, <2>2
  <2> QED BY <2>1, <2>2
<1>7. InCell(g, k)
  BY <1>6, InCellMeans
<1> QED BY <1>3, <1>7 DEF AtCell

LEMMA CellXYZ ==
  ASSUME NEW g \in Extents, NEW i, Fits(g, i), i.flow = "XYZ", AtCell(g, i, 1),
         NEW k, k = MoveXYZ(g, i, 1), Fits(g, k)
  PROVE  AtCell(g, k, 1)
<1> DEFINE b == i.box
           X == XLength(b)
           Y == YLength(b)
           x == i.x - b.x1
           y == i.y - b.y1
<1>1. /\ Stands(g, i) /\ i \in Walkers /\ Inside(g, b)
      /\ i.x \in Nat /\ i.y \in Nat /\ i.z \in Nat
      /\ x \in 0 .. X - 1 /\ y \in 0 .. Y - 1 /\ i.z - b.z1 \in 0 .. ZLength(b) - 1
  BY StandsIs DEF Fits
<1>2. /\ X \in Nat \ {0} /\ Y \in Nat \ {0}
      /\ b.x1 \in Nat /\ b.y1 \in Nat /\ b.z1 \in Nat /\ ZLength(b) \in Nat
  BY <1>1, InsideIs
<1>3. PICK q, r, p, s : Digits(X, Y, x, y, 1, q, r, p, s)
  BY DigitsExist
<1>4. /\ k.box = b /\ k.flow = i.flow
      /\ k.x = b.x1 + r /\ k.y = b.y1 + s /\ k.z = i.z + p
      /\ q = 0 => k.block = i.block /\ k.offset = i.offset + 1
      /\ q # 0 /\ p = 0 =>
           /\ k.block = BlockOf(g, k.y, k.z)
           /\ k.offset = IF k.block # i.block THEN k.x ELSE OffsetIn(g, k.x, k.y)
  <2>1. b = i.box /\ AheadXYZ(i, 1, q, r, p, s)
    BY <1>3 DEF AheadXYZ
  <2>2. 1 \in Nat \ {0}
    OBVIOUS
  <2> HIDE DEF b
  <2> QED BY <1>1, <2>1, <2>2, GoesXYZ
<1>5. /\ i.z <= b.z1 \/ i.y > b.y1 + 1 =>
           i.block = BlockOf(g, i.y, i.z) /\ i.offset = OffsetIn(g, i.x, i.y)
      /\ i.y > b.y1 => i.block = BlockOf(g, i.y, i.z)
  BY InCellMeans DEF AtCell
<1> HIDE DEF b, X, Y, x, y
<1>6. \/ q = 0 /\ r = x + 1 /\ p = 0 /\ s = y
      \/ q = 1 /\ r = 0 /\ p = 0 /\ s = y + 1
      \/ q = 1 /\ r = 0 /\ p = 1 /\ s = 0
  BY <1>1, <1>2, <1>3, OneFurther
<1>7. SUFFICES /\ k.z <= b.z1 \/ k.y > b.y1 + 1 =>
                   k.block = BlockOf(g, k.y, k.z) /\ k.offset = OffsetIn(g, k.x, k.y)
               /\ k.y > b.y1 => k.block = BlockOf(g, k.y, k.z)
  BY <1>4, InCellMeans DEF AtCell
<1>8. CASE q = 0 /\ r = x + 1 /\ p = 0 /\ s = y
  <2>1. k.x = i.x + 1 /\ k.y = i.y /\ k.z = i.z
    BY <1>1, <1>2, <1>4, <1>8 DEF x, y
  <2>2. OffsetIn(g, i.x + 1, i.y) = OffsetIn(g, i.x, i.y) + 1
    <3> DEFINE w == g.xs * (i.y % g.maxLines)
    <3>1. w \in Int
      <4>1. i.y % g.maxLines \in Nat /\ g.xs \in Nat
        BY <1>1, LineTypes
      <4> QED BY <4>1
    <3>2. OffsetIn(g, i.x + 1, i.y) = w + (i.x + 1) /\ OffsetIn(g, i.x, i.y) = w + i.x
      BY DEF OffsetIn
    <3> HIDE DEF w
    <3> QED BY <1>1, <3>1, <3>2
  <2> QED BY <1>4, <1>5, <1>8, <2>1, <2>2
<1>9. CASE q = 1 /\ r = 0 /\ p = 0 /\ s = y + 1
  <2>1. k.x = b.x1 /\ k.y = i.y + 1 /\ k.z = i.z
    BY <1>1, <1>2, <1>4, <1>9 DEF y
  <2>2. /\ k.block = BlockOf(g, k.y, k.z)
        /\ k.offset = IF k.block # i.block THEN k.x ELSE OffsetIn(g, k.x, k.y)
    BY <1>4, <1>9
  <2>3. k.z <= b.z1 \/ k.y > b.y1 + 1 => i.block = BlockOf(g, i.y, i.z)
    BY <1>1, <1>2, <1>5, <2>1
  <2>4. BlockOf(g, i.y + 1, i.z) # BlockOf(g, i.y, i.z) => OffsetIn(g, b.x1, i.y + 1) = b.x1
    BY <1>1, <1>2, LineBelow
  <2> QED BY <2>1, <2>2, <2>3, <2>4
<1>10. CASE q = 1 /\ r = 0 /\ p = 1 /\ s = 0
  <2>1. k.y = b.y1 /\ k.z = i.z + 1
    BY <1>1, <1>2, <1>4, <1>10
  <2>2. b.z1 <= i.z
    BY <1>1, <1>2
  <2> QED BY <1>1, <1>2, <2>1, <2>2
<1> QED BY <1>6, <1>8, <1>9, <1>10

LEMMA CellYXZ ==
  ASSUME NEW g \in Extents, NEW i, Fits(g, i), i.flow = "YXZ", AtCell(g, i, 1),
         NEW k, k = MoveYXZ(g, i, 1), Fits(g, k)
  PROVE  AtCell(g, k, 1)
<1> DEFINE b == i.box
           X == XLength(b)
           Y == YLength(b)
           x == i.x - b.x1
           y == i.y - b.y1
           o == Down(i.offset, i, 1)
<1>1. /\ Stands(g, i) /\ i \in Walkers /\ Inside(g, b)
      /\ i.x \in Nat /\ i.y \in Nat /\ i.z \in Nat
      /\ x \in 0 .. X - 1 /\ y \in 0 .. Y - 1
  BY StandsIs DEF Fits
<1>2. /\ X \in Nat \ {0} /\ Y \in Nat \ {0}
      /\ b.x1 \in Nat /\ b.y1 \in Nat /\ b.x2 = b.x1 + X - 1 /\ b.y2 = b.y1 + Y - 1
      /\ b.y2 < g.ys
  BY <1>1, InsideIs DEF Inside
<1>3. PICK q, r, p, s : Digits(Y, X, y, x, 1, q, r, p, s)
  BY DigitsExist
<1>4. /\ k.box = b /\ k.flow = i.flow
      /\ k.x = b.x1 + s /\ k.y = b.y1 + r /\ k.z = i.z + p
      /\ q = 0 => \/ /\ ~(o < 0 \/ o >= BlockSize(g, i.block))
                     /\ k.block = i.block /\ k.offset = o
                  \/ /\ o < 0 \/ o >= BlockSize(g, i.block)
                     /\ k.block = BlockOf(g, k.y, k.z)
                     /\ k.offset = IF k.block # i.block THEN k.x ELSE o
      /\ q # 0 => k.block = BlockOf(g, k.y, k.z)
      /\ q # 0 /\ p = 0 =>
           k.offset = IF k.block # i.block THEN k.x ELSE OffsetIn(g, k.x, k.y)
      /\ q # 0 /\ p # 0 => k.offset = OffsetIn(g, k.x, k.y)
  <2>1. b = i.box /\ AheadYXZ(i, 1, q, r, p, s)
    BY <1>3 DEF AheadYXZ
  <2>2. 1 \in Nat \ {0} /\ o = Down(i.offset, i, 1)
    OBVIOUS
  <2> HIDE DEF b, o
  <2>3. /\ k.box = b /\ k.flow = i.flow
        /\ k.x = b.x1 + s /\ k.y = b.y1 + r /\ k.z = i.z + p
    BY <1>1, <2>1, <2>2, GoesYXZ
  <2>4. q = 0 => \/ /\ ~(o < 0 \/ o >= BlockSize(g, i.block))
                    /\ k.block = i.block /\ k.offset = o
                 \/ /\ o < 0 \/ o >= BlockSize(g, i.block)
                    /\ k.block = BlockOf(g, k.y, k.z)
                    /\ k.offset = IF k.block # i.block THEN k.x ELSE o
    BY <1>1, <2>1, <2>2, GoesYXZ
  <2>5. /\ q # 0 => k.block = BlockOf(g, k.y, k.z)
        /\ q # 0 /\ p = 0 =>
             k.offset = IF k.block # i.block THEN k.x ELSE OffsetIn(g, k.x, k.y)
        /\ q # 0 /\ p # 0 => k.offset = OffsetIn(g, k.x, k.y)
    BY <1>1, <2>1, <2>2, GoesYXZ
  <2> QED BY <2>3, <2>4, <2>5
<1>5. Whole(g, b) => i.block = BlockOf(g, i.y, i.z) /\ i.offset = OffsetIn(g, i.x, i.y)
  BY InCellMeans DEF AtCell
<1>6. Whole(g, b) => b.x1 = 0 /\ X = g.xs /\ b.y1 % g.maxLines = 0
  <2>1. Whole(g, b) => b.x1 = 0 /\ b.x2 = g.xs - 1 /\ b.y1 % g.maxLines = 0
    BY DEF Whole
  <2>2. g.xs \in Nat
    BY ExtentTypes
  <2> HIDE DEF X, b
  <2>3. b.x1 = 0 /\ b.x2 = g.xs - 1 => X = g.xs
    BY <1>2, <2>2
  <2> QED BY <2>1, <2>3
<1>7. o = i.offset + X
  <2>1. 1 * X = X
    BY <1>2
  <2> QED BY <2>1 DEF Down
<1> HIDE DEF b, X, Y, x, y, o
<1>8. \/ q = 0 /\ r = y + 1 /\ p = 0 /\ s = x
      \/ q = 1 /\ r = 0 /\ p = 0 /\ s = x + 1
      \/ q = 1 /\ r = 0 /\ p = 1 /\ s = 0
  BY <1>1, <1>2, <1>3, OneFurther
<1>9. SUFFICES ASSUME Whole(g, b)
               PROVE  k.block = BlockOf(g, k.y, k.z) /\ k.offset = OffsetIn(g, k.x, k.y)
  BY <1>4, InCellMeans DEF AtCell
<1>10. CASE q = 0 /\ r = y + 1 /\ p = 0 /\ s = x
  <2>1. k.x = i.x /\ k.y = i.y + 1 /\ k.z = i.z
    BY <1>1, <1>2, <1>4, <1>10 DEF x, y
  <2>2. i.y + 1 < g.ys /\ i.x \in 0 .. g.xs - 1
    <3>1. r \in 0 .. Y - 1
      <4>1. 0 \in Nat /\ 1 \in Nat
        OBVIOUS
      <4> QED BY <1>1, <1>2, <1>3, <4>1, CountOn
    <3>2. g.ys \in Nat /\ g.xs \in Nat
      BY ExtentTypes
    <3> QED BY <1>1, <1>2, <1>6, <1>9, <1>10, <3>1, <3>2 DEF x, y
  <2>3. o = OffsetIn(g, i.x, i.y) + g.xs
    BY <1>5, <1>6, <1>7, <1>9
  <2>4. /\ o \in Nat
        /\ BlockOf(g, i.y + 1, i.z) = BlockOf(g, i.y, i.z)
             <=> o < BlockSize(g, BlockOf(g, i.y, i.z))
    BY <1>1, <2>2, <2>3, EndOfABlock
  <2>5. /\ BlockOf(g, i.y + 1, i.z) # BlockOf(g, i.y, i.z) => OffsetIn(g, i.x, i.y + 1) = i.x
        /\ BlockOf(g, i.y + 1, i.z) = BlockOf(g, i.y, i.z) => OffsetIn(g, i.x, i.y + 1) = o
    BY <1>1, <2>3, LineBelow
  <2>6. BlockSize(g, BlockOf(g, i.y, i.z)) \in Int
    <3>1. i.y \in 0 .. g.ys - 1
      BY <1>1, <2>2, ExtentTypes
    <3>2. BlockSize(g, BlockOf(g, i.y, i.z))
            = g.xs * Smallest(g.maxLines, g.ys - g.maxLines * (i.y \div g.maxLines))
      BY <1>1, <3>1, SizeOfABlock
    <3> DEFINE e == Smallest(g.maxLines, g.ys - g.maxLines * (i.y \div g.maxLines))
               d == i.y \div g.maxLines
    <3>3. d \in Nat /\ g.maxLines \in Nat /\ g.ys \in Nat /\ g.xs \in Nat
      BY <1>1, LineTypes, ExtentTypes
    <3>4. e \in Int
      <4> HIDE DEF d
      <4>1. g.maxLines * d \in Int
        BY <3>3
      <4> QED BY <3>3, <4>1 DEF Smallest, d
    <3> HIDE DEF e
    <3> QED BY <3>2, <3>3, <3>4 DEF e
  <2>7. CASE BlockOf(g, i.y + 1, i.z) = BlockOf(g, i.y, i.z)
    <3>1. ~(o < 0 \/ o >= BlockSize(g, i.block))
      BY <1>5, <1>9, <2>4, <2>6, <2>7
    <3> QED BY <1>4, <1>5, <1>9, <1>10, <2>1, <2>5, <2>7, <3>1
  <2>8. CASE BlockOf(g, i.y + 1, i.z) # BlockOf(g, i.y, i.z)
    <3>1. o < 0 \/ o >= BlockSize(g, i.block)
      BY <1>5, <1>9, <2>4, <2>6, <2>8
    <3> QED BY <1>4, <1>5, <1>9, <1>10, <2>1, <2>5, <2>8, <3>1
  <2> QED BY <2>7, <2>8
<1>11. CASE q = 1 /\ r = 0 /\ p = 0 /\ s = x + 1
  <2>1. k.y = b.y1 /\ k.x \in Int
    BY <1>1, <1>2, <1>4, <1>11
  <2>2. OffsetIn(g, k.x, k.y) = k.x
    <3>1. g.xs * 0 = 0
      BY ExtentTypes
    <3> QED BY <1>6, <1>9, <2>1, <3>1 DEF OffsetIn
  <2> QED BY <1>4, <1>11, <2>2
<1>12. CASE q = 1 /\ r = 0 /\ p = 1 /\ s = 0
  BY <1>4, <1>12
<1> QED BY <1>8, <1>10, <1>11, <1>12

LEMMA MoveCell ==
  ASSUME NEW g \in Extents, NEW i, Fits(g, i), NEW n \in Nat \ {0}, AtCell(g, i, n),
         NEW k, k = Move(g, i, n), Fits(g, k), ~IsAtEnd(i)
  PROVE  AtCell(g, k, n)
<1>1. i.flow \in {"XYZ", "ZXY", "YXZ"} /\ k.flow = i.flow
  <2>1. Went(g, i, n, k)
    BY MoveWent
  <2> QED BY <2>1, WalkerTypes DEF Fits, Stands, Went
<1>2. n # 0 /\ n > 0
  OBVIOUS
<1>3. CASE i.flow = "ZXY"
  <2>1. k = MoveZXY(g, i, n)
    BY <1>2, <1>3 DEF Move
  <2> QED BY <1>3, <2>1, CellZXY
<1>4. CASE i.flow = "XYZ" /\ n = 1
  <2>1. k = MoveXYZ(g, i, 1)
    BY <1>2, <1>4 DEF Move
  <2>2. AtCell(g, k, 1)
    BY <1>4, <2>1, CellXYZ
  <2> QED BY <1>4, <2>2
<1>5. CASE i.flow = "YXZ" /\ n = 1
  <2>1. k = MoveYXZ(g, i, 1)
    BY <1>2, <1>5 DEF Move
  <2>2. AtCell(g, k, 1)
    BY <1>5, <2>1, CellYXZ
  <2> QED BY <1>5, <2>2
<1>6. CASE i.flow # "ZXY" /\ n # 1
  BY <1>1, <1>6 DEF AtCell
<1> QED BY <1>1, <1>3, <1>4, <1>5, <1>6

-----------------------------------------------------------------------------
(* The iterators of the tasks, in any flow *)

WalksOn(j, i, e) ==
  /\ i \in Walkers /\ i.flow = j.flow /\ Inside(j.grid, i.box) /\ i.end = e
  /\ i.linear # i.end => Fits(j.grid, i) /\ AtCell(j.grid, i, j.n)

Walks ==
  /\ it = [t \in Tasks |-> it[t]] /\ endAt = [t \in Tasks |-> endAt[t]]
  /\ \A t \in DOMAIN boxes : InRaster(job.grid, Ensure(job.grid, boxes[t]))
  /\ \A t \in Tasks : Made(t) => WalksOn(job, it[t], endAt[t])

LEMMA DividedBoxIs ==
  ASSUME job \in Jobs, NEW t \in 1 .. NumberOfTasks,
         NEW b, b = SubdivideTasks(job.grid, NumberOfTasks)[t]
  PROVE  InRaster(job.grid, Ensure(job.grid, b))
<1> DEFINE g == job.grid
           e == Ensure(g, b)
<1>1. /\ b = BoxOf(0, (t - 1) * LineStep, 0, g.xs - 1,
                   Smallest(g.ys - 1, t * LineStep), g.zs)
      /\ b.y1 \in Nat /\ b.y2 \in Nat /\ b.y1 <= b.y2 /\ b.y2 <= g.ys - 1
  BY BoxIs
<1>2. g.xs \in Nat \ {0} /\ g.ys \in Nat \ {0} /\ g.zs \in Nat \ {0}
  BY JobTypes
<1>3. b.x1 = 0 /\ b.x2 = g.xs - 1 /\ b.z1 = 0 /\ b.z2 = g.zs
  BY <1>1 DEF BoxOf
<1>4. b \in Boxes
  <2>1. b = BoxOf(b.x1, b.y1, b.z1, b.x2, b.y2, b.z2)
    BY <1>1 DEF BoxOf
  <2> HIDE DEF g
  <2> QED BY <1>1, <1>2, <1>3, <2>1 DEF BoxOf, Boxes
<1>5. XLength(b) = g.xs /\ YLength(b) <= g.ys /\ ZLength(b) = g.zs + 1
  <2> HIDE DEF g
  <2> QED BY <1>1, <1>2, <1>3 DEF XLength, YLength, ZLength
<1>6. YLength(b) \in Int
  BY <1>1 DEF YLength
<1>7. /\ e \in Boxes /\ e.x1 = 0 /\ e.x2 = g.xs - 1 /\ e.y1 = b.y1 /\ e.y2 = b.y2
      /\ e.z1 = 0 /\ e.z2 = g.zs - 1
  <2>1. ~(XLength(b) > g.xs) /\ ~(YLength(b) > g.ys) /\ ZLength(b) > g.zs
    <3> HIDE DEF g
    <3> QED BY <1>2, <1>5, <1>6
  <2>2. e = [b EXCEPT !.x2 = b.x2, !.y2 = b.y2, !.z2 = g.zs - 1]
    BY <2>1 DEF Ensure
  <2>3. g.zs - 1 \in Int /\ b.x2 \in Int /\ b.y2 \in Int
    BY <1>1, <1>2, <1>3
  <2> HIDE DEF e, g
  <2> QED BY <1>3, <1>4, <2>2, <2>3 DEF Boxes
<1> HIDE DEF g, e
<1>8. InRaster(g, e)
  BY <1>1, <1>2, <1>7 DEF InRaster
<1> QED BY <1>8 DEF g, e

LEMMA InitWalks == Init => Walks
BY DEF Init, Walks, Made

LEMMA ExecuteWalks ==
  ASSUME OwnBoxesInside, Control, Walks, Execute
  PROVE  Walks'
<1>1. /\ UNCHANGED <<job, it, endAt>>
      /\ boxes' = IF job.own # None THEN <<job.own>> ELSE SubdivideTasks(job.grid, NumberOfTasks)
      /\ state' = [t \in Tasks |-> IF t \in DOMAIN boxes' THEN "new" ELSE "none"]
  BY DEF Execute
<1>2. \A t \in Tasks : ~Made(t)'
  BY <1>1 DEF Made
<1>3. job \in Jobs
  BY DEF Control
<1>4. ASSUME NEW t \in DOMAIN boxes'
      PROVE  InRaster(job.grid, Ensure(job.grid, boxes'[t]))
  <2>1. CASE job.own # None
    <3>1. boxes'[t] = job.own
      BY <1>1, <2>1
    <3> QED BY <1>3, <2>1, <3>1 DEF OwnBoxesInside
  <2>2. CASE job.own = None
    <3>1. t \in 1 .. NumberOfTasks /\ boxes' = SubdivideTasks(job.grid, NumberOfTasks)
      BY <1>1, <1>3, <2>2, DividedDomain
    <3> QED BY <1>3, <3>1, DividedBoxIs
  <2> QED BY <2>1, <2>2
<1> QED BY <1>1, <1>2, <1>4 DEF Walks, Tasks

LEMMA BeginWalks ==
  ASSUME Control, Walks, NEW t \in Tasks, Begin(t)
  PROVE  /\ Walks'
         /\ Made(t)' => RankOf(it'[t]) = 0 /\ it'[t].linear # it'[t].end
<1> DEFINE new == Iterator(job.grid, boxes[t], job.flow)
           block == IF job.kind = "pixels" THEN None
                    ELSE Iterator(job.input, InputBox(boxes[t]), "XYZ")
           valid == IsValid(new) /\ (block = None \/ IsValid(block))
           e == EndOf(job.grid, new).linear
           b == Ensure(job.grid, boxes[t])
<1>1. state[t] = "new" /\ UNCHANGED <<job, boxes>> /\ job \in Jobs /\ state \in [Tasks -> States]
  BY DEF Begin, Control
<1>2. /\ valid => /\ it' = [it EXCEPT ![t] = new] /\ endAt' = [endAt EXCEPT ![t] = e]
                  /\ state' = [state EXCEPT ![t] = "walks"]
      /\ ~valid => state' = [state EXCEPT ![t] = "threw"] /\ UNCHANGED <<it, endAt>>
  BY DEF Begin
<1>3. t \in DOMAIN boxes /\ InRaster(job.grid, b)
  BY <1>1 DEF Control, Walks
<1>4. valid => b.x1 < b.x2 /\ b.y1 < b.y2
  BY IteratorBox
<1> HIDE DEF valid
<1>5. CASE ~valid
  <2>1. ~Made(t)' /\ \A s \in Tasks : s # t => (Made(s)' <=> Made(s))
    BY <1>1, <1>2, <1>5 DEF Made
  <2> QED BY <1>1, <1>2, <1>5, <2>1 DEF Walks, Tasks
<1>6. CASE valid
  <2>1. Inside(job.grid, b)
    BY <1>3, <1>4, <1>6 DEF Inside, InRaster
  <2>2. job.grid \in Extents /\ job.flow \in {"XYZ", "ZXY", "YXZ"}
    BY <1>1, JobsAssumption
  <2> DEFINE g == job.grid
  <2>3. /\ Fits(g, new) /\ InCell(g, new) /\ new.box = b /\ new.flow = job.flow
        /\ RankOf(new) = 0 /\ new.linear = LinearOf(g, b.x1, b.y1, b.z1)
        /\ new.x = b.x1 /\ new.y = b.y1 /\ new.z = b.z1
    BY <2>1, <2>2, FirstWalker
  <2>4. e = new.end
    BY <2>2, <2>3, EndOfAWalk
  <2>5. new \in Walkers /\ new.linear # new.end
    BY <2>2, <2>3, FitsIs DEF Fits, Stands
  <2>6. AtCell(g, new, job.n)
    BY <2>3, InCellMeans DEF AtCell
  <2> HIDE DEF new, b, e, g
  <2>7. WalksOn(job, new, e)
    BY <2>1, <2>3, <2>4, <2>5, <2>6 DEF WalksOn, g
  <2>8. /\ it'[t] = new /\ endAt'[t] = e
        /\ \A s \in Tasks : s # t => it'[s] = it[s] /\ endAt'[s] = endAt[s]
    BY <1>2, <1>6 DEF Walks
  <2>9. \A s \in Tasks : s # t => (Made(s)' <=> Made(s))
    BY <1>1, <1>2, <1>6 DEF Made
  <2>10. it' = [s \in Tasks |-> it'[s]] /\ endAt' = [s \in Tasks |-> endAt'[s]]
    BY <1>2, <1>6 DEF Walks
  <2>11. \A s \in Tasks : Made(s)' => WalksOn(job, it'[s], endAt'[s])
    BY <2>7, <2>8, <2>9 DEF Walks
  <2> QED BY <1>1, <2>3, <2>5, <2>8, <2>10, <2>11 DEF Walks, Tasks
<1> QED BY <1>5, <1>6

LEMMA WriteWalks ==
  ASSUME Control, Walks, NEW t \in Tasks, NEW v, Write(t, v)
  PROVE  /\ Walks'
         /\ Made(t) /\ Made(t)' /\ Fits(job.grid, it[t]) /\ Went(job.grid, it[t], job.n, it'[t])
<1> DEFINE g == job.grid
           i == it[t]
           k == Move(g, i, job.n)
<1>1. /\ state[t] = "walks" /\ i.linear # endAt[t] /\ UNCHANGED <<job, boxes, endAt, state>>
      /\ it' = [it EXCEPT ![t] = k]
  BY DEF Write, AtEnd
<1>2. g \in Extents /\ job.n \in Nat \ {0}
  BY JobsAssumption DEF Control
<1>3. Made(t) /\ WalksOn(job, i, endAt[t])
  BY <1>1 DEF Made, Walks
<1>4. /\ i \in Walkers /\ i.flow = job.flow /\ Inside(g, i.box) /\ i.end = endAt[t]
      /\ Fits(g, i) /\ AtCell(g, i, job.n)
  BY <1>1, <1>3 DEF WalksOn
<1>5. Went(g, i, job.n, k)
  BY <1>2, <1>4, MoveWent
<1>6. k \in Walkers /\ k.box = i.box /\ k.flow = i.flow /\ k.end = i.end
  BY <1>5 DEF Went
<1>7. ASSUME k.linear # k.end PROVE Fits(g, k) /\ AtCell(g, k, job.n)
  <2>1. Fits(g, k)
    BY <1>5, <1>7 DEF Went
  <2>2. ~IsAtEnd(i)
    <3> SUFFICES ASSUME IsAtEnd(i) PROVE FALSE
      OBVIOUS
    <3>1. k = [i EXCEPT !.linear = i.end]
      BY <1>2 DEF Move, ToEnd
    <3>2. k.linear = k.end
      BY <1>4, <3>1 DEF Walkers
    <3> QED BY <1>7, <3>2
  <2>3. AtCell(g, k, job.n)
    BY <1>2, <1>4, <2>1, <2>2, MoveCell
  <2> QED BY <2>1, <2>3
<1> HIDE DEF k, i, g
<1>8. WalksOn(job, k, endAt[t])
  BY <1>4, <1>6, <1>7 DEF WalksOn, g
<1>9. it'[t] = k /\ \A s \in Tasks : s # t => it'[s] = it[s]
  BY <1>1 DEF Walks
<1>10. it' = [s \in Tasks |-> it'[s]]
  BY <1>1 DEF Walks
<1>11. \A s \in Tasks : Made(s)' <=> Made(s)
  BY <1>1 DEF Made
<1>12. \A s \in Tasks : Made(s)' => WalksOn(job, it'[s], endAt[s])
  BY <1>8, <1>9, <1>11 DEF Walks
<1>13. Walks'
  BY <1>1, <1>10, <1>12 DEF Walks, Tasks
<1> QED BY <1>3, <1>4, <1>5, <1>9, <1>11, <1>13 DEF g, i

LEMMA NextWalks == OwnBoxesInside /\ Control /\ Walks /\ [Next]_vars => Walks'
<1> SUFFICES ASSUME OwnBoxesInside, Control, Walks, [Next]_vars PROVE Walks'
  OBVIOUS
<1>1. ASSUME NEW t \in Tasks, Step(t) \/ FilterStep(t) \/ AggregateStep(t)
      PROVE  Walks'
  BY <1>1, WriteWalks DEF Step, FilterStep, AggregateStep
<1>2. ASSUME NEW t \in Tasks, Finish(t)
      PROVE  Walks'
  <2>1. /\ state[t] = "walks" /\ state' = [state EXCEPT ![t] = "done"]
        /\ UNCHANGED <<job, boxes, it, endAt>>
    BY <1>2 DEF Finish
  <2>2. \A s \in Tasks : Made(s)' <=> Made(s)
    BY <2>1 DEF Made, Control
  <2> QED BY <2>1, <2>2 DEF Walks, Tasks
<1>3. ASSUME UNCHANGED <<job, boxes, it, endAt, state>>
      PROVE  Walks'
  BY <1>3 DEF Walks, Made, Tasks
<1>4. CASE Join \/ Ended \/ UNCHANGED vars
  BY <1>3, <1>4 DEF Join, Ended, vars
<1> QED BY <1>1, <1>2, <1>4, ExecuteWalks, BeginWalks DEF Next

LEMMA WalksAlways == OwnBoxesInside => (Spec => []Walks)
<1> SUFFICES ASSUME OwnBoxesInside PROVE Spec => []Walks
  OBVIOUS
<1>1. Control /\ Walks /\ [Next]_vars => Walks'
  BY NextWalks
<1> QED BY <1>1, InitWalks, ControlAlways, PTL DEF Spec

(* The cell that an iterator gives is the cell of the pixel it stands at: in the    *)
(* ZXY flow always, in the XYZ flow except in the first two lines of the second and *)
(* later bands, in the YXZ flow in boxes of the whole width that start with a block *)
(* (pixeliterator.cpp: move, moveXYZ, moveYXZ, moveZXY, move2NextBlock).            *)
THEOREM IteratorsGiveTheirCells == OwnBoxesInside => (Spec => []CellOfThePixel)
<1>1. Walks => CellOfThePixel
  <2> SUFFICES ASSUME Walks, NEW t \in Tasks, Walking(t),
                      \/ job.flow = "ZXY"
                      \/ job.flow = "XYZ" /\ job.n = 1 /\ ~FirstLinesOfABand(t)
                      \/ job.flow = "YXZ" /\ job.n = 1 /\ FullWidth(t)
               PROVE  CellAt(it[t]) = CellOf(job.grid, PixelAt(it[t]))
    BY DEF CellOfThePixel
  <2>1. it[t].linear # endAt[t] /\ Made(t)
    BY DEF Walking, AtEnd, Made
  <2>2. WalksOn(job, it[t], endAt[t])
    BY <2>1 DEF Walks
  <2> DEFINE g == job.grid
             i == it[t]
  <2>3. Fits(g, i) /\ AtCell(g, i, job.n) /\ i.flow = job.flow
    BY <2>1, <2>2 DEF WalksOn
  <2>4. InCell(g, i)
    <3>1. CASE job.flow = "ZXY"
      BY <2>3, <3>1 DEF AtCell
    <3>2. CASE job.flow = "XYZ" /\ job.n = 1 /\ ~FirstLinesOfABand(t)
      <4>1. i.z \in Int /\ i.y \in Int /\ i.box.z1 \in Int /\ i.box.y1 \in Int
        BY <2>3, WalkerTypes DEF Fits, Stands, Boxes
      <4>2. i.z <= i.box.z1 \/ i.y > i.box.y1 + 1
        BY <3>2, <4>1 DEF FirstLinesOfABand
      <4> QED BY <2>3, <3>2, <4>2 DEF AtCell
    <3>3. CASE job.flow = "YXZ" /\ job.n = 1 /\ FullWidth(t)
      <4>1. Whole(g, i.box)
        BY <3>3 DEF FullWidth, Whole
      <4> QED BY <2>3, <3>3, <4>1 DEF AtCell
    <3> QED BY <3>1, <3>2, <3>3
  <2> QED BY <2>4, InCellIs
<1> SUFFICES ASSUME OwnBoxesInside PROVE Spec => []CellOfThePixel
  OBVIOUS
<1>2. Spec => []Walks
  BY WalksAlways
<1> QED BY <1>1, <1>2, PTL

-----------------------------------------------------------------------------
(* The walk of a task *)

LEMMA LeftIs ==
  ASSUME job \in Jobs, NEW t \in Tasks, Made(t), WalksOn(job, it[t], endAt[t])
  PROVE  /\ Size(t) = Volume(it[t].box) /\ Size(t) \in Nat \ {0}
         /\ it[t].linear = it[t].end => Left(t) = 0
         /\ it[t].linear # it[t].end => /\ Left(t) = Size(t) - RankOf(it[t])
                                        /\ RankOf(it[t]) \in Nat /\ RankOf(it[t]) < Size(t)
<1> DEFINE i == it[t]
<1>1. job.grid \in Extents /\ Inside(job.grid, i.box) /\ i.flow = job.flow
  BY JobTypes DEF WalksOn
<1>2. Size(t) = Volume(i.box)
  BY DEF Size
<1>3. Volume(i.box) \in Nat \ {0}
  BY <1>1, InsideIs, VolumeIs
<1>4. i.linear = i.end => Left(t) = 0
  BY DEF Left
<1>5. ASSUME i.linear # i.end
      PROVE  Left(t) = Size(t) - RankOf(i) /\ RankOf(i) \in Nat /\ RankOf(i) < Size(t)
  <2>1. Left(t) = Volume(i.box) - RankOf(i)
    BY <1>1, <1>5 DEF Left, RankOf
  <2>2. Stands(job.grid, i)
    BY <1>5 DEF WalksOn, Fits
  <2>3. RankOf(i) \in Nat /\ RankOf(i) < Volume(i.box)
    BY <1>1, <2>2, RankTypes
  <2> QED BY <1>2, <2>1, <2>3
<1> QED BY <1>2, <1>3, <1>4, <1>5

(* The same after a step that does not change the operation.                        *)
LEMMA LeftIsThen ==
  ASSUME job \in Jobs, job' = job, NEW t \in Tasks, Made(t)', Walks'
  PROVE  /\ Size(t)' = Volume(it'[t].box) /\ Size(t)' \in Nat \ {0}
         /\ it'[t].linear = it'[t].end => Left(t)' = 0
         /\ it'[t].linear # it'[t].end =>
              /\ Left(t)' = Size(t)' - RankOf(it'[t])
              /\ RankOf(it'[t]) \in Nat /\ RankOf(it'[t]) < Size(t)'
<1> DEFINE i == it'[t]
<1>0. WalksOn(job, i, endAt'[t])
  BY DEF Walks, Tasks
<1>1. job.grid \in Extents /\ Inside(job.grid, i.box) /\ i.flow = job.flow
  BY <1>0, JobTypes DEF WalksOn
<1>2. Size(t)' = Volume(i.box)
  BY DEF Size
<1>3. Volume(i.box) \in Nat \ {0}
  BY <1>1, InsideIs, VolumeIs
<1>4. i.linear = i.end => Left(t)' = 0
  BY DEF Left
<1>5. ASSUME i.linear # i.end
      PROVE  Left(t)' = Size(t)' - RankOf(i) /\ RankOf(i) \in Nat /\ RankOf(i) < Size(t)'
  <2>1. Left(t)' = Volume(i.box) - RankOf(i)
    BY <1>1, <1>5 DEF Left, RankOf
  <2>2. Stands(job.grid, i)
    BY <1>0, <1>5 DEF WalksOn, Fits
  <2>3. RankOf(i) \in Nat /\ RankOf(i) < Volume(i.box)
    BY <1>1, <2>2, RankTypes
  <2> QED BY <1>2, <2>1, <2>3
<1> QED BY <1>2, <1>3, <1>4, <1>5

LEMMA SameWalk ==
  ASSUME NEW t \in Tasks, job' = job, it'[t] = it[t], Made(t)' <=> Made(t)
  PROVE  UNCHANGED Walk(t)!vars
<1>1. Size(t)' = Size(t)
  BY DEF Size
<1>2. Left(t)' = Left(t)
  BY DEF Left
<1> QED BY <1>1, <1>2 DEF Walk!vars

LEMMA BeginWalk ==
  ASSUME Control, Walks, NEW t \in Tasks, Begin(t)
  PROVE  BoxSteps
<1>1. /\ state[t] = "new" /\ job' = job /\ job \in Jobs /\ ~Made(t) /\ state \in [Tasks -> States]
      /\ it = [s \in Tasks |-> it[s]]
  BY DEF Begin, Made, Control, Walks
<1>2. Walks' /\ (Made(t)' => RankOf(it'[t]) = 0 /\ it'[t].linear # it'[t].end)
  BY BeginWalks
<1>3. ASSUME NEW s \in Tasks, s # t
      PROVE  [Walk(s)!Next]_(Walk(s)!vars)
  <2>1. it'[s] = it[s] /\ (Made(s)' <=> Made(s))
    BY <1>1, <1>3 DEF Begin, Made
  <2> QED BY <1>1, <2>1, SameWalk
<1>4. CASE ~Made(t)'
  <2>1. it' = it
    BY <1>1, <1>4 DEF Begin, Made
  <2>2. UNCHANGED Walk(t)!vars
    BY <1>1, <1>4, <2>1, SameWalk
  <2> QED BY <1>3, <2>2 DEF BoxSteps
<1>5. CASE Made(t)'
  <2>1. Size(t)' \in Nat \ {0} /\ Left(t)' = Size(t)' - 0
    BY <1>1, <1>2, <1>5, LeftIsThen
  <2>2. Size(t) = 0
    BY <1>1 DEF Size
  <2>3. Size(t)' > 0 /\ Left(t)' = Size(t)'
    BY <2>1
  <2>4. Walk(t)!Next
    BY <1>1, <2>2, <2>3 DEF Walk!Next, Walk!Begin
  <2> QED BY <1>3, <2>4 DEF BoxSteps
<1> QED BY <1>4, <1>5

LEMMA WriteWalk ==
  ASSUME Control, Walks, NEW t \in Tasks, NEW v, Write(t, v)
  PROVE  BoxSteps
<1> DEFINE i == it[t]
           k == it'[t]
<1>1. /\ i.linear # endAt[t] /\ UNCHANGED <<job, state>> /\ job \in Jobs
      /\ it = [s \in Tasks |-> it[s]] /\ job.n \in Nat \ {0}
  BY JobsAssumption DEF Write, AtEnd, Control, Walks
<1>2. /\ Walks' /\ Made(t) /\ Made(t)'
      /\ Fits(job.grid, i) /\ Went(job.grid, i, job.n, k)
  BY WriteWalks
<1>3. ASSUME NEW s \in Tasks, s # t
      PROVE  [Walk(s)!Next]_(Walk(s)!vars)
  <2>1. it'[s] = it[s] /\ (Made(s)' <=> Made(s))
    BY <1>1, <1>3 DEF Write, Made
  <2> QED BY <1>1, <2>1, SameWalk
<1>4. WalksOn(job, i, endAt[t]) /\ i.linear # i.end
  <2>1. WalksOn(job, i, endAt[t])
    BY <1>2 DEF Walks
  <2> QED BY <1>1, <2>1 DEF WalksOn
<1>5. /\ Size(t) = Volume(i.box) /\ Size(t) \in Nat
      /\ Left(t) = Size(t) - RankOf(i) /\ RankOf(i) \in Nat /\ RankOf(i) < Size(t)
  BY <1>1, <1>2, <1>4, LeftIs
<1>6. /\ k.box = i.box
      /\ RankOf(i) + job.n < Size(t) => Fits(job.grid, k) /\ RankOf(k) = RankOf(i) + job.n
      /\ ~(RankOf(i) + job.n < Size(t)) => k.linear = k.end
  BY <1>2, <1>5 DEF Went
<1>7. Size(t)' = Size(t)
  <2>1. Size(t)' = Volume(k.box)
    BY <1>1, <1>2, LeftIsThen
  <2> QED BY <1>5, <1>6, <2>1
<1>8. ASSUME RankOf(i) + job.n < Size(t)
      PROVE  Left(t)' = Size(t) - (RankOf(i) + job.n)
  <2>1. k.linear # k.end
    <3>1. k.linear \in Int /\ k.end \in Int /\ k.linear < k.end
      BY <1>1, <1>6, <1>8, JobTypes, FitsIs
    <3> QED BY <3>1
  <2>2. Left(t)' = Size(t)' - RankOf(k)
    BY <1>1, <1>2, <2>1, LeftIsThen
  <2> QED BY <1>6, <1>7, <1>8, <2>2
<1>9. ASSUME ~(RankOf(i) + job.n < Size(t))
      PROVE  Left(t)' = 0
  BY <1>1, <1>2, <1>6, <1>9, LeftIsThen
<1>10. Left(t) > 0 /\ Left(t)' = IF Left(t) > job.n THEN Left(t) - job.n ELSE 0
  <2> HIDE DEF i, k
  <2> QED BY <1>1, <1>5, <1>8, <1>9
<1>11. Walk(t)!Next
  BY <1>1, <1>7, <1>10 DEF Walk!Next, Walk!Step
<1> QED BY <1>3, <1>11 DEF BoxSteps

LEMMA NextWalk == Control /\ Walks /\ [Next]_vars => BoxSteps
<1> SUFFICES ASSUME Control, Walks, [Next]_vars PROVE BoxSteps
  OBVIOUS
<1>1. ASSUME NEW t \in Tasks, Step(t) \/ FilterStep(t) \/ AggregateStep(t)
      PROVE  BoxSteps
  BY <1>1, WriteWalk DEF Step, FilterStep, AggregateStep
<1>2. ASSUME job' = job, it' = it, \A t \in Tasks : Made(t)' <=> Made(t)
      PROVE  BoxSteps
  BY <1>2, SameWalk DEF BoxSteps
<1>3. ASSUME NEW t \in Tasks, Finish(t)
      PROVE  BoxSteps
  <2>1. job' = job /\ it' = it /\ \A s \in Tasks : Made(s)' <=> Made(s)
    BY <1>3 DEF Finish, Made, Control
  <2> QED BY <1>2, <2>1
<1>4. CASE Execute
  <2>1. \A s \in Tasks : state[s] = "none"
    BY <1>4 DEF Execute, Control
  <2>2. job' = job /\ it' = it /\ \A s \in Tasks : Made(s)' <=> Made(s)
    BY <1>4, <2>1 DEF Execute, Made
  <2> QED BY <1>2, <2>2
<1>5. CASE Join \/ Ended \/ UNCHANGED vars
  <2>1. job' = job /\ it' = it /\ state' = state
    BY <1>5 DEF Join, Ended, vars
  <2> QED BY <1>2, <2>1 DEF Made
<1> QED BY <1>1, <1>3, <1>4, <1>5, BeginWalk DEF Next

(* The iterator of every task implements BoxWalk in every flow and for every number *)
(* of pixels that a step goes on: it visits the pixels of its box in the order of   *)
(* the flow, each once, and is at the end when none is left, not before and not     *)
(* after (pixeliterator.cpp, pixeliterator.h: operator +=, end).                    *)
THEOREM IteratorsWalkTheirBoxes == OwnBoxesInside => (Spec => IsBoxWalk)
<1>1. Init => \A t \in Tasks : Walk(t)!Init
  <2> SUFFICES ASSUME Init, NEW t \in Tasks PROVE Walk(t)!Init
    OBVIOUS
  <2>1. ~Made(t) /\ job.n \in Nat
    BY JobsAssumption DEF Init, Made
  <2> QED BY <2>1 DEF Walk!Init, Size, Left
<1> SUFFICES ASSUME OwnBoxesInside PROVE Spec => IsBoxWalk
  OBVIOUS
<1>2. Spec => []Walks
  BY WalksAlways
<1>3. Control /\ Walks /\ [Next]_vars => [BoxSteps]_vars
  BY NextWalk
<1>4. Spec => [][BoxSteps]_vars
  BY <1>2, <1>3, ControlAlways, PTL DEF Spec
<1> QED BY <1>1, <1>4 DEF IsBoxWalk, Spec

-----------------------------------------------------------------------------
(* What the composition Rasters takes from DistanceRaster is what RasterTasks has.   *)
LEMMA TruncD == \A a, b : DR!Trunc(a, b) = Trunc(a, b)
BY DEF DR!Trunc, Trunc

LEMMA NextLineD == \A g, i : DR!NextLine(g, i) = NextLine(g, i)
BY DEF DR!NextLine, NextLine, DR!XLength, XLength

LEMMA NextBlockD == \A g, i : DR!Move2NextBlock(g, i) = Move2NextBlock(g, i)
BY DEF DR!Move2NextBlock, Move2NextBlock, DR!BlocksPerBand, BlocksPerBand, DR!Blocks, Blocks, DR!Trunc, Trunc

LEMMA LineBeforeD == \A g, i, n : DR!LineBefore(g, i, n) = LineBefore(g, i, n)
BY DEF DR!LineBefore, LineBefore, DR!XLength, XLength, DR!YLength, YLength, DR!ZLength, ZLength, DR!Trunc, Trunc

LEMMA NextBandD == \A g, i : DR!NextBand(g, i) = NextBand(g, i)
BY DEF DR!NextBand, NextBand, DR!YLength, YLength, DR!BlocksPerBand, BlocksPerBand, DR!OffsetOf, OffsetOf

LEMMA BandBeforeD == \A g, i : DR!BandBefore(g, i) = BandBefore(g, i)
BY DEF DR!BandBefore, BandBefore, DR!OffsetOf, OffsetOf

LEMMA MoveYZD == \A g, i, n : DR!MoveYZ(g, i, n) = MoveYZ(g, i, n)
<1> TAKE g, i, n
<1> DEFINE moved == IF i.x < i.box.x1 THEN LineBefore(g, i, n) ELSE NextLine(g, i)
           placed == [moved EXCEPT !.offset = moved.x + g.xs * (moved.y - g.maxLines * Trunc(moved.y, g.maxLines))]
           next == Move2NextBlock(g, placed)
           dmoved == IF i.x < i.box.x1 THEN DR!LineBefore(g, i, n) ELSE DR!NextLine(g, i)
           dplaced == [dmoved EXCEPT !.offset = dmoved.x + g.xs * (dmoved.y - g.maxLines * DR!Trunc(dmoved.y, g.maxLines))]
           dnext == DR!Move2NextBlock(g, dplaced)
<1>1. DR!MoveYZ(g, i, n) = CASE dnext.y > dnext.box.y2 -> DR!NextBand(g, dnext)
                            [] dnext.y < dnext.box.y1 -> DR!BandBefore(g, dnext)
                            [] OTHER -> dnext
  BY Zenon DEF DR!MoveYZ
<1>2. MoveYZ(g, i, n) = CASE next.y > next.box.y2 -> NextBand(g, next)
                          [] next.y < next.box.y1 -> BandBefore(g, next)
                          [] OTHER -> next
  BY Zenon DEF MoveYZ
<1>3. dmoved = moved
  BY NextLineD, LineBeforeD
<1>4. DR!Trunc(moved.y, g.maxLines) = Trunc(moved.y, g.maxLines)
  BY TruncD
<1> HIDE DEF moved, dmoved
<1>5. dplaced = placed
  BY <1>3, <1>4
<1> HIDE DEF placed, dplaced
<1>6. dnext = next
  BY <1>5, NextBlockD
<1> HIDE DEF next, dnext
<1> QED BY <1>1, <1>2, <1>6, NextBandD, BandBeforeD

LEMMA MoveD ==
  ASSUME NEW g, NEW i, i.flow = "XYZ", NEW n
  PROVE  DR!Move(g, i, n) = Move(g, i, n)
<1>1. DR!MoveXYZ(g, i, n) = MoveXYZ(g, i, n)
  BY MoveYZD DEF DR!MoveXYZ, MoveXYZ
<1>2. DR!ToEnd(i) = ToEnd(i) /\ (DR!IsAtEnd(i) <=> IsAtEnd(i))
  BY DEF DR!ToEnd, ToEnd, DR!IsAtEnd, IsAtEnd
<1> QED BY <1>1, <1>2 DEF DR!Move, Move

LEMMA CellD == \A g, p, i : DR!CellOf(g, p) = CellOf(g, p) /\ DR!CellAt(i) = CellAt(i) /\ DR!PixelAt(i) = PixelAt(i)
BY DEF DR!CellOf, CellOf, DR!CellAt, CellAt, DR!PixelAt, PixelAt, DR!BlocksPerBand, BlocksPerBand

LEMMA CellsD == \A g : DR!Cells(g) = Cells(g)
<1>1. \A g, b : DR!BlockSize(g, b) = BlockSize(g, b)
  BY DEF DR!BlockSize, BlockSize, DR!BlocksPerBand, BlocksPerBand, DR!Smallest, Smallest
<1>2. \A g : DR!Blocks(g) = Blocks(g)
  BY DEF DR!Blocks, Blocks, DR!BlocksPerBand, BlocksPerBand
<1> QED BY <1>1, <1>2 DEF DR!Cells, Cells

LEMMA FirstD == DR!First = Iterator(grid, WholeBox(grid), "XYZ")
<1>1. DR!WholeBox(grid) = WholeBox(grid)
  BY DEF DR!WholeBox, WholeBox, DR!BoxOf, BoxOf
<1>2. \A g, b : DR!Ensure(g, b) = Ensure(g, b)
  BY DEF DR!Ensure, Ensure, DR!XLength, XLength, DR!YLength, YLength, DR!ZLength, ZLength
<1>3. \A g, i : DR!InitPosition(g, i) = InitPosition(g, i)
  BY CellD DEF DR!InitPosition, InitPosition, DR!LinearOf, LinearOf
<1>4. \A g, b, f : DR!Iterator(g, b, f) = Iterator(g, b, f)
  BY <1>2, <1>3 DEF DR!Iterator, Iterator
<1> QED BY <1>1, <1>4 DEF DR!First

-----------------------------------------------------------------------------
(* Sweeps over a raster of one block *)

(* The rasters that the property is about: one band, in one block.                  *)
Small(g) ==
  /\ g \in Extents
  /\ g.xs >= 3 /\ g.zs = 1 /\ g.ys <= g.maxLines

(* The linear position of a pixel.                                                  *)
Nth(g, x, y) == g.xs * y + x

(* The iterator stands at a pixel and at its cell; linear is not fixed by it.       *)
Stance(g, i) == Placed(g, i, 0, g.ys - 1) /\ InCell(g, i) /\ i.end = g.xs * g.ys

LEMMA NthIs ==
  ASSUME NEW g, Small(g)
  PROVE  /\ g.xs * g.ys \in Nat
         /\ \A x \in 0 .. g.xs - 1, y \in 0 .. g.ys - 1 :
              /\ Nth(g, x, y) \in Nat
              /\ Nth(g, x, y) < g.xs * g.ys
              /\ x < g.xs - 1 => Nth(g, x, y) + 1 < g.xs * g.ys
              /\ x = g.xs - 1 /\ y = g.ys - 1 => Nth(g, x, y) = g.xs * g.ys - 1
         /\ Nth(g, 0, 0) = 0 /\ Nth(g, g.xs - 1, 0) = g.xs - 1
<1> DEFINE w == g.xs
           h == g.ys
<1>1. w \in Nat /\ w >= 3 /\ h \in Nat /\ h >= 1
  BY ExtentTypes DEF Small
<1> HIDE DEF w, h
<1>2. w * h \in Nat /\ w * 0 = 0
  BY <1>1
<1>3. ASSUME NEW x \in 0 .. w - 1, NEW y \in 0 .. h - 1
      PROVE  /\ w * y + x \in Nat
             /\ w * y + x < w * h
             /\ x < w - 1 => w * y + x + 1 < w * h
             /\ x = w - 1 /\ y = h - 1 => w * y + x = w * h - 1
  <2>1. w * y \in Nat /\ w * y + w <= w * h
    BY <1>1, MulLess
  <2>2. y = h - 1 => w * y = w * h - w
    BY <1>1
  <2> QED BY <1>1, <1>2, <2>1, <2>2
<1>4. w * 0 + 0 = 0 /\ w * 0 + (w - 1) = w - 1
  BY <1>1
<1> QED BY <1>2, <1>3, <1>4 DEF Nth, w, h

LEMMA LowLine ==
  ASSUME NEW g, Small(g), NEW y \in 0 .. g.ys - 1
  PROVE  y \div g.maxLines = 0 /\ y % g.maxLines = y
<1>1. g.maxLines \in Nat \ {0} /\ y \in 0 .. g.maxLines - 1 /\ y \in Nat
  BY ExtentTypes DEF Small
<1>2. g.maxLines * 0 = 0 /\ y = g.maxLines * 0 + y
  BY <1>1
<1> QED BY <1>1, <1>2, DivUnique

LEMMA FirstOfAll ==
  ASSUME NEW g \in Extents, NEW i, i = Iterator(g, WholeBox(g), "XYZ")
  PROVE  /\ Right(g, i, 0, g.ys - 1) /\ i.x = 0 /\ i.y = 0 /\ i.z = 0
         /\ i.linear # i.end /\ EndOf(g, i).linear = i.end
<1> DEFINE b == BoxOf(0, 0, 0, g.xs - 1, g.ys - 1, g.zs)
<1>1. /\ g.xs \in Nat \ {0} /\ g.ys \in Nat \ {0} /\ g.zs \in Nat \ {0}
  BY ExtentTypes
<1>2. Ensure(g, b) = Ensure(g, WholeBox(g))
  <2> DEFINE c == WholeBox(g)
             r == [x1 |-> 0, y1 |-> 0, z1 |-> 0, x2 |-> g.xs - 1, y2 |-> g.ys - 1, z2 |-> g.zs - 1]
  <2>1. /\ b \in Boxes /\ b.x1 = 0 /\ b.x2 = g.xs - 1 /\ b.y1 = 0 /\ b.y2 = g.ys - 1
        /\ b.z1 = 0 /\ b.z2 = g.zs
    BY <1>1 DEF BoxOf, Boxes
  <2>2. /\ c \in Boxes /\ c.x1 = 0 /\ c.x2 = g.xs - 1 /\ c.y1 = 0 /\ c.y2 = g.ys - 1
        /\ c.z1 = 0 /\ c.z2 = g.zs - 1
    BY <1>1 DEF WholeBox, BoxOf, Boxes
  <2> HIDE DEF b, c
  <2>3. /\ (IF XLength(b) > g.xs THEN g.xs - 1 ELSE b.x2) = g.xs - 1
        /\ (IF YLength(b) > g.ys THEN g.ys - 1 ELSE b.y2) = g.ys - 1
        /\ (IF ZLength(b) > g.zs THEN g.zs - 1 ELSE b.z2) = g.zs - 1
    BY <1>1, <2>1 DEF XLength, YLength, ZLength
  <2>4. /\ (IF XLength(c) > g.xs THEN g.xs - 1 ELSE c.x2) = g.xs - 1
        /\ (IF YLength(c) > g.ys THEN g.ys - 1 ELSE c.y2) = g.ys - 1
        /\ (IF ZLength(c) > g.zs THEN g.zs - 1 ELSE c.z2) = g.zs - 1
    BY <1>1, <2>2 DEF XLength, YLength, ZLength
  <2>5. Ensure(g, b) = [b EXCEPT !.x2 = g.xs - 1, !.y2 = g.ys - 1, !.z2 = g.zs - 1]
    BY <2>3 DEF Ensure
  <2>6. Ensure(g, c) = [c EXCEPT !.x2 = g.xs - 1, !.y2 = g.ys - 1, !.z2 = g.zs - 1]
    BY <2>4 DEF Ensure
  <2>7. Ensure(g, b) = r
    BY <2>1, <2>5 DEF Boxes
  <2>8. Ensure(g, c) = r
    BY <2>2, <2>6 DEF Boxes
  <2> QED BY <2>7, <2>8 DEF c
<1>3. i = Iterator(g, b, "XYZ")
  BY <1>2 DEF Iterator
<1>4. 0 \in Nat /\ g.ys - 1 \in Nat /\ 0 <= g.ys - 1 /\ g.ys - 1 < g.ys
  BY <1>1
<1> HIDE DEF b
<1>5. b = BoxOf(0, 0, 0, g.xs - 1, g.ys - 1, g.zs)
  BY DEF b
<1> QED BY <1>3, <1>4, <1>5, BeginRight

LEMMA FirstStance ==
  ASSUME NEW g, Small(g), NEW i, i = Iterator(g, WholeBox(g), "XYZ")
  PROVE  /\ Stance(g, i) /\ i.x = 0 /\ i.y = 0 /\ i.linear = 0
         /\ EndOf(g, i).linear = g.xs * g.ys
<1>1. /\ Right(g, i, 0, g.ys - 1) /\ i.x = 0 /\ i.y = 0 /\ i.z = 0
      /\ i.linear # i.end /\ EndOf(g, i).linear = i.end
  BY FirstOfAll DEF Small
<1> DEFINE w == g.xs
           h == g.ys
           n == w * h
<1>2. w \in Nat /\ h \in Nat /\ g.zs = 1 /\ n \in Nat
  BY ExtentTypes, NthIs DEF Small
<1>3. w * (h - 1) = n - w
  BY <1>2
<1>4. i.end = (w - 1) + w * (h - 1) + n * (1 - 1) + 1
  BY <1>1, <1>2 DEF Right, LinearOf
<1>5. i.linear = w * 0 + (w * (h - 1 - 0 + 1)) * 0 + 0
  BY <1>1, <1>2 DEF Right, PositionOf
<1>6. i.end = n
  <2> HIDE DEF n
  <2> QED BY <1>2, <1>3, <1>4
<1>7. i.linear = 0
  BY <1>2, <1>5
<1> QED BY <1>1, <1>6, <1>7 DEF Stance, Right

LEMMA StanceTypes ==
  ASSUME NEW g, Small(g), NEW i, Stance(g, i)
  PROVE  /\ g.xs \in Nat /\ g.ys \in Nat /\ g.maxLines \in Nat \ {0}
         /\ g.xs >= 3 /\ g.ys >= 1 /\ g.zs = 1 /\ g.ys <= g.maxLines
         /\ i \in Iterators /\ i.flow = "XYZ"
         /\ i.box.x1 = 0 /\ i.box.x2 = g.xs - 1 /\ i.box.y1 = 0 /\ i.box.y2 = g.ys - 1
         /\ i.box.z1 = 0 /\ i.box.z2 = 0
         /\ i.x \in 0 .. g.xs - 1 /\ i.y \in 0 .. g.ys - 1 /\ i.z = 0
         /\ i.block \in Int /\ i.offset \in Int /\ i.linear \in Int /\ i.end \in Int
BY ExtentTypes DEF Stance, Placed, Small, Iterators

(* One step forward.                                                                *)
LEMMA ForwardIs ==
  ASSUME NEW g, Small(g), NEW i, Stance(g, i), NEW k, k = Move(g, i, 1)
  PROVE  /\ Stance(g, k)
         /\ i.x = g.xs - 1 /\ i.y = g.ys - 1 => k.linear = k.end /\ k.x = i.x /\ k.y = i.y
         /\ i.x = g.xs - 1 /\ i.y < g.ys - 1 => k.linear = i.linear + 1 /\ k.x = 0 /\ k.y = i.y + 1
         /\ i.x < g.xs - 1 => k.linear = i.linear + 1 /\ k.x = i.x + 1 /\ k.y = i.y
<1>1. /\ g.xs \in Nat /\ g.ys \in Nat /\ i \in Iterators
      /\ i.box.x2 = g.xs - 1 /\ i.box.y2 = g.ys - 1 /\ i.box.z2 = 0
      /\ i.x \in 0 .. g.xs - 1 /\ i.y \in 0 .. g.ys - 1 /\ i.z = 0
  BY StanceTypes
<1>2. CASE IsAtEnd(i)
  <2>1. k = [i EXCEPT !.linear = i.end]
    BY <1>2 DEF Move, ToEnd
  <2>2. /\ k \in Iterators /\ k.box = i.box /\ k.x = i.x /\ k.y = i.y /\ k.z = i.z
        /\ k.block = i.block /\ k.offset = i.offset /\ k.linear = i.end /\ k.end = i.end
    BY <1>1, <2>1 DEF Iterators
  <2>3. Stance(g, k)
    BY <2>2 DEF Stance, Placed, InCell
  <2> QED BY <1>1, <1>2, <2>2, <2>3 DEF IsAtEnd
<1>3. CASE ~IsAtEnd(i)
  <2>1. g.ys - 1 \in Nat /\ 0 \in Nat /\ 0 <= g.ys - 1 /\ g.ys - 1 < g.ys /\ g \in Extents
        /\ Placed(g, i, 0, g.ys - 1)
    BY <1>1 DEF Stance, Small
  <2>2. /\ Placed(g, k, 0, g.ys - 1) /\ k.box = i.box /\ Follows(k, i)
        /\ k.linear = i.linear + 1 /\ k.end = i.end
        /\ OneBlock(g) /\ InCell(g, i) => InCell(g, k)
    BY <1>3, <2>1, StepPlaced
  <2>3. OneBlock(g)
    BY DEF Small, OneBlock
  <2>4. Stance(g, k)
    BY <2>2, <2>3 DEF Stance
  <2> QED BY <1>1, <1>3, <2>2, <2>4 DEF Follows, IsAtEnd
<1> QED BY <1>2, <1>3

LEMMA Minus ==
  ASSUME NEW a \in Int
  PROVE  -a = 0 - a
OBVIOUS

(* The line before: line 0 stays line 0 in a raster of three columns.               *)
LEMMA LineUp ==
  ASSUME NEW w \in Nat, w >= 3, NEW y \in Nat
  PROVE  Trunc(w * y - 1 - 1, w) = IF y = 0 THEN 0 ELSE y - 1
<1>1. CASE y = 0
  <2> DEFINE a == w * y - 1 - 1
  <2>1. a = 0 - 2 /\ a \in Int
    <3>1. w * y = 0
      BY <1>1
    <3> QED BY <3>1
  <2>2. 2 \in Nat /\ w \in Nat \ {0} /\ 0 \in Nat /\ 2 \in 0 .. w - 1 /\ 2 = w * 0 + 2
    OBVIOUS
  <2>3. 2 \div w = 0
    BY <2>2, DivUnique
  <2> HIDE DEF a
  <2>4. ~(a >= 0)
    BY <2>1
  <2>7. -a = 2
    <3>1. -a = 0 - a
      <4>1. a \in Int
        BY <2>1
      <4> QED BY <4>1, Minus
    <3>2. 0 - a = 2
      BY <2>1
    <3> QED BY <3>1, <3>2
  <2>5. Trunc(a, w) = -(2 \div w)
    BY <2>4, <2>7 DEF Trunc
  <2>6. Trunc(a, w) = 0
    BY <2>3, <2>5
  <2> QED BY <1>1, <2>6 DEF a
<1>2. CASE y # 0
  <2> DEFINE a == w * y - 1 - 1
  <2>1. w * (y - 1) = w * y - w /\ w * y \in Nat /\ w * (y - 1) \in Nat
    BY <1>2
  <2>2. a = w * (y - 1) + (w - 2) /\ a \in Nat /\ w - 2 \in 0 .. w - 1 /\ y - 1 \in Nat
    BY <1>2, <2>1
  <2>3. w \in Nat \ {0}
    OBVIOUS
  <2> HIDE DEF a
  <2>4. a \div w = y - 1
    BY <2>2, <2>3, DivUnique
  <2>5. a >= 0
    BY <2>2
  <2>6. Trunc(a, w) = y - 1
    BY <2>4, <2>5 DEF Trunc
  <2> QED BY <1>2, <2>6 DEF a
<1> QED BY <1>1, <1>2

(* One step back: to the line before at the first column, and from the first pixel  *)
(* to the end of the same line.                                                     *)
LEMMA BackIs ==
  ASSUME NEW g, Small(g), NEW i, Stance(g, i), i.x = 0 => i.linear # i.end,
         NEW k, k = Move(g, i, -1)
  PROVE  /\ Stance(g, k) /\ k.linear = i.linear - 1
         /\ i.x > 0 => k.x = i.x - 1 /\ k.y = i.y
         /\ i.x = 0 => k.x = g.xs - 1 /\ k.y = IF i.y = 0 THEN 0 ELSE i.y - 1
<1> DEFINE m == Aside(i, -1)
           w == g.xs
<1>1. /\ w \in Nat /\ g.ys \in Nat /\ g.maxLines \in Nat \ {0}
      /\ w >= 3 /\ g.ys >= 1 /\ g.zs = 1 /\ g.ys <= g.maxLines
      /\ i \in Iterators /\ i.flow = "XYZ"
      /\ i.box.x1 = 0 /\ i.box.x2 = w - 1 /\ i.box.y1 = 0 /\ i.box.y2 = g.ys - 1
      /\ i.box.z1 = 0 /\ i.box.z2 = 0
      /\ i.x \in 0 .. w - 1 /\ i.y \in 0 .. g.ys - 1 /\ i.z = 0
      /\ i.block \in Int /\ i.offset \in Int /\ i.linear \in Int /\ i.end \in Int
  BY StanceTypes
<1>2. /\ m \in Iterators /\ m.box = i.box /\ m.flow = i.flow
      /\ m.x = i.x - 1 /\ m.y = i.y /\ m.z = i.z
      /\ m.block = i.block /\ m.offset = i.offset - 1
      /\ m.linear = i.linear - 1 /\ m.end = i.end
  <2> DEFINE n == -1
  <2>1. n \in Int /\ m = Aside(i, n)
    BY DEF Aside
  <2>2. i.x + n = i.x - 1 /\ i.offset + n = i.offset - 1 /\ i.linear + n = i.linear - 1
    BY <1>1
  <2> HIDE DEF m, n
  <2>3. /\ m \in Iterators /\ m.box = i.box /\ m.flow = i.flow
        /\ m.x = i.x + n /\ m.y = i.y /\ m.z = i.z
        /\ m.block = i.block /\ m.offset = i.offset + n
        /\ m.linear = i.linear + n /\ m.end = i.end
    <3>1. i \in Iterators
      BY <1>1
    <3> QED BY <2>1, <3>1, MovedAside, Zenon
  <2> QED BY <2>2, <2>3
<1>3. k = IF m.x > m.box.x2 \/ m.z > m.box.z2 \/ m.x < m.box.x1
            THEN MoveYZ(g, m, -1) ELSE m
  <2>1. -1 # 0 /\ ~(-1 > 0)
    OBVIOUS
  <2>2. k = MoveXYZ(g, i, -1)
    BY <1>1, <2>1 DEF Move
  <2> QED BY <2>2 DEF MoveXYZ, Aside
<1> HIDE DEF m, w
<1>4. i.offset = w * (i.y % g.maxLines) + i.x /\ i.y % g.maxLines = i.y
      /\ i.block = BlocksPerBand(g) * i.z + (i.y \div g.maxLines) /\ i.y \div g.maxLines = 0
  BY <1>1, LowLine DEF Stance, InCell, w
<1>5. CASE i.x > 0
  <2>1. k = m
    BY <1>1, <1>2, <1>3, <1>5
  <2>2. k.x \in 0 .. w - 1
    BY <1>1, <1>2, <1>5, <2>1
  <2>3. Placed(g, k, 0, g.ys - 1)
    BY <1>1, <1>2, <2>1, <2>2 DEF Placed, w
  <2>4. w * i.y \in Int
    BY <1>1
  <2>5. k.offset = w * (k.y % g.maxLines) + k.x
    BY <1>1, <1>2, <1>4, <2>1, <2>4
  <2>6. InCell(g, k)
    BY <1>2, <1>4, <2>1, <2>5 DEF InCell, w
  <2> QED BY <1>1, <1>2, <1>5, <2>1, <2>3, <2>6 DEF Stance
<1>6. CASE i.x = 0
  <2> DEFINE v == IF i.y = 0 THEN 0 ELSE i.y - 1
             moved == LineBefore(g, m, -1)
             o == moved.x + g.xs * (moved.y - g.maxLines * Trunc(moved.y, g.maxLines))
             placed == [moved EXCEPT !.offset = o]
             next == Move2NextBlock(g, placed)
  <2>1. k = MoveYZ(g, m, -1) /\ m.x < m.box.x1
    BY <1>1, <1>2, <1>3, <1>6
  <2>2. k = CASE next.y > next.box.y2 -> NextBand(g, next)
              [] next.y < next.box.y1 -> BandBefore(g, next)
              [] OTHER -> next
    BY <2>1, Zenon DEF MoveYZ
  <2>3. v \in 0 .. g.ys - 1 /\ v \in Nat
    BY <1>1
  <2> HIDE DEF v
  <2>4. moved = [m EXCEPT !.x = w - 1, !.y = v]
    <3>1. m.end # m.linear - -1
      BY <1>1, <1>2, <1>6
    <3>2. moved = [m EXCEPT !.x = m.box.x2,
                            !.y = Trunc(XLength(m.box) * m.y - 1 - (m.box.x1 - m.x), XLength(m.box))]
      BY <3>1 DEF LineBefore
    <3>3. XLength(m.box) = w /\ m.box.x1 - m.x = 1 /\ m.box.x2 = w - 1
      BY <1>1, <1>2, <1>6 DEF XLength
    <3>4. Trunc(w * m.y - 1 - 1, w) = v
      <4>1. m.y \in Nat
        BY <1>1, <1>2
      <4> QED BY <1>1, <1>2, <4>1, LineUp DEF v
    <3> HIDE DEF moved
    <3> QED BY <3>2, <3>3, <3>4
  <2> HIDE DEF moved
  <2>5. /\ moved \in Iterators /\ moved.box = i.box /\ moved.x = w - 1 /\ moved.y = v /\ moved.z = 0
        /\ moved.block = i.block /\ moved.linear = i.linear - 1 /\ moved.end = i.end
    <3>1. v \in Int /\ w - 1 \in Int
      BY <1>1, <2>3
    <3> QED BY <1>1, <1>2, <2>4, <3>1 DEF Iterators
  <2>6. Trunc(v, g.maxLines) = 0 /\ v \div g.maxLines = 0 /\ v % g.maxLines = v
    BY <2>3, LowLine DEF Trunc
  <2>7. o = (w - 1) + w * v /\ o \in Int /\ o = w * v + (w - 1)
    <3>1. v - g.maxLines * 0 = v /\ w * v \in Int
      BY <1>1, <2>3
    <3>2. o = (w - 1) + w * v
      BY <2>5, <2>6, <3>1 DEF w
    <3> HIDE DEF o
    <3> QED BY <1>1, <3>1, <3>2
  <2> HIDE DEF o
  <2>8. /\ placed \in Iterators /\ placed.box = i.box /\ placed.x = w - 1 /\ placed.y = v /\ placed.z = 0
        /\ placed.block = i.block /\ placed.linear = i.linear - 1 /\ placed.end = i.end
        /\ placed.offset = o
    BY <2>5, <2>7 DEF Iterators
  <2> HIDE DEF placed
  <2>9. BlocksPerBand(g) * 0 = 0 /\ BlocksPerBand(g) * 0 + 0 = 0 /\ Blocks(g) \in Nat \ {0}
    <3>1. BlocksPerBand(g) \in Nat \ {0} /\ Blocks(g) = BlocksPerBand(g) * g.zs
      BY BlocksAre DEF Blocks, Small
    <3> QED BY <1>1, <3>1
  <2>10. i.block = 0
    BY <1>1, <1>4, <2>9
  <2>11. BlocksPerBand(g) * placed.z + Trunc(placed.y, g.maxLines) = 0
    BY <2>6, <2>8, <2>9
  <2>12. /\ next \in Iterators /\ next.box = i.box /\ next.x = w - 1 /\ next.y = v /\ next.z = 0
         /\ next.block = 0 /\ next.linear = i.linear - 1 /\ next.end = i.end
         /\ next.offset = o
    <3> DEFINE bl == BlocksPerBand(g) * placed.z + Trunc(placed.y, g.maxLines)
    <3>0. next = [placed EXCEPT !.block = bl,
                                !.offset = IF bl # placed.block THEN placed.x ELSE placed.offset,
                                !.linear = IF bl >= Blocks(g) THEN placed.end ELSE placed.linear]
      BY DEF Move2NextBlock
    <3> DEFINE f == IF bl # placed.block THEN placed.x ELSE placed.offset
               l == IF bl >= Blocks(g) THEN placed.end ELSE placed.linear
    <3>2. next = [placed EXCEPT !.block = bl, !.offset = f, !.linear = l]
      BY <3>0
    <3>3. bl = 0
      BY <2>11
    <3> HIDE DEF bl, next
    <3>4. f = placed.offset /\ l = placed.linear
      BY <2>8, <2>9, <2>10, <3>3
    <3> HIDE DEF f, l
    <3>1. next = [placed EXCEPT !.block = 0, !.offset = placed.offset, !.linear = placed.linear]
      BY <3>2, <3>3, <3>4
    <3> QED BY <2>8, <3>1 DEF Iterators
  <2> HIDE DEF next
  <2>13. k = next
    <3>1. ~(next.y > next.box.y2) /\ ~(next.y < next.box.y1)
      BY <1>1, <2>3, <2>12
    <3> QED BY <2>2, <3>1
  <2>14. Placed(g, k, 0, g.ys - 1)
    <3>1. k.x \in 0 .. g.xs - 1 /\ k.y \in 0 .. g.ys - 1 /\ k.z \in 0 .. g.zs - 1
      BY <1>1, <2>3, <2>12, <2>13 DEF w
    <3> QED BY <1>1, <2>12, <2>13, <3>1 DEF Placed, w
  <2>15. InCell(g, k)
    BY <2>6, <2>7, <2>9, <2>12, <2>13 DEF InCell, w
  <2> QED BY <1>1, <1>6, <2>12, <2>13, <2>14, <2>15 DEF Stance, v, w
<1> QED BY <1>1, <1>5, <1>6

-----------------------------------------------------------------------------
(* Ways between pixels *)

(* The pixels, those around one, and their order in the raster.                     *)
Spots(g) == (0 .. g.xs - 1) \X (0 .. g.ys - 1) \X {0}

Near(g, p) ==
  {q \in Spots(g) : q # p /\ q[1] \in p[1] - 1 .. p[1] + 1 /\ q[2] \in p[2] - 1 .. p[2] + 1}

Earlier(p, q) == p[2] < q[2] \/ (p[2] = q[2] /\ p[1] < q[1])

LEMMA SpotIs ==
  ASSUME NEW g, Small(g), NEW p \in Spots(g)
  PROVE  /\ p[1] \in Nat /\ p[1] <= g.xs - 1 /\ p[2] \in Nat /\ p[2] <= g.ys - 1 /\ p[3] = 0
         /\ p = <<p[1], p[2], 0>>
         /\ g.xs \in Nat /\ g.ys \in Nat /\ g.xs >= 3 /\ g.ys >= 1
BY ExtentTypes DEF Spots, Small

LEMMA SpotsDiffer ==
  ASSUME NEW g, Small(g), NEW p \in Spots(g), NEW q \in Spots(g)
  PROVE  p = q <=> p[1] = q[1] /\ p[2] = q[2]
BY SpotIs

LEMMA AbsIs ==
  ASSUME NEW n \in Int
  PROVE  DR!Abs(n) \in Nat /\ (n >= 0 => DR!Abs(n) = n) /\ (n < 0 => DR!Abs(n) = 0 - n)
<1>1. -n = 0 - n
  BY Minus
<1> QED BY <1>1 DEF DR!Abs

(* The longer side counts 5, the shorter one 2 more.                                *)
LEMMA WayLength ==
  ASSUME NEW a \in Nat, NEW b \in Nat
  PROVE  5 * DR!Abs(a - b) + 7 * DR!Smallest(a, b) = IF a >= b THEN 5 * a + 2 * b ELSE 5 * b + 2 * a
<1>1. DR!Abs(a - b) = IF a >= b THEN a - b ELSE b - a
  BY AbsIs
<1> QED BY <1>1 DEF DR!Smallest

Sides(a, b) == IF a >= b THEN 5 * a + 2 * b ELSE 5 * b + 2 * a

LEMMA WaySides ==
  ASSUME NEW p, NEW q, p[1] \in Int, p[2] \in Int, q[1] \in Int, q[2] \in Int
  PROVE  \E a \in Nat, b \in Nat :
           /\ DR!Way(p, q) = Sides(a, b)
           /\ a = IF p[1] >= q[1] THEN p[1] - q[1] ELSE q[1] - p[1]
           /\ b = IF p[2] >= q[2] THEN p[2] - q[2] ELSE q[2] - p[2]
<1> DEFINE a == DR!Abs(p[1] - q[1])
           b == DR!Abs(p[2] - q[2])
<1>1. /\ a \in Nat /\ a = IF p[1] >= q[1] THEN p[1] - q[1] ELSE q[1] - p[1]
      /\ b \in Nat /\ b = IF p[2] >= q[2] THEN p[2] - q[2] ELSE q[2] - p[2]
  BY AbsIs
<1>2. DR!Way(p, q) = 5 * DR!Abs(a - b) + 7 * DR!Smallest(a, b)
  BY DEF DR!Way
<1> HIDE DEF a, b
<1>3. DR!Way(p, q) = Sides(a, b)
  BY <1>1, <1>2, WayLength DEF Sides
<1> QED BY <1>1, <1>3

LEMMA WayIs ==
  ASSUME NEW g, Small(g), NEW p \in Spots(g), NEW q \in Spots(g)
  PROVE  /\ DR!Way(p, q) \in Nat
         /\ p = q => DR!Way(p, q) = 0
<1>1. p[1] \in Int /\ p[2] \in Int /\ q[1] \in Int /\ q[2] \in Int
  BY SpotIs
<1>2. PICK a \in Nat, b \in Nat :
        /\ DR!Way(p, q) = Sides(a, b)
        /\ a = IF p[1] >= q[1] THEN p[1] - q[1] ELSE q[1] - p[1]
        /\ b = IF p[2] >= q[2] THEN p[2] - q[2] ELSE q[2] - p[2]
  BY <1>1, WaySides
<1> QED BY <1>1, <1>2 DEF Sides

(* No way is shorter than over a neighbour ...                                      *)
LEMMA WayOver ==
  ASSUME NEW g, Small(g), NEW p \in Spots(g), NEW q \in Spots(g), NEW r \in Near(g, p)
  PROVE  DR!StepTo(p, r) \in Nat /\ DR!Way(p, q) <= DR!StepTo(p, r) + DR!Way(r, q)
<1>1. p[1] \in Int /\ p[2] \in Int /\ q[1] \in Int /\ q[2] \in Int
  BY SpotIs
<1>2. r \in Spots(g) /\ r # p /\ r[1] \in p[1] - 1 .. p[1] + 1 /\ r[2] \in p[2] - 1 .. p[2] + 1
  BY DEF Near
<1>3. r[1] \in Int /\ r[2] \in Int /\ ~(p[1] = r[1] /\ p[2] = r[2])
  BY <1>2, SpotIs, SpotsDiffer
<1>4. PICK a \in Nat, b \in Nat :
        /\ DR!Way(p, q) = Sides(a, b)
        /\ a = IF p[1] >= q[1] THEN p[1] - q[1] ELSE q[1] - p[1]
        /\ b = IF p[2] >= q[2] THEN p[2] - q[2] ELSE q[2] - p[2]
  BY <1>1, WaySides
<1>5. PICK c \in Nat, d \in Nat :
        /\ DR!Way(r, q) = Sides(c, d)
        /\ c = IF r[1] >= q[1] THEN r[1] - q[1] ELSE q[1] - r[1]
        /\ d = IF r[2] >= q[2] THEN r[2] - q[2] ELSE q[2] - r[2]
  BY <1>1, <1>3, WaySides
<1>6. /\ a <= c + 1 /\ b <= d + 1
      /\ p[1] = r[1] => a = c
      /\ p[2] = r[2] => b = d
  BY <1>1, <1>2, <1>3, <1>4, <1>5
<1>7. p[1] = r[1] \/ p[2] = r[2] => Sides(a, b) <= 5 + Sides(c, d)
  BY <1>3, <1>6 DEF Sides
<1>8. Sides(a, b) <= 7 + Sides(c, d)
  BY <1>6 DEF Sides
<1> QED BY <1>4, <1>5, <1>7, <1>8 DEF DR!StepTo

(* ... and some neighbour is on it; from the first line it is a later pixel, unless *)
(* the way leads straight to the left.                                              *)
LEMMA WayOn ==
  ASSUME NEW g, Small(g), NEW p \in Spots(g), NEW q \in Spots(g), p # q
  PROVE  \E r \in Near(g, p) :
           /\ DR!Way(p, q) = DR!StepTo(p, r) + DR!Way(r, q)
           /\ DR!StepTo(p, r) \in Nat \ {0}
           /\ p[2] = 0 /\ ~Earlier(p, r) => /\ q[2] = 0 /\ q[1] < p[1]
                                            /\ DR!Way(p, q) = 5 * (p[1] - q[1])
<1> DEFINE x == IF q[1] = p[1] THEN p[1] ELSE IF q[1] < p[1] THEN p[1] - 1 ELSE p[1] + 1
           y == IF q[2] = p[2] THEN p[2] ELSE IF q[2] < p[2] THEN p[2] - 1 ELSE p[2] + 1
           r == <<x, y, 0>>
<1>1. /\ p[1] \in Nat /\ p[2] \in Nat /\ q[1] \in Nat /\ q[2] \in Nat
      /\ p[1] <= g.xs - 1 /\ p[2] <= g.ys - 1 /\ q[1] <= g.xs - 1 /\ q[2] <= g.ys - 1
      /\ g.xs \in Nat /\ g.ys \in Nat
      /\ ~(p[1] = q[1] /\ p[2] = q[2])
  BY SpotIs, SpotsDiffer
<1>2. /\ x \in 0 .. g.xs - 1 /\ y \in 0 .. g.ys - 1 /\ x \in p[1] - 1 .. p[1] + 1 /\ y \in p[2] - 1 .. p[2] + 1
      /\ ~(p[1] = x /\ p[2] = y)
  BY <1>1
<1>3. r[1] = x /\ r[2] = y
  OBVIOUS
<1>4. r \in Near(g, p)
  <2>1. r \in Spots(g)
    BY <1>2 DEF Spots
  <2>2. r # p
    BY <1>2, <1>3
  <2> QED BY <1>2, <1>3, <2>1, <2>2 DEF Near
<1>5. DR!Way(p, q) = DR!StepTo(p, r) + DR!Way(r, q) /\ DR!StepTo(p, r) \in Nat \ {0}
  <2>1. PICK a \in Nat, b \in Nat :
          /\ DR!Way(p, q) = Sides(a, b)
          /\ a = IF p[1] >= q[1] THEN p[1] - q[1] ELSE q[1] - p[1]
          /\ b = IF p[2] >= q[2] THEN p[2] - q[2] ELSE q[2] - p[2]
    BY <1>1, WaySides
  <2>2. PICK c \in Nat, d \in Nat :
          /\ DR!Way(r, q) = Sides(c, d)
          /\ c = IF r[1] >= q[1] THEN r[1] - q[1] ELSE q[1] - r[1]
          /\ d = IF r[2] >= q[2] THEN r[2] - q[2] ELSE q[2] - r[2]
    <3>1. r[1] \in Int /\ r[2] \in Int
      BY <1>2, <1>3
    <3> HIDE DEF r
    <3> QED BY <1>1, <3>1, WaySides
  <2>3. DR!StepTo(p, r) = IF p[1] # x /\ p[2] # y THEN 7 ELSE 5
    BY <1>3 DEF DR!StepTo
  <2> HIDE DEF r
  <2>4. /\ p[1] # x => a = c + 1
        /\ p[1] = x => a = c /\ c = 0
        /\ p[2] # y => b = d + 1
        /\ p[2] = y => b = d /\ d = 0
    BY <1>1, <1>3, <2>1, <2>2
  <2>5. Sides(a, b) = (IF p[1] # x /\ p[2] # y THEN 7 ELSE 5) + Sides(c, d)
    <3> HIDE DEF x, y
    <3> QED BY <1>2, <2>4 DEF Sides
  <2> QED BY <2>1, <2>2, <2>3, <2>5
<1>6. ASSUME p[2] = 0, ~Earlier(p, r)
      PROVE  q[2] = 0 /\ q[1] < p[1] /\ DR!Way(p, q) = 5 * (p[1] - q[1])
  <2>1. ~(p[2] < y) /\ ~(p[2] = y /\ p[1] < x)
    BY <1>3, <1>6 DEF Earlier
  <2>2. q[2] = 0 /\ q[1] < p[1]
    BY <1>1, <1>6, <2>1
  <2>3. PICK a \in Nat, b \in Nat :
          /\ DR!Way(p, q) = Sides(a, b)
          /\ a = IF p[1] >= q[1] THEN p[1] - q[1] ELSE q[1] - p[1]
          /\ b = IF p[2] >= q[2] THEN p[2] - q[2] ELSE q[2] - p[2]
    BY <1>1, WaySides
  <2> QED BY <1>1, <1>6, <2>2, <2>3 DEF Sides
<1> HIDE DEF r
<1> QED BY <1>4, <1>5, <1>6

-----------------------------------------------------------------------------
(* What the sweeps have done *)

Below == {p \in Nat \X Nat : p[1] < p[2]}

LEMMA LeastNumber ==
  ASSUME NEW T \in SUBSET Nat, T # {}
  PROVE  \E x \in T : \A y \in T : x <= y
<1>1. IsWellFoundedOn(Below, Nat)
  BY NatLessThanWellFounded DEF OpToRel, Below
<1>2. PICK x \in T : \A y \in T : ~ (<<y, x>> \in Below)
  BY <1>1, WFMin
<1>3. \A y \in T : x \in Nat /\ y \in Nat /\ ~ (y < x)
  BY <1>2, Zenon DEF Below
<1>4. \A y \in T : x <= y
  BY <1>3
<1> QED BY <1>4

(* The values of distances.                                                         *)
Lengths == Nat \union {Far}

DistancesOf(g) == [Cells(g) -> Lengths]

At(g, d, p) == d[CellOf(g, p)]

(* A distance that is known and not more than w.                                    *)
AtMost(v, w) == v # Far /\ v <= w

(* p comes no nearer over q; over any neighbour; over any later neighbour.           *)
Settled(g, d, p, q) == At(g, d, q) # Far => AtMost(At(g, d, p), At(g, d, q) + DR!StepTo(p, q))

Stable(g, d, p) == \A q \in Near(g, p) : Settled(g, d, p, q)

HalfStable(g, d, p) == \A q \in Near(g, p) : Earlier(p, q) => Settled(g, d, p, q)

(* The pixels that a sweep forward comes to after a sweep back.                     *)
Revisited(g, p) == p[2] >= 1 \/ p[1] = g.xs - 1

AllSettled(g, d) ==
  \A p \in Spots(g) : HalfStable(g, d, p) /\ (Revisited(g, p) => Stable(g, d, p))

(* A distance that is known is not below that of some source.                       *)
NoneNearer(g, S, d) ==
  \A p \in Spots(g) : At(g, d, p) # Far => \E s \in S : DR!Way(p, s) <= At(g, d, p)

SourcesAreZero(g, S, d) == \A s \in S : At(g, d, s) = 0

(* What the first sweep has left in the first line, up to a column.                 *)
RowIsDone(g, S, d, x) == \A u \in 0 .. x : <<u, 0, 0>> \in S => AtMost(At(g, d, <<x, 0, 0>>), 5 * (x - u))

RowsAreDone(g, S, d) == \A x \in 0 .. g.xs - 1 : RowIsDone(g, S, d, x)

LEMMA LengthIs ==
  ASSUME NEW g, Small(g), NEW d \in DistancesOf(g), NEW p \in Spots(g)
  PROVE  CellOf(g, p) \in Cells(g) /\ At(g, d, p) \in Lengths
<1>1. g \in Extents /\ p = <<p[1], p[2], 0>> /\ p[1] \in 0 .. g.xs - 1 /\ p[2] \in 0 .. g.ys - 1
      /\ 0 \in 0 .. g.zs - 1
  BY SpotIs DEF Small
<1>2. CellOf(g, <<p[1], p[2], 0>>) \in Cells(g)
  BY <1>1, CellIsThere
<1> QED BY <1>1, <1>2 DEF At, DistancesOf

(* At the end of the sweeps no pixel is farther from a source than the way to it.   *)
LEMMA Reached ==
  ASSUME NEW g, Small(g), NEW S \in SUBSET Spots(g), NEW d \in DistancesOf(g),
         SourcesAreZero(g, S, d), RowsAreDone(g, S, d), AllSettled(g, d)
  PROVE  \A p \in Spots(g), s \in S : AtMost(At(g, d, p), DR!Way(p, s))
<1> DEFINE Bad == {n \in Nat : \E p \in Spots(g), s \in S : DR!Way(p, s) = n /\ ~AtMost(At(g, d, p), n)}
<1>1. SUFFICES ASSUME Bad # {} PROVE FALSE
  <2>1. \A p \in Spots(g), s \in S : DR!Way(p, s) \in Nat
    BY WayIs
  <2> QED BY <2>1
<1>2. PICK n \in Bad : \A m \in Bad : n <= m
  <2>1. Bad \in SUBSET Nat
    OBVIOUS
  <2> HIDE DEF Bad
  <2> QED BY <1>1, <2>1, LeastNumber
<1>3. n \in Nat /\ \E p \in Spots(g), s \in S : DR!Way(p, s) = n /\ ~AtMost(At(g, d, p), n)
  OBVIOUS
<1>4. PICK p \in Spots(g), s \in S : DR!Way(p, s) = n /\ ~AtMost(At(g, d, p), n)
  BY <1>3
<1>5. Far \notin Int
  BY GridsAssumption
<1>6. s \in Spots(g) /\ p # s
  <2>1. p = s => At(g, d, p) = 0 /\ n = 0
    BY <1>4, WayIs DEF SourcesAreZero
  <2> QED BY <1>4, <1>5, <2>1 DEF AtMost
<1>7. PICK r \in Near(g, p) :
        /\ DR!Way(p, s) = DR!StepTo(p, r) + DR!Way(r, s)
        /\ DR!StepTo(p, r) \in Nat \ {0}
        /\ p[2] = 0 /\ ~Earlier(p, r) => /\ s[2] = 0 /\ s[1] < p[1]
                                         /\ DR!Way(p, s) = 5 * (p[1] - s[1])
  BY <1>6, WayOn
<1>8. r \in Spots(g) /\ DR!Way(r, s) \in Nat /\ DR!Way(r, s) < n
  <2>1. r \in Spots(g)
    BY DEF Near
  <2>2. DR!Way(r, s) \in Nat
    BY <1>6, <2>1, WayIs
  <2> QED BY <1>3, <1>4, <1>7, <2>1, <2>2
<1>9. AtMost(At(g, d, r), DR!Way(r, s))
  <2>1. DR!Way(r, s) \notin Bad
    BY <1>2, <1>3, <1>8
  <2> QED BY <1>8, <2>1
<1>10. ~Settled(g, d, p, r)
  <2> SUFFICES ASSUME Settled(g, d, p, r) PROVE FALSE
    OBVIOUS
  <2>1. At(g, d, r) # Far /\ At(g, d, r) <= DR!Way(r, s) /\ At(g, d, r) \in Nat
    BY <1>8, <1>9, LengthIs DEF AtMost, Lengths
  <2>2. AtMost(At(g, d, p), At(g, d, r) + DR!StepTo(p, r))
    BY <2>1 DEF Settled
  <2>3. At(g, d, p) # Far /\ At(g, d, p) \in Nat /\ At(g, d, p) <= At(g, d, r) + DR!StepTo(p, r)
    BY <2>2, LengthIs DEF AtMost, Lengths
  <2>4. At(g, d, p) <= n
    <3> DEFINE a == At(g, d, p)
               b == At(g, d, r)
               c == DR!StepTo(p, r)
               e == DR!Way(r, s)
    <3>1. a \in Nat /\ b \in Nat /\ c \in Nat /\ e \in Nat /\ a <= b + c /\ b <= e /\ n = c + e
      BY <1>4, <1>7, <1>8, <2>1, <2>3
    <3> HIDE DEF a, b, c, e
    <3>2. a <= n
      BY <3>1
    <3> QED BY <3>2 DEF a
  <2> QED BY <1>4, <2>3, <2>4 DEF AtMost
<1>11. ~Earlier(p, r) /\ ~Revisited(g, p)
  BY <1>10 DEF AllSettled, HalfStable, Stable
<1>12. /\ p = <<p[1], 0, 0>> /\ s = <<s[1], 0, 0>> /\ p[1] \in 0 .. g.xs - 1 /\ s[1] \in 0 .. p[1]
       /\ n = 5 * (p[1] - s[1])
  <2>1. p[2] = 0
    BY <1>11, SpotIs DEF Revisited
  <2>2. s[2] = 0 /\ s[1] < p[1] /\ n = 5 * (p[1] - s[1])
    BY <1>4, <1>7, <1>11, <2>1
  <2> QED BY <1>6, <2>1, <2>2, SpotIs
<1>13. AtMost(At(g, d, <<p[1], 0, 0>>), 5 * (p[1] - s[1]))
  BY <1>12 DEF RowsAreDone, RowIsDone
<1> QED BY <1>4, <1>12, <1>13

LEMMA DistanceIs ==
  ASSUME NEW g, Small(g), NEW p \in Spots(g), sources \in SUBSET Spots(g), sources # {}
  PROVE  \E q \in sources : /\ DR!Distance(p) = DR!Way(p, q)
                            /\ \A s \in sources : DR!Distance(p) <= DR!Way(p, s)
<1> DEFINE T == {DR!Way(p, q) : q \in sources}
<1>1. T \in SUBSET Nat /\ T # {}
  BY WayIs
<1>2. PICK m \in T : \A n \in T : m <= n
  <2> HIDE DEF T
  <2> QED BY <1>1, LeastNumber
<1>3. \A q \in sources : m <= DR!Way(p, q)
  BY <1>2
<1>4. DR!Distance(p) = CHOOSE d \in T : \A q \in sources : d <= DR!Way(p, q)
  BY Zenon DEF DR!Distance
<1>5. DR!Distance(p) \in T /\ \A q \in sources : DR!Distance(p) <= DR!Way(p, q)
  <2> HIDE DEF T
  <2> QED BY <1>2, <1>3, <1>4, Zenon
<1> QED BY <1>5

LEMMA RightAtTheEnd ==
  ASSUME NEW g, Small(g), sources \in SUBSET Spots(g), NEW d \in DistancesOf(g),
         NoneNearer(g, sources, d), NEW p \in Spots(g)
  PROVE  /\ At(g, d, p) = Far \/ (sources # {} /\ At(g, d, p) >= DR!Distance(p))
         /\ (\A s \in sources : AtMost(At(g, d, p), DR!Way(p, s))) => At(g, d, p) = DR!Distance(p)
<1>1. At(g, d, p) \in Lengths /\ Far \notin Int
  BY LengthIs, GridsAssumption
<1>2. CASE sources = {}
  <2>1. At(g, d, p) = Far
    BY <1>2 DEF NoneNearer
  <2> QED BY <1>2, <2>1 DEF DR!Distance
<1>3. CASE sources # {}
  <2>1. PICK q \in sources : /\ DR!Distance(p) = DR!Way(p, q)
                             /\ \A s \in sources : DR!Distance(p) <= DR!Way(p, s)
    BY <1>3, DistanceIs
  <2>2. \A s \in sources : DR!Way(p, s) \in Nat
    BY WayIs
  <2>3. At(g, d, p) # Far => At(g, d, p) >= DR!Distance(p)
    <3> SUFFICES ASSUME At(g, d, p) # Far PROVE At(g, d, p) >= DR!Distance(p)
      OBVIOUS
    <3>1. PICK s \in sources : DR!Way(p, s) <= At(g, d, p)
      BY DEF NoneNearer
    <3>2. DR!Distance(p) <= DR!Way(p, s) /\ DR!Distance(p) \in Nat /\ DR!Way(p, s) \in Nat
          /\ At(g, d, p) \in Nat
      BY <1>1, <2>1, <2>2 DEF Lengths
    <3> QED BY <3>1, <3>2
  <2>4. ASSUME \A s \in sources : AtMost(At(g, d, p), DR!Way(p, s))
        PROVE  At(g, d, p) = DR!Distance(p)
    <3>1. At(g, d, p) # Far /\ At(g, d, p) <= DR!Distance(p) /\ At(g, d, p) \in Nat /\ DR!Distance(p) \in Nat
      BY <1>1, <2>1, <2>2, <2>4 DEF AtMost, Lengths
    <3> QED BY <2>3, <3>1
  <2> QED BY <1>3, <2>3, <2>4
<1> QED BY <1>2, <1>3

-----------------------------------------------------------------------------
(* One step of a sweep: the pixel p gets the least of the values it is offered.     *)
Improved(g, d, e, p) ==
  \E n \in Lengths :
    /\ e = [d EXCEPT ![CellOf(g, p)] = n]
    /\ n = At(g, d, p) \/ \E q \in Near(g, p) : At(g, d, q) # Far /\ n = At(g, d, q) + DR!StepTo(p, q)
    /\ At(g, d, p) # Far => AtMost(n, At(g, d, p))
    /\ \A q \in Near(g, p) : At(g, d, q) # Far => AtMost(n, At(g, d, q) + DR!StepTo(p, q))

LEMMA SpotsApart ==
  ASSUME NEW g, Small(g), NEW p \in Spots(g), NEW q \in Spots(g), CellOf(g, p) = CellOf(g, q)
  PROVE  p = q
<1>1. /\ g \in Extents /\ p = <<p[1], p[2], 0>> /\ p[1] \in 0 .. g.xs - 1 /\ p[2] \in 0 .. g.ys - 1
      /\ q = <<q[1], q[2], 0>> /\ q[1] \in 0 .. g.xs - 1 /\ q[2] \in 0 .. g.ys - 1 /\ 0 \in Nat
  BY SpotIs DEF Small
<1>2. CellOf(g, <<p[1], p[2], 0>>) = CellOf(g, <<q[1], q[2], 0>>)
  BY <1>1
<1>3. p[1] = q[1] /\ p[2] = q[2]
  BY <1>1, <1>2, CellsApart
<1> QED BY <1>1, <1>3

(* ... which settles it and takes nothing from what is known.                       *)
LEMMA ImprovedIs ==
  ASSUME NEW g, Small(g), NEW S \in SUBSET Spots(g), NEW d \in DistancesOf(g), NEW p \in Spots(g),
         NEW e, Improved(g, d, e, p)
  PROVE  /\ e \in DistancesOf(g)
         /\ \A q \in Spots(g) \ {p} : At(g, e, q) = At(g, d, q)
         /\ Stable(g, e, p)
         /\ At(g, d, p) # Far => AtMost(At(g, e, p), At(g, d, p))
         /\ NoneNearer(g, S, d) => NoneNearer(g, S, e)
         /\ SourcesAreZero(g, S, d) => SourcesAreZero(g, S, e)
<1>0. Far \notin Int
  BY GridsAssumption
<1>1. PICK n \in Lengths :
        /\ e = [d EXCEPT ![CellOf(g, p)] = n]
        /\ n = At(g, d, p) \/ \E q \in Near(g, p) : At(g, d, q) # Far /\ n = At(g, d, q) + DR!StepTo(p, q)
        /\ At(g, d, p) # Far => AtMost(n, At(g, d, p))
        /\ \A q \in Near(g, p) : At(g, d, q) # Far => AtMost(n, At(g, d, q) + DR!StepTo(p, q))
  BY DEF Improved
<1>2. CellOf(g, p) \in Cells(g)
  BY LengthIs
<1>3. e \in DistancesOf(g) /\ At(g, e, p) = n
  BY <1>1, <1>2 DEF DistancesOf, At
<1>4. ASSUME NEW q \in Spots(g) \ {p} PROVE At(g, e, q) = At(g, d, q)
  <2>1. CellOf(g, q) # CellOf(g, p) /\ CellOf(g, q) \in Cells(g)
    BY LengthIs, SpotsApart
  <2> QED BY <1>1, <2>1 DEF DistancesOf, At
<1>5. Stable(g, e, p)
  <2> SUFFICES ASSUME NEW q \in Near(g, p), At(g, e, q) # Far
               PROVE  AtMost(At(g, e, p), At(g, e, q) + DR!StepTo(p, q))
    BY DEF Stable, Settled
  <2>1. q \in Spots(g) \ {p}
    BY DEF Near
  <2> QED BY <1>1, <1>3, <1>4, <2>1
<1>6. At(g, d, p) # Far => AtMost(At(g, e, p), At(g, d, p))
  BY <1>1, <1>3
<1>7. ASSUME NoneNearer(g, S, d) PROVE NoneNearer(g, S, e)
  <2> SUFFICES ASSUME NEW q \in Spots(g), At(g, e, q) # Far
               PROVE  \E s \in S : DR!Way(q, s) <= At(g, e, q)
    BY DEF NoneNearer
  <2>1. CASE q # p
    BY <1>4, <1>7, <2>1 DEF NoneNearer
  <2>2. CASE q = p /\ n = At(g, d, p)
    BY <1>3, <1>7, <2>2 DEF NoneNearer
  <2>3. CASE q = p /\ n # At(g, d, p)
    <3>1. PICK r \in Near(g, p) : At(g, d, r) # Far /\ n = At(g, d, r) + DR!StepTo(p, r)
      BY <1>1, <2>3
    <3>2. r \in Spots(g)
      BY DEF Near
    <3>3. PICK s \in S : DR!Way(r, s) <= At(g, d, r)
      BY <1>7, <3>1, <3>2 DEF NoneNearer
    <3>4. s \in Spots(g)
      OBVIOUS
    <3>5. /\ DR!Way(p, s) <= DR!StepTo(p, r) + DR!Way(r, s) /\ DR!StepTo(p, r) \in Nat
          /\ DR!Way(p, s) \in Nat /\ DR!Way(r, s) \in Nat
      BY <3>2, <3>4, WayIs, WayOver
    <3>6. At(g, d, r) \in Nat
      BY <3>1, <3>2, LengthIs DEF Lengths
    <3>7. DR!Way(p, s) <= n
      <4> DEFINE a == DR!Way(p, s)
                 b == DR!StepTo(p, r)
                 c == DR!Way(r, s)
                 f == At(g, d, r)
      <4>1. a <= b + c /\ c <= f /\ n = f + b /\ a \in Nat /\ b \in Nat /\ c \in Nat /\ f \in Nat
        BY <3>1, <3>3, <3>5, <3>6
      <4> HIDE DEF a, b, c, f
      <4>2. a <= n
        BY <4>1
      <4> QED BY <4>2 DEF a
    <3> QED BY <1>3, <2>3, <3>7
  <2> QED BY <2>1, <2>2, <2>3
<1>8. ASSUME SourcesAreZero(g, S, d) PROVE SourcesAreZero(g, S, e)
  <2> SUFFICES ASSUME NEW s \in S PROVE At(g, e, s) = 0
    BY DEF SourcesAreZero
  <2>1. At(g, d, s) = 0 /\ s \in Spots(g)
    BY <1>8 DEF SourcesAreZero
  <2>2. CASE s # p
    BY <1>4, <2>1, <2>2
  <2>3. CASE s = p
    <3>1. At(g, e, s) # Far /\ At(g, e, s) <= 0 /\ At(g, e, s) \in Lengths
      BY <1>0, <1>1, <1>3, <2>1, <2>3 DEF AtMost
    <3> QED BY <3>1 DEF Lengths
  <2> QED BY <2>2, <2>3
<1> QED BY <1>3, <1>4, <1>5, <1>6, <1>7, <1>8

(* The first line is done up to a column by the pixels before it.                   *)
LEMMA RowStep ==
  ASSUME NEW g, Small(g), NEW S \in SUBSET Spots(g), NEW d \in DistancesOf(g), NEW p \in Spots(g),
         NEW e, Improved(g, d, e, p), SourcesAreZero(g, S, d), NEW x \in 0 .. g.xs - 1
  PROVE  /\ RowIsDone(g, S, d, x) => RowIsDone(g, S, e, x)
         /\ p = <<x, 0, 0>> /\ (x # 0 => RowIsDone(g, S, d, x - 1)) => RowIsDone(g, S, e, x)
<1> DEFINE r == <<x, 0, 0>>
<1>0. Far \notin Int /\ g.xs \in Nat /\ g.ys \in Nat /\ g.ys >= 1
  BY GridsAssumption, SpotIs
<1>1. /\ e \in DistancesOf(g)
      /\ \A q \in Spots(g) \ {p} : At(g, e, q) = At(g, d, q)
      /\ Stable(g, e, p)
      /\ At(g, d, p) # Far => AtMost(At(g, e, p), At(g, d, p))
      /\ SourcesAreZero(g, S, e)
  <2>1. /\ e \in DistancesOf(g)
        /\ \A q \in Spots(g) \ {p} : At(g, e, q) = At(g, d, q)
        /\ Stable(g, e, p)
        /\ At(g, d, p) # Far => AtMost(At(g, e, p), At(g, d, p))
        /\ NoneNearer(g, S, d) => NoneNearer(g, S, e)
        /\ SourcesAreZero(g, S, d) => SourcesAreZero(g, S, e)
    BY ImprovedIs, Zenon
  <2> QED BY <2>1
<1>2. r \in Spots(g)
  BY <1>0 DEF Spots
<1>3. At(g, d, r) \in Lengths /\ At(g, e, r) \in Lengths
  BY <1>1, <1>2, LengthIs
<1> HIDE DEF r
<1>4. ASSUME RowIsDone(g, S, d, x) PROVE RowIsDone(g, S, e, x)
  <2> SUFFICES ASSUME NEW u \in 0 .. x, <<u, 0, 0>> \in S PROVE AtMost(At(g, e, r), 5 * (x - u))
    BY DEF RowIsDone, r
  <2>1. AtMost(At(g, d, r), 5 * (x - u))
    BY <1>4 DEF RowIsDone, r
  <2>2. r # p => At(g, e, r) = At(g, d, r)
    BY <1>1, <1>2
  <2>3. r = p => AtMost(At(g, e, r), At(g, d, r))
    BY <1>1, <2>1 DEF AtMost
  <2> QED BY <1>3, <2>1, <2>2, <2>3 DEF AtMost, Lengths
<1>5. ASSUME p = r, x # 0 => RowIsDone(g, S, d, x - 1) PROVE RowIsDone(g, S, e, x)
  <2> SUFFICES ASSUME NEW u \in 0 .. x, <<u, 0, 0>> \in S PROVE AtMost(At(g, e, r), 5 * (x - u))
    BY DEF RowIsDone, r
  <2>1. CASE u = x
    <3>1. At(g, e, r) = 0 /\ 5 * (x - u) = 0
      BY <1>1, <2>1 DEF SourcesAreZero, r
    <3> QED BY <1>0, <3>1 DEF AtMost
  <2>2. CASE u # x
    <3> DEFINE q == <<x - 1, 0, 0>>
    <3>1. u \in 0 .. x - 1 /\ x # 0 /\ x - 1 \in 0 .. g.xs - 1
      BY <1>0, <2>2
    <3>2. AtMost(At(g, d, q), 5 * ((x - 1) - u))
      BY <1>5, <3>1 DEF RowIsDone
    <3>3. q \in Spots(g) /\ q # r /\ q \in Near(g, r) /\ DR!StepTo(r, q) = 5
      <4>1. q \in Spots(g)
        BY <1>0, <3>1 DEF Spots
      <4>2. r[1] = x /\ r[2] = 0 /\ q[1] = x - 1 /\ q[2] = 0
        BY DEF r
      <4>3. q # r
        BY <1>0, <4>2
      <4> HIDE DEF q
      <4>4. q \in Near(g, r)
        BY <1>0, <4>1, <4>2, <4>3 DEF Near
      <4>5. DR!StepTo(r, q) = 5
        BY <4>2 DEF DR!StepTo
      <4> QED BY <4>1, <4>3, <4>4, <4>5
    <3> HIDE DEF q
    <3>4. At(g, e, q) = At(g, d, q)
      BY <1>1, <1>5, <3>3
    <3>5. AtMost(At(g, e, r), At(g, e, q) + 5)
      BY <1>1, <1>5, <3>2, <3>3, <3>4 DEF Stable, Settled, AtMost
    <3>6. At(g, e, q) \in Nat /\ At(g, e, r) \in Nat
      BY <1>1, <1>3, <3>2, <3>3, <3>4, <3>5, LengthIs DEF AtMost, Lengths
    <3>7. At(g, e, r) # Far /\ At(g, e, r) <= At(g, e, q) + 5 /\ At(g, e, q) <= 5 * ((x - 1) - u)
      BY <3>2, <3>4, <3>5 DEF AtMost
    <3>8. 5 * ((x - 1) - u) + 5 = 5 * (x - u) /\ 5 * ((x - 1) - u) \in Int
      BY <3>1
    <3>9. At(g, e, r) <= 5 * (x - u)
      BY <3>6, <3>7, <3>8
    <3> QED BY <3>7, <3>9 DEF AtMost
  <2> QED BY <2>1, <2>2
<1> QED BY <1>4, <1>5 DEF r

-----------------------------------------------------------------------------
(* The sweeps *)

Spot(i) == <<i.x, i.y, 0>>

(* Only in the first sweep the linear position is that of the pixel; in that sweep  *)
(* the first line is done up to the iterator.                                       *)
RowPassed(g, i, sw, x) == (sw = "forward" /\ i.linear = Nth(g, i.x, i.y)) => i.y > 0 \/ x < i.x

(* A later sweep forward begins at the last pixel of the first line.                *)
Forwards(g, d, i, ch) ==
  /\ \/ i.linear = Nth(g, i.x, i.y)
     \/ i.linear = Nth(g, i.x, i.y) - (g.xs - 1) /\ (i.y >= 1 \/ i.x = g.xs - 1)
     \/ i.linear = g.xs * g.ys /\ i.x = g.xs - 1 /\ i.y = g.ys - 1
  /\ ~ch => \A p \in Spots(g) : i.linear = g.xs * g.ys \/ Earlier(p, Spot(i)) =>
                                  HalfStable(g, d, p) /\ (Revisited(g, p) => Stable(g, d, p))

Backwards(g, d, i, ch) ==
  /\ \/ i.linear = Nth(g, i.x, i.y) + 1
     \/ i.linear = 0 /\ i.x = g.xs - 1 /\ i.y = 0
  /\ \A p \in Spots(g) : i.linear = 0 \/ Earlier(Spot(i), p) =>
                           HalfStable(g, d, p) /\ (~ch => Stable(g, d, p))

Sweeps(g, S, d, i, sw, ch) ==
  /\ Stance(g, i)
  /\ SourcesAreZero(g, S, d)
  /\ \A x \in 0 .. g.xs - 1 : RowPassed(g, i, sw, x) => RowIsDone(g, S, d, x)
  /\ sw = "forward" => Forwards(g, d, i, ch)
  /\ sw = "back" => Backwards(g, d, i, ch)
  /\ sw = "done" => AllSettled(g, d)

LEMMA SpotOf ==
  ASSUME NEW g, Small(g), NEW i, Stance(g, i)
  PROVE  /\ Spot(i) \in Spots(g) /\ PixelAt(i) = Spot(i)
         /\ CellAt(i) = CellOf(g, Spot(i))
         /\ i.x \in Nat /\ i.y \in Nat /\ i.x <= g.xs - 1 /\ i.y <= g.ys - 1
         /\ g.xs \in Nat /\ g.ys \in Nat /\ g.xs >= 3 /\ g.ys >= 1
         /\ i.linear \in Int
<1>1. /\ i.x \in 0 .. g.xs - 1 /\ i.y \in 0 .. g.ys - 1 /\ i.z = 0 /\ g.xs \in Nat /\ g.ys \in Nat
      /\ g.xs >= 3 /\ g.ys >= 1 /\ i.linear \in Int
  BY StanceTypes
<1>2. Spot(i) \in Spots(g) /\ PixelAt(i) = Spot(i)
  BY <1>1 DEF Spot, Spots, PixelAt
<1>3. CellAt(i) = CellOf(g, PixelAt(i))
  BY InCellIs DEF Stance
<1> QED BY <1>1, <1>2, <1>3

LEMMA NthNext ==
  ASSUME NEW g, Small(g), NEW x \in Nat, NEW y \in Nat
  PROVE  /\ Nth(g, x, y) \in Nat
         /\ Nth(g, x + 1, y) = Nth(g, x, y) + 1
         /\ Nth(g, 0, y + 1) = Nth(g, g.xs - 1, y) + 1
<1> DEFINE w == g.xs
<1>1. w \in Nat /\ w >= 3
  BY ExtentTypes DEF Small
<1> HIDE DEF w
<1>2. w * y \in Nat /\ w * (y + 1) = w * y + w /\ w * (y - 1) = w * y - w
  BY <1>1
<1>3. y > 0 => w * y > 0
  <2>1. y > 0 => w * 0 + w <= w * y /\ w * 0 = 0
    BY <1>1, MulLess
  <2> QED BY <1>1, <1>2, <2>1
<1> DEFINE a == w * y
<1>4. /\ Nth(g, x, y) = a + x /\ Nth(g, x + 1, y) = a + (x + 1)
      /\ Nth(g, 0, y + 1) = w * (y + 1) + 0 /\ Nth(g, w - 1, y) = a + (w - 1)
      /\ Nth(g, x - 1, y) = a + (x - 1) /\ Nth(g, w - 1, y - 1) = w * (y - 1) + (w - 1)
      /\ Nth(g, 0, y) = a + 0
  BY DEF Nth, w
<1>5. a \in Nat /\ w * (y + 1) = a + w /\ w * (y - 1) = a - w /\ (y > 0 => a > 0)
  BY <1>2, <1>3
<1> HIDE DEF a
<1> QED BY <1>1, <1>4, <1>5 DEF w

LEMMA NthBefore ==
  ASSUME NEW g, Small(g), NEW x \in Nat, NEW y \in Nat
  PROVE  /\ x > 0 => Nth(g, x - 1, y) + 1 = Nth(g, x, y)
         /\ y > 0 => Nth(g, g.xs - 1, y - 1) + 1 = Nth(g, 0, y)
         /\ Nth(g, x, y) = 0 => x = 0 /\ y = 0
<1> DEFINE w == g.xs
<1>1. w \in Nat /\ w >= 3
  BY ExtentTypes DEF Small
<1> HIDE DEF w
<1>2. w * y \in Nat /\ w * (y + 1) = w * y + w /\ w * (y - 1) = w * y - w
  BY <1>1
<1>3. y > 0 => w * y > 0
  <2>1. y > 0 => w * 0 + w <= w * y /\ w * 0 = 0
    BY <1>1, MulLess
  <2> QED BY <1>1, <1>2, <2>1
<1> DEFINE a == w * y
<1>4. /\ Nth(g, x, y) = a + x /\ Nth(g, x + 1, y) = a + (x + 1)
      /\ Nth(g, 0, y + 1) = w * (y + 1) + 0 /\ Nth(g, w - 1, y) = a + (w - 1)
      /\ Nth(g, x - 1, y) = a + (x - 1) /\ Nth(g, w - 1, y - 1) = w * (y - 1) + (w - 1)
      /\ Nth(g, 0, y) = a + 0
  BY DEF Nth, w
<1>5. a \in Nat /\ w * (y + 1) = a + w /\ w * (y - 1) = a - w /\ (y > 0 => a > 0)
  BY <1>2, <1>3
<1> HIDE DEF a
<1> QED BY <1>1, <1>4, <1>5 DEF w

LEMMA SettledSame ==
  ASSUME NEW g, NEW d, NEW e, NEW p, NEW q,
         At(g, e, p) = At(g, d, p), At(g, e, q) = At(g, d, q)
  PROVE  Settled(g, d, p, q) => Settled(g, e, p, q)
BY DEF Settled

(* What each part of a sweep keeps: a step forward, ...                             *)
LEMMA ForwardKeeps ==
  ASSUME NEW g, Small(g), NEW S \in SUBSET Spots(g), NEW d \in DistancesOf(g),
         NEW i, NEW ch \in BOOLEAN, Sweeps(g, S, d, i, "forward", ch), i.linear # g.xs * g.ys,
         NEW e, Improved(g, d, e, Spot(i)), NEW c \in BOOLEAN, ~c => ~ch /\ e = d,
         NEW k, k = Move(g, i, 1)
  PROVE  Sweeps(g, S, e, k, "forward", c)
<1> DEFINE p == Spot(i)
<1>1. Stance(g, i) /\ Forwards(g, d, i, ch) /\ SourcesAreZero(g, S, d)
  BY DEF Sweeps
<1>2. /\ p \in Spots(g) /\ p[1] = i.x /\ p[2] = i.y
      /\ i.x \in Nat /\ i.y \in Nat /\ i.x <= g.xs - 1 /\ i.y <= g.ys - 1
      /\ g.xs \in Nat /\ g.ys \in Nat /\ g.xs >= 3 /\ g.ys >= 1 /\ i.linear \in Int
  BY <1>1, SpotOf DEF Spot
<1>3. /\ Stance(g, k)
      /\ i.x = g.xs - 1 /\ i.y = g.ys - 1 => k.linear = g.xs * g.ys /\ k.x = i.x /\ k.y = i.y
      /\ i.x = g.xs - 1 /\ i.y < g.ys - 1 => k.linear = i.linear + 1 /\ k.x = 0 /\ k.y = i.y + 1
      /\ i.x < g.xs - 1 => k.linear = i.linear + 1 /\ k.x = i.x + 1 /\ k.y = i.y
  <2>1. k.linear = k.end /\ Stance(g, k) => k.linear = g.xs * g.ys
    BY DEF Stance
  <2> QED BY <1>1, <2>1, ForwardIs
<1>4. /\ e \in DistancesOf(g) /\ Stable(g, e, p) /\ SourcesAreZero(g, S, e)
  BY <1>1, <1>2, ImprovedIs
<1>5. \/ i.linear = Nth(g, i.x, i.y)
      \/ i.linear = Nth(g, i.x, i.y) - (g.xs - 1) /\ (i.y >= 1 \/ i.x = g.xs - 1)
  BY <1>1 DEF Forwards
<1>6. ASSUME ~(i.x = g.xs - 1 /\ i.y = g.ys - 1)
      PROVE  Nth(g, k.x, k.y) = Nth(g, i.x, i.y) + 1 /\ k.linear = i.linear + 1
             /\ Nth(g, i.x, i.y) \in Nat
  <2>1. /\ Nth(g, i.x, i.y) \in Nat
        /\ Nth(g, i.x + 1, i.y) = Nth(g, i.x, i.y) + 1
        /\ Nth(g, 0, i.y + 1) = Nth(g, g.xs - 1, i.y) + 1
    <3> DEFINE x == i.x
               y == i.y
    <3>1. x \in Nat /\ y \in Nat
      BY <1>2
    <3> HIDE DEF x, y
    <3>2. /\ Nth(g, x, y) \in Nat
          /\ Nth(g, x + 1, y) = Nth(g, x, y) + 1
          /\ Nth(g, 0, y + 1) = Nth(g, g.xs - 1, y) + 1
      BY <3>1, NthNext
    <3> QED BY <3>2 DEF x, y
  <2>2. CASE i.x < g.xs - 1
    BY <1>3, <2>1, <2>2
  <2>3. CASE i.x = g.xs - 1
    <3>1. i.y < g.ys - 1
      BY <1>2, <1>6, <2>3
    <3> QED BY <1>3, <2>1, <2>3, <3>1
  <2> QED BY <1>2, <2>2, <2>3
<1>7. ASSUME i.x = g.xs - 1 /\ i.y = g.ys - 1
      PROVE  k.linear = g.xs * g.ys /\ k.linear # Nth(g, k.x, k.y) /\ k.x = g.xs - 1 /\ k.y = g.ys - 1
  <2>1. k.x \in 0 .. g.xs - 1 /\ k.y \in 0 .. g.ys - 1
    BY <1>2, <1>3, <1>7
  <2> QED BY <1>3, <1>7, <2>1, NthIs
<1>8. \/ k.linear = Nth(g, k.x, k.y)
      \/ k.linear = Nth(g, k.x, k.y) - (g.xs - 1) /\ (k.y >= 1 \/ k.x = g.xs - 1)
      \/ k.linear = g.xs * g.ys /\ k.x = g.xs - 1 /\ k.y = g.ys - 1
  <2>1. CASE i.x = g.xs - 1 /\ i.y = g.ys - 1
    BY <1>7, <2>1
  <2>2. CASE ~(i.x = g.xs - 1 /\ i.y = g.ys - 1)
    <3>1. i.linear = Nth(g, i.x, i.y) => k.linear = Nth(g, k.x, k.y)
      BY <1>6, <2>2
    <3>2. i.linear = Nth(g, i.x, i.y) - (g.xs - 1) => k.linear = Nth(g, k.x, k.y) - (g.xs - 1)
      BY <1>2, <1>6, <2>2
    <3>3. i.y >= 1 \/ i.x = g.xs - 1 => k.y >= 1
      BY <1>2, <1>3, <2>2
    <3> QED BY <1>5, <3>1, <3>2, <3>3
  <2> QED BY <2>1, <2>2
<1>9. ASSUME NEW q \in Spots(g), k.linear = g.xs * g.ys \/ Earlier(q, Spot(k))
      PROVE  Earlier(q, p) \/ q = p
  <2>1. q[1] \in Nat /\ q[2] \in Nat /\ q[1] <= g.xs - 1 /\ q[2] <= g.ys - 1
    BY SpotIs
  <2>2. q = p <=> q[1] = i.x /\ q[2] = i.y
    BY <1>2, SpotsDiffer
  <2>3. CASE i.x = g.xs - 1 /\ i.y = g.ys - 1
    BY <1>2, <2>1, <2>2, <2>3 DEF Earlier
  <2>4. CASE ~(i.x = g.xs - 1 /\ i.y = g.ys - 1)
    <3>1. k.linear # g.xs * g.ys
      <4>1. k.linear <= Nth(g, k.x, k.y) /\ k.linear \in Int
        BY <1>2, <1>5, <1>6, <2>4
      <4>2. k.x \in 0 .. g.xs - 1 /\ k.y \in 0 .. g.ys - 1
        BY <1>3, StanceTypes
      <4>3. Nth(g, k.x, k.y) < g.xs * g.ys /\ Nth(g, k.x, k.y) \in Nat /\ g.xs * g.ys \in Nat
        BY <4>2, NthIs
      <4> QED BY <4>1, <4>3
    <3>2. q[2] < k.y \/ (q[2] = k.y /\ q[1] < k.x)
      BY <1>9, <3>1 DEF Earlier, Spot
    <3> QED BY <1>2, <1>3, <2>1, <2>2, <2>4, <3>2 DEF Earlier
  <2> QED BY <2>3, <2>4
<1>10. ASSUME ~c, NEW q \in Spots(g), k.linear = g.xs * g.ys \/ Earlier(q, Spot(k))
       PROVE  HalfStable(g, e, q) /\ (Revisited(g, q) => Stable(g, e, q))
  <2>1. CASE Earlier(q, p)
    BY <1>1, <1>10, <2>1 DEF Forwards
  <2>2. CASE q = p
    BY <1>4, <2>2 DEF Stable, HalfStable
  <2> QED BY <1>9, <1>10, <2>1, <2>2
<1>11. Forwards(g, e, k, c)
  BY <1>8, <1>10 DEF Forwards
<1>12. ASSUME NEW x \in 0 .. g.xs - 1, RowPassed(g, k, "forward", x)
       PROVE  RowIsDone(g, S, e, x)
  <2>1. CASE RowPassed(g, i, "forward", x)
    <3>1. RowIsDone(g, S, d, x)
      BY <2>1 DEF Sweeps
    <3> QED BY <1>1, <1>2, <3>1, RowStep
  <2>2. CASE ~RowPassed(g, i, "forward", x)
    <3>1. i.linear = Nth(g, i.x, i.y) /\ i.y = 0 /\ x >= i.x
      BY <1>2, <2>2 DEF RowPassed
    <3>2. x = i.x
      <4>1. CASE i.x = g.xs - 1
        BY <1>2, <3>1, <4>1
      <4>2. CASE i.x # g.xs - 1
        <5>1. k.linear = Nth(g, k.x, k.y)
          BY <1>6, <3>1, <4>2
        <5>2. k.y > 0 \/ x < k.x
          BY <1>12, <5>1 DEF RowPassed
        <5> QED BY <1>2, <1>3, <3>1, <4>2, <5>2
      <4> QED BY <4>1, <4>2
    <3>5. p = <<x, 0, 0>>
      BY <3>1, <3>2 DEF Spot
    <3>6. x # 0 => RowIsDone(g, S, d, x - 1)
      <4> SUFFICES ASSUME x # 0 PROVE RowIsDone(g, S, d, x - 1)
        OBVIOUS
      <4>1. x - 1 \in 0 .. g.xs - 1 /\ x - 1 < i.x
        BY <1>2, <3>2
      <4>2. RowPassed(g, i, "forward", x - 1)
        BY <4>1 DEF RowPassed
      <4> QED BY <4>1, <4>2 DEF Sweeps
    <3> QED BY <1>1, <1>2, <3>5, <3>6, RowStep
  <2> QED BY <2>1, <2>2
<1> QED BY <1>3, <1>4, <1>11, <1>12 DEF Sweeps

(* ... a step back, ...                                                             *)
LEMMA BackKeeps ==
  ASSUME NEW g, Small(g), NEW S \in SUBSET Spots(g), NEW d \in DistancesOf(g),
         NEW i, NEW ch \in BOOLEAN, Sweeps(g, S, d, i, "back", ch), i.linear # 0,
         NEW e, Improved(g, d, e, Spot(i)), NEW c \in BOOLEAN, ~c => ~ch /\ e = d,
         NEW k, k = Move(g, i, -1)
  PROVE  Sweeps(g, S, e, k, "back", c)
<1> DEFINE p == Spot(i)
<1>1. Stance(g, i) /\ Backwards(g, d, i, ch) /\ SourcesAreZero(g, S, d)
  BY DEF Sweeps
<1>2. /\ p \in Spots(g) /\ p[1] = i.x /\ p[2] = i.y
      /\ i.x \in Nat /\ i.y \in Nat /\ i.x <= g.xs - 1 /\ i.y <= g.ys - 1
      /\ g.xs \in Nat /\ g.ys \in Nat /\ g.xs >= 3 /\ g.ys >= 1 /\ i.linear \in Int
  BY <1>1, SpotOf DEF Spot
<1>3. i.linear = Nth(g, i.x, i.y) + 1 /\ Nth(g, i.x, i.y) \in Nat
  <2>1. i.linear = Nth(g, i.x, i.y) + 1
    BY <1>1 DEF Backwards
  <2> QED BY <1>2, <2>1, NthNext
<1>4. /\ Stance(g, k) /\ k.linear = i.linear - 1
      /\ i.x > 0 => k.x = i.x - 1 /\ k.y = i.y
      /\ i.x = 0 => k.x = g.xs - 1 /\ k.y = IF i.y = 0 THEN 0 ELSE i.y - 1
  <2>1. i.x = 0 => i.linear # i.end
    <3>1. i.x \in 0 .. g.xs - 1 /\ i.y \in 0 .. g.ys - 1
      BY <1>2
    <3>2. i.x < g.xs - 1 => Nth(g, i.x, i.y) + 1 < g.xs * g.ys
      BY <3>1, NthIs
    <3>3. g.xs * g.ys \in Nat
      BY NthIs
    <3>4. i.end = g.xs * g.ys
      BY <1>1 DEF Stance
    <3> QED BY <1>2, <1>3, <3>2, <3>3, <3>4
  <2> QED BY <1>1, <2>1, BackIs
<1>5. /\ e \in DistancesOf(g) /\ Stable(g, e, p) /\ SourcesAreZero(g, S, e)
      /\ \A q \in Spots(g) \ {p} : At(g, e, q) = At(g, d, q)
  <2>1. p \in Spots(g)
    BY <1>2
  <2>2. /\ e \in DistancesOf(g)
        /\ \A q \in Spots(g) \ {p} : At(g, e, q) = At(g, d, q)
        /\ Stable(g, e, p)
        /\ At(g, d, p) # Far => AtMost(At(g, e, p), At(g, d, p))
        /\ NoneNearer(g, S, d) => NoneNearer(g, S, e)
        /\ SourcesAreZero(g, S, d) => SourcesAreZero(g, S, e)
    BY <2>1, ImprovedIs, Zenon
  <2> QED BY <1>1, <2>2
<1>6. /\ i.x > 0 => Nth(g, i.x - 1, i.y) + 1 = Nth(g, i.x, i.y)
      /\ i.y > 0 => Nth(g, g.xs - 1, i.y - 1) + 1 = Nth(g, 0, i.y)
      /\ Nth(g, i.x, i.y) = 0 => i.x = 0 /\ i.y = 0
  <2> DEFINE x == i.x
             y == i.y
  <2>1. x \in Nat /\ y \in Nat
    BY <1>2
  <2> HIDE DEF x, y
  <2>2. /\ x > 0 => Nth(g, x - 1, y) + 1 = Nth(g, x, y)
        /\ y > 0 => Nth(g, g.xs - 1, y - 1) + 1 = Nth(g, 0, y)
        /\ Nth(g, x, y) = 0 => x = 0 /\ y = 0
    BY <2>1, NthBefore
  <2> QED BY <2>2 DEF x, y
<1>7. Nth(g, 0, 0) = 0
  BY NthIs
<1>8. \/ k.linear = Nth(g, k.x, k.y) + 1
      \/ k.linear = 0 /\ k.x = g.xs - 1 /\ k.y = 0
  <2>1. k.linear = Nth(g, i.x, i.y)
    BY <1>3, <1>4
  <2>2. CASE i.x > 0
    BY <1>4, <1>6, <2>1, <2>2
  <2>3. CASE i.x = 0 /\ i.y > 0
    BY <1>4, <1>6, <2>1, <2>3
  <2>4. CASE i.x = 0 /\ i.y = 0
    BY <1>4, <1>7, <2>1, <2>4
  <2> QED BY <1>2, <2>2, <2>3, <2>4
<1>9. ASSUME NEW q \in Spots(g), k.linear = 0 \/ Earlier(Spot(k), q)
      PROVE  Earlier(p, q) \/ q = p
  <2>1. q[1] \in Nat /\ q[2] \in Nat /\ q[1] <= g.xs - 1 /\ q[2] <= g.ys - 1
    BY SpotIs
  <2>2. q = p <=> q[1] = i.x /\ q[2] = i.y
    BY <1>2, SpotsDiffer
  <2>3. CASE k.linear = 0
    <3>1. i.x = 0 /\ i.y = 0
      BY <1>3, <1>4, <1>6, <2>3
    <3> QED BY <1>2, <2>1, <2>2, <3>1 DEF Earlier
  <2>4. CASE k.linear # 0
    <3>1. k.y < q[2] \/ (k.y = q[2] /\ k.x < q[1])
      BY <1>9, <2>4 DEF Earlier, Spot
    <3>2. ~(i.x = 0 /\ i.y = 0)
      BY <1>3, <1>4, <1>7, <2>4
    <3> QED BY <1>2, <1>4, <2>1, <2>2, <3>1, <3>2 DEF Earlier
  <2> QED BY <2>3, <2>4
<1>10. ASSUME NEW q \in Spots(g), k.linear = 0 \/ Earlier(Spot(k), q)
       PROVE  HalfStable(g, e, q) /\ (~c => Stable(g, e, q))
  <2>1. CASE q = p
    BY <1>5, <2>1 DEF Stable, HalfStable
  <2>2. CASE Earlier(p, q)
    <3>1. HalfStable(g, d, q) /\ (~ch => Stable(g, d, q))
      BY <1>1, <2>2 DEF Backwards
    <3>2. HalfStable(g, e, q)
      <4> SUFFICES ASSUME NEW r \in Near(g, q), Earlier(q, r) PROVE Settled(g, e, q, r)
        BY DEF HalfStable
      <4>1. r \in Spots(g)
        BY DEF Near
      <4>2. q # p /\ r # p
        BY <2>2, <4>1, SpotIs, <1>2 DEF Earlier
      <4>3. Settled(g, d, q, r)
        BY <3>1 DEF HalfStable
      <4> QED BY <1>5, <4>1, <4>2, <4>3, SettledSame
    <3> QED BY <3>1, <3>2
  <2> QED BY <1>9, <1>10, <2>1, <2>2
<1>11. Backwards(g, e, k, c)
  BY <1>8, <1>10 DEF Backwards
<1>12. ASSUME NEW x \in 0 .. g.xs - 1
       PROVE  RowIsDone(g, S, e, x)
  <2>1. RowIsDone(g, S, d, x)
    BY DEF Sweeps, RowPassed
  <2> QED BY <1>1, <1>2, <2>1, RowStep
<1> QED BY <1>4, <1>5, <1>11, <1>12 DEF Sweeps

(* ... and the two turns.                                                           *)
LEMMA TurnBackKeeps ==
  ASSUME NEW g, Small(g), NEW S \in SUBSET Spots(g), NEW d \in DistancesOf(g),
         NEW i, NEW ch \in BOOLEAN, Sweeps(g, S, d, i, "forward", ch), i.linear = g.xs * g.ys
  PROVE  Sweeps(g, S, d, i, IF ch THEN "back" ELSE "done", FALSE)
<1>1. Stance(g, i) /\ Forwards(g, d, i, ch) /\ SourcesAreZero(g, S, d)
  BY DEF Sweeps
<1>2. /\ i.x \in 0 .. g.xs - 1 /\ i.y \in 0 .. g.ys - 1 /\ g.xs \in Nat /\ g.ys \in Nat /\ g.xs >= 3
      /\ g.xs * g.ys \in Nat /\ Nth(g, i.x, i.y) \in Nat /\ Nth(g, i.x, i.y) < g.xs * g.ys
  BY <1>1, NthIs, StanceTypes
<1>3. i.x = g.xs - 1 /\ i.y = g.ys - 1
  BY <1>1, <1>2 DEF Forwards
<1>4. i.linear = Nth(g, i.x, i.y) + 1 /\ i.linear # 0
  <2>1. Nth(g, i.x, i.y) = g.xs * g.ys - 1
    BY <1>2, <1>3, NthIs
  <2> QED BY <1>2, <2>1
<1>5. ASSUME NEW q \in Spots(g) PROVE ~Earlier(Spot(i), q)
  <2>1. q[1] \in Nat /\ q[2] \in Nat /\ q[1] <= g.xs - 1 /\ q[2] <= g.ys - 1
    BY SpotIs
  <2> QED BY <1>2, <1>3, <2>1 DEF Earlier, Spot
<1>6. Backwards(g, d, i, FALSE)
  BY <1>4, <1>5 DEF Backwards
<1>7. ~ch => AllSettled(g, d)
  BY <1>1 DEF Forwards, AllSettled
<1>8. \A x \in 0 .. g.xs - 1 : RowIsDone(g, S, d, x)
  <2>1. i.linear # Nth(g, i.x, i.y)
    BY <1>2
  <2> QED BY <2>1 DEF Sweeps, RowPassed
<1>9. CASE ch
  BY <1>1, <1>6, <1>8, <1>9 DEF Sweeps
<1>10. CASE ~ch
  BY <1>1, <1>7, <1>8, <1>10 DEF Sweeps
<1> QED BY <1>9, <1>10

LEMMA TurnForwardKeeps ==
  ASSUME NEW g, Small(g), NEW S \in SUBSET Spots(g), NEW d \in DistancesOf(g),
         NEW i, NEW ch \in BOOLEAN, Sweeps(g, S, d, i, "back", ch), i.linear = 0
  PROVE  Sweeps(g, S, d, i, IF ch THEN "forward" ELSE "done", FALSE)
<1>1. Stance(g, i) /\ Backwards(g, d, i, ch) /\ SourcesAreZero(g, S, d)
  BY DEF Sweeps
<1>2. /\ i.x \in 0 .. g.xs - 1 /\ i.y \in 0 .. g.ys - 1 /\ g.xs \in Nat /\ g.ys \in Nat /\ g.xs >= 3
      /\ g.xs * g.ys \in Nat /\ Nth(g, i.x, i.y) \in Nat /\ Nth(g, i.x, i.y) < g.xs * g.ys
  BY <1>1, NthIs, StanceTypes
<1>3. i.x = g.xs - 1 /\ i.y = 0
  BY <1>1, <1>2 DEF Backwards
<1>4. Nth(g, i.x, i.y) = g.xs - 1
  BY <1>3, NthIs
<1>5. i.linear = Nth(g, i.x, i.y) - (g.xs - 1) /\ i.linear # Nth(g, i.x, i.y)
  BY <1>2, <1>4
<1>6. ASSUME NEW q \in Spots(g), i.linear = g.xs * g.ys \/ Earlier(q, Spot(i))
      PROVE  HalfStable(g, d, q) /\ (Revisited(g, q) => Stable(g, d, q))
  <2>1. q[1] \in Nat /\ q[2] \in Nat /\ q[1] <= g.xs - 1 /\ q[2] <= g.ys - 1
    BY SpotIs
  <2>2. HalfStable(g, d, q)
    BY <1>1 DEF Backwards
  <2>3. ~Revisited(g, q)
    <3>1. Earlier(q, Spot(i))
      BY <1>2, <1>6
    <3> QED BY <1>2, <1>3, <2>1, <3>1 DEF Earlier, Spot, Revisited
  <2> QED BY <2>2, <2>3
<1>7. Forwards(g, d, i, FALSE)
  BY <1>3, <1>5, <1>6 DEF Forwards
<1>8. ~ch => AllSettled(g, d)
  BY <1>1 DEF Backwards, AllSettled
<1>9. \A x \in 0 .. g.xs - 1 : RowIsDone(g, S, d, x)
  BY DEF Sweeps, RowPassed
<1>10. CASE ch
  BY <1>1, <1>7, <1>9, <1>10 DEF Sweeps
<1>11. CASE ~ch
  BY <1>1, <1>8, <1>9, <1>11 DEF Sweeps
<1> QED BY <1>10, <1>11

-----------------------------------------------------------------------------
(* The steps of distanceraster *)
(* setDistanceValue improves the pixel of the iterator.                             *)
LEMMA NearestIs ==
  ASSUME Small(grid), distances \in DistancesOf(grid), NEW p \in Spots(grid),
         NEW n, n = DR!Nearest(p, At(grid, distances, p)),
         NEW e, e = [distances EXCEPT ![CellOf(grid, p)] = n]
  PROVE  Improved(grid, distances, e, p)
<1> DEFINE v == At(grid, distances, p)
           T == DR!Distances(p, v)
           Least(m) == \A f \in T : f = Far \/ (m # Far /\ m <= f)
<1>0. Far \notin Int
  BY GridsAssumption
<1>1. DR!Neighbours(p) = Near(grid, p)
  <2>1. DR!Pixels = Spots(grid)
    <3>1. grid.zs - 1 = 0 /\ 0 .. 0 = {0}
      BY DEF Small
    <3> QED BY <3>1 DEF DR!Pixels, DR!PixelsOf, DR!WholeBox, DR!BoxOf, Spots
  <2> QED BY <2>1 DEF DR!Neighbours, Near
<1>2. v \in Lengths
  BY LengthIs
<1>3. \A q \in Near(grid, p) : At(grid, distances, q) \in Lengths /\ DR!StepTo(p, q) \in Nat
  BY LengthIs DEF Near, DR!StepTo
<1>4. T = {v} \union {DR!Further(At(grid, distances, q), DR!StepTo(p, q)) : q \in Near(grid, p)}
  BY <1>1, CellD DEF DR!Distances, At
<1>5. T \subseteq Lengths
  <2>1. \A q \in Near(grid, p) : DR!Further(At(grid, distances, q), DR!StepTo(p, q)) \in Lengths
    BY <1>3 DEF DR!Further, Lengths
  <2> QED BY <1>2, <1>4, <2>1
<1>6. v \in T
  BY <1>4
<1>7. n = CHOOSE m \in T : Least(m)
  BY Zenon DEF DR!Nearest
<1>8. \E m \in T : Least(m)
  <2> DEFINE U == {m \in T : m # Far}
  <2> HIDE DEF T
  <2>1. U \subseteq Nat
    BY <1>5 DEF Lengths
  <2>2. CASE U = {}
    <3>1. \A f \in T : f = Far
      BY <2>2
    <3> QED BY <1>6, <3>1
  <2>3. CASE U # {}
    <3>1. PICK m \in U : \A f \in U : m <= f
      <4> HIDE DEF U
      <4> QED BY <2>1, <2>3, LeastNumber
    <3> QED BY <3>1
  <2> QED BY <2>2, <2>3
<1>9. n \in T /\ Least(n)
  <2> HIDE DEF T, Least
  <2> QED BY <1>7, <1>8, Zenon
<1>10. \A q \in Near(grid, p) : At(grid, distances, q) # Far =>
         AtMost(n, At(grid, distances, q) + DR!StepTo(p, q))
  <2> SUFFICES ASSUME NEW q \in Near(grid, p), At(grid, distances, q) # Far
               PROVE  AtMost(n, At(grid, distances, q) + DR!StepTo(p, q))
    OBVIOUS
  <2> DEFINE f == At(grid, distances, q) + DR!StepTo(p, q)
  <2>1. DR!Further(At(grid, distances, q), DR!StepTo(p, q)) \in T
    <3> HIDE DEF T
    <3> QED BY <1>4
  <2>2. f \in T /\ f \in Nat
    <3>1. DR!Further(At(grid, distances, q), DR!StepTo(p, q)) = f
      BY DEF DR!Further
    <3> HIDE DEF T
    <3> QED BY <1>3, <2>1, <3>1 DEF Lengths
  <2> HIDE DEF T, f
  <2>3. f # Far
    BY <1>0, <2>2
  <2> QED BY <1>9, <2>2, <2>3 DEF AtMost, f
<1>11. v # Far => AtMost(n, v)
  <2> HIDE DEF T
  <2> QED BY <1>6, <1>9 DEF AtMost
<1>12. n = v \/ \E q \in Near(grid, p) : At(grid, distances, q) # Far /\ n = At(grid, distances, q) + DR!StepTo(p, q)
  <2> SUFFICES ASSUME n # v
               PROVE  \E q \in Near(grid, p) : At(grid, distances, q) # Far /\ n = At(grid, distances, q) + DR!StepTo(p, q)
    OBVIOUS
  <2>1. PICK q \in Near(grid, p) : n = DR!Further(At(grid, distances, q), DR!StepTo(p, q))
    <3> HIDE DEF T
    <3> QED BY <1>4, <1>9
  <2>2. n # Far
    <3> HIDE DEF T
    <3> QED BY <1>6, <1>9
  <2>3. At(grid, distances, q) # Far
    BY <2>1, <2>2 DEF DR!Further
  <2> QED BY <2>1, <2>3 DEF DR!Further
<1>13. n \in Lengths
  <2> HIDE DEF T
  <2> QED BY <1>5, <1>9
<1> HIDE DEF T
<1> QED BY <1>10, <1>11, <1>12, <1>13 DEF Improved

LEMMA SetIs ==
  ASSUME Small(grid), distances \in DistancesOf(grid), changes \in BOOLEAN, Stance(grid, iter),
         DR!SetDistanceValue
  PROVE  /\ Improved(grid, distances, distances', Spot(iter))
         /\ changes' \in BOOLEAN
         /\ ~changes' => ~changes /\ distances' = distances
<1> DEFINE p == Spot(iter)
           old == At(grid, distances, p)
           n == DR!Nearest(p, old)
<1>1. p \in Spots(grid) /\ DR!PixelAt(iter) = p /\ DR!CellAt(iter) = CellOf(grid, p)
  BY SpotOf, CellD
<1>2. distances[CellOf(grid, p)] = old
  BY DEF At
<1>3. distances' = [distances EXCEPT ![CellOf(grid, p)] = n] /\ changes' = (changes \/ n # old)
  <2> HIDE DEF p, old
  <2> QED BY <1>1, <1>2 DEF DR!SetDistanceValue
<1> HIDE DEF n, p
<1>4. Improved(grid, distances, distances', p)
  BY <1>1, <1>3, NearestIs DEF n
<1>5. CellOf(grid, p) \in Cells(grid)
  BY <1>1, LengthIs
<1>6. n = old => distances' = distances
  BY <1>3, <1>5 DEF DistancesOf, At
<1> QED BY <1>3, <1>4, <1>6 DEF p

(* The inductive invariant: in a raster of one block, with two lines or more, no    *)
(* pixel is nearer to a source than it is, and the sweep has done its part.         *)
Sweeping ==
  operation = "distance" =>
    /\ grid \in Grids /\ sources \in SUBSET Spots(grid) /\ changes \in BOOLEAN
    /\ grid.ys = 1 <=> sweep = "threw"
    /\ grid.ys # 1 /\ grid.ys <= grid.maxLines =>
         /\ distances \in DistancesOf(grid)
         /\ NoneNearer(grid, sources, distances)
         /\ Sweeps(grid, sources, distances, iter, sweep, changes)

LEMMA SmallIs ==
  ASSUME grid \in Grids, grid.ys <= grid.maxLines
  PROVE  Small(grid)
<1>1. grid \in Extents /\ grid.xs >= 3 /\ grid.zs = 1
  BY GridsAssumption
<1> QED BY <1>1, ExtentTypes DEF Small

LEMMA PixelsD ==
  ASSUME grid \in Grids
  PROVE  DR!Pixels = Spots(grid)
<1>1. grid.zs - 1 = 0 /\ 0 .. 0 = {0}
  BY GridsAssumption
<1> QED BY <1>1 DEF DR!Pixels, DR!PixelsOf, DR!WholeBox, DR!BoxOf, Spots

LEMMA EndsAre ==
  ASSUME Small(grid)
  PROVE  /\ DR!AtEnd <=> iter.linear = grid.xs * grid.ys
         /\ DR!AtBegin <=> iter.linear = 0
<1> DEFINE f == Iterator(grid, WholeBox(grid), "XYZ")
<1>1. f.linear = 0 /\ EndOf(grid, f).linear = grid.xs * grid.ys
  BY FirstStance
<1>2. DR!First = f
  BY FirstD
<1>3. f.flow = "XYZ"
  BY FirstStance, StanceTypes
<1> HIDE DEF f
<1>4. DR!EndOf(grid, f) = EndOf(grid, f)
  BY <1>3, MoveD DEF DR!EndOf, EndOf
<1> QED BY <1>1, <1>2, <1>4 DEF DR!AtEnd, DR!AtBegin

(* Only a raster of one line is too thin for the iterator.                          *)
LEMMA FirstValid ==
  ASSUME grid \in Grids
  PROVE  DR!IsValid(DR!First) <=> grid.ys # 1
<1> DEFINE b == WholeBox(grid)
           e == Ensure(grid, b)
<1>1. /\ grid.xs \in Nat /\ grid.xs >= 3 /\ grid.ys \in Nat \ {0} /\ grid.zs = 1
  BY GridsAssumption, ExtentTypes
<1>2. b = BoxOf(0, 0, 0, grid.xs - 1, grid.ys - 1, grid.zs - 1)
  BY DEF WholeBox
<1>3. e.x1 = 0 /\ e.x2 = grid.xs - 1 /\ e.y1 = 0 /\ e.y2 = grid.ys - 1
  BY <1>1, <1>2 DEF Ensure, BoxOf, XLength, YLength, ZLength, Smallest
<1>4. IsValid(Iterator(grid, b, "XYZ")) <=> e.x1 < e.x2 /\ e.y1 < e.y2
  BY IteratorBox
<1>5. DR!First = Iterator(grid, b, "XYZ")
  BY FirstD
<1>6. \A i : DR!IsValid(i) <=> IsValid(i)
  BY DEF DR!IsValid, IsValid
<1> HIDE DEF b, e
<1> QED BY <1>1, <1>3, <1>4, <1>5, <1>6

LEMMA DistanceInit ==
  ASSUME operation = "distance", DR!Init
  PROVE  Sweeping
<1>1. grid \in Grids /\ sources \in SUBSET Spots(grid) /\ changes = FALSE
  BY PixelsD DEF DR!Init
<1>2. iter = Iterator(grid, WholeBox(grid), "XYZ")
  BY FirstD DEF DR!Init
<1>3. DR!IsValid(DR!First) <=> grid.ys # 1
  BY <1>1, FirstValid
<1>4. grid.ys = 1 <=> sweep = "threw"
  BY <1>3 DEF DR!Init
<1>5. SUFFICES ASSUME grid.ys # 1, grid.ys <= grid.maxLines
               PROVE  /\ distances \in DistancesOf(grid)
                      /\ NoneNearer(grid, sources, distances)
                      /\ Sweeps(grid, sources, distances, iter, sweep, changes)
  BY <1>1, <1>4 DEF Sweeping
<1>6. Small(grid)
  BY <1>1, <1>5, SmallIs
<1>7. /\ sweep = "forward"
      /\ distances = [c \in Cells(grid) |-> IF \E p \in sources : CellOf(grid, p) = c THEN 0 ELSE Far]
  BY <1>5, <1>3, CellsD, CellD DEF DR!Init
<1>8. distances \in DistancesOf(grid)
  BY <1>7 DEF DistancesOf, Lengths
<1>9. ASSUME NEW p \in Spots(grid)
      PROVE  At(grid, distances, p) = IF p \in sources THEN 0 ELSE Far
  <2>1. CellOf(grid, p) \in Cells(grid)
    BY <1>6, <1>8, LengthIs
  <2>2. (\E q \in sources : CellOf(grid, q) = CellOf(grid, p)) <=> p \in sources
    BY <1>1, <1>6, SpotsApart
  <2> QED BY <1>7, <2>1, <2>2 DEF At
<1>10. NoneNearer(grid, sources, distances)
  <2> SUFFICES ASSUME NEW p \in Spots(grid), At(grid, distances, p) # Far
               PROVE  \E s \in sources : DR!Way(p, s) <= At(grid, distances, p)
    BY DEF NoneNearer
  <2>1. p \in sources /\ At(grid, distances, p) = 0
    BY <1>9
  <2>2. DR!Way(p, p) = 0
    BY <1>6, WayIs
  <2> QED BY <2>1, <2>2
<1>11. SourcesAreZero(grid, sources, distances)
  BY <1>1, <1>9 DEF SourcesAreZero
<1>12. /\ Stance(grid, iter) /\ iter.x = 0 /\ iter.y = 0 /\ iter.linear = 0
       /\ grid.xs * grid.ys \in Nat /\ Nth(grid, 0, 0) = 0 /\ Nth(grid, 0, 0) < grid.xs * grid.ys
  <2>1. 0 \in 0 .. grid.xs - 1 /\ 0 \in 0 .. grid.ys - 1
    BY <1>6, ExtentTypes DEF Small
  <2> QED BY <1>2, <1>6, <2>1, FirstStance, NthIs
<1>13. Forwards(grid, distances, iter, FALSE)
  <2>1. \A q \in Spots(grid) : ~Earlier(q, Spot(iter))
    BY <1>6, <1>12, SpotIs DEF Earlier, Spot
  <2> QED BY <1>12, <2>1 DEF Forwards
<1>14. \A x \in 0 .. grid.xs - 1 : ~RowPassed(grid, iter, "forward", x)
  BY <1>12 DEF RowPassed
<1> QED BY <1>1, <1>7, <1>8, <1>10, <1>11, <1>12, <1>13, <1>14 DEF Sweeps

LEMMA ForwardSweeps ==
  ASSUME Sweeping, operation = "distance", operation' = operation, DR!Forward
  PROVE  Sweeping'
<1>1. /\ grid \in Grids /\ sources \in SUBSET Spots(grid) /\ changes \in BOOLEAN
      /\ grid' = grid /\ sources' = sources /\ sweep = "forward" /\ sweep' = "forward"
      /\ ~DR!AtEnd /\ DR!SetDistanceValue /\ iter' = DR!Move(grid, iter, 1)
  BY DEF Sweeping, DR!Forward
<1>2. changes' \in BOOLEAN
  BY <1>1 DEF DR!SetDistanceValue
<1>3. ASSUME grid.ys # 1, grid.ys <= grid.maxLines
      PROVE  /\ distances' \in DistancesOf(grid)
             /\ NoneNearer(grid, sources, distances')
             /\ Sweeps(grid, sources, distances', iter', "forward", changes')
  <2>1. /\ Small(grid) /\ distances \in DistancesOf(grid) /\ NoneNearer(grid, sources, distances)
        /\ Sweeps(grid, sources, distances, iter, "forward", changes)
    BY <1>1, <1>3, SmallIs DEF Sweeping
  <2>2. Stance(grid, iter) /\ iter.flow = "XYZ"
    BY <2>1, StanceTypes DEF Sweeps
  <2>3. /\ Improved(grid, distances, distances', Spot(iter))
        /\ ~changes' => ~changes /\ distances' = distances
    BY <1>1, <2>1, <2>2, SetIs
  <2>4. iter' = Move(grid, iter, 1) /\ iter.linear # grid.xs * grid.ys
    BY <1>1, <2>1, <2>2, MoveD, EndsAre
  <2>5. Sweeps(grid, sources, distances', iter', "forward", changes')
    BY <1>1, <1>2, <2>1, <2>3, <2>4, ForwardKeeps
  <2>6. Spot(iter) \in Spots(grid)
    BY <2>1, <2>2, SpotOf
  <2>7. distances' \in DistancesOf(grid) /\ NoneNearer(grid, sources, distances')
    BY <1>1, <2>1, <2>3, <2>6, ImprovedIs
  <2> QED BY <2>5, <2>7
<1> QED BY <1>1, <1>2, <1>3 DEF Sweeping

LEMMA BackSweeps ==
  ASSUME Sweeping, operation = "distance", operation' = operation, DR!Back
  PROVE  Sweeping'
<1>1. /\ grid \in Grids /\ sources \in SUBSET Spots(grid) /\ changes \in BOOLEAN
      /\ grid' = grid /\ sources' = sources /\ sweep = "back" /\ sweep' = "back"
      /\ ~DR!AtBegin /\ DR!SetDistanceValue /\ iter' = DR!Move(grid, iter, -1)
  BY DEF Sweeping, DR!Back
<1>2. changes' \in BOOLEAN
  BY <1>1 DEF DR!SetDistanceValue
<1>3. ASSUME grid.ys # 1, grid.ys <= grid.maxLines
      PROVE  /\ distances' \in DistancesOf(grid)
             /\ NoneNearer(grid, sources, distances')
             /\ Sweeps(grid, sources, distances', iter', "back", changes')
  <2>1. /\ Small(grid) /\ distances \in DistancesOf(grid) /\ NoneNearer(grid, sources, distances)
        /\ Sweeps(grid, sources, distances, iter, "back", changes)
    BY <1>1, <1>3, SmallIs DEF Sweeping
  <2>2. Stance(grid, iter) /\ iter.flow = "XYZ"
    BY <2>1, StanceTypes DEF Sweeps
  <2>3. /\ Improved(grid, distances, distances', Spot(iter))
        /\ ~changes' => ~changes /\ distances' = distances
    BY <1>1, <2>1, <2>2, SetIs
  <2>4. iter' = Move(grid, iter, -1) /\ iter.linear # 0
    BY <1>1, <2>1, <2>2, MoveD, EndsAre
  <2>5. Sweeps(grid, sources, distances', iter', "back", changes')
    BY <1>1, <1>2, <2>1, <2>3, <2>4, BackKeeps
  <2>6. Spot(iter) \in Spots(grid)
    BY <2>1, <2>2, SpotOf
  <2>7. distances' \in DistancesOf(grid) /\ NoneNearer(grid, sources, distances')
    BY <1>1, <2>1, <2>3, <2>6, ImprovedIs
  <2> QED BY <2>5, <2>7
<1> QED BY <1>1, <1>2, <1>3 DEF Sweeping

LEMMA TurnSweeps ==
  ASSUME Sweeping, operation = "distance", operation' = operation, DR!TurnBack \/ DR!TurnForward
  PROVE  Sweeping'
<1>1. /\ grid \in Grids /\ sources \in SUBSET Spots(grid) /\ changes \in BOOLEAN
      /\ grid' = grid /\ sources' = sources /\ distances' = distances /\ iter' = iter /\ changes' = FALSE
  BY DEF Sweeping, DR!TurnBack, DR!TurnForward
<1>2. ASSUME grid.ys # 1, grid.ys <= grid.maxLines
      PROVE  Sweeps(grid, sources, distances, iter, sweep', FALSE)
  <2>1. /\ Small(grid) /\ distances \in DistancesOf(grid)
        /\ Sweeps(grid, sources, distances, iter, sweep, changes)
    BY <1>1, <1>2, SmallIs DEF Sweeping
  <2>2. CASE DR!TurnBack
    <3>1. sweep = "forward" /\ iter.linear = grid.xs * grid.ys /\ sweep' = IF changes THEN "back" ELSE "done"
      BY <2>1, <2>2, EndsAre DEF DR!TurnBack
    <3> QED BY <1>1, <2>1, <3>1, TurnBackKeeps
  <2>3. CASE DR!TurnForward
    <3>1. sweep = "back" /\ iter.linear = 0 /\ sweep' = IF changes THEN "forward" ELSE "done"
      BY <2>1, <2>3, EndsAre DEF DR!TurnForward
    <3> QED BY <1>1, <2>1, <3>1, TurnForwardKeeps
  <2> QED BY <2>2, <2>3
<1>3. sweep # "threw" /\ sweep' # "threw"
  BY DEF DR!TurnBack, DR!TurnForward
<1> QED BY <1>1, <1>2, <1>3 DEF Sweeping

(* Every pixel gets its distance: in a raster of one block, with three columns and  *)
(* two lines or more, no pixel ever has a distance smaller than the shortest way to *)
(* a source, and when distanceCalculation ends every pixel has exactly that         *)
(* distance, although only the first of its sweeps starts at the first pixel; for a *)
(* raster of one line, and no other, the iterator is refused before any distance is *)
(* computed (distanceraster.cpp: distanceCalculation, setDistanceValue;             *)
(* pixeliterator.cpp: PixelIterator::init).                                         *)
THEOREM DistancesAreShortest == RastersSpec => []DistancesAreRight
<1>1. RastersInit => Sweeping
  <2>1. RastersInit /\ operation = "distance" => DR!Init
    BY DEF RastersInit
  <2> QED BY <2>1, DistanceInit DEF Sweeping
<1>2. Sweeping /\ [RastersNext]_rasterVars => Sweeping'
  <2> SUFFICES ASSUME Sweeping, [RastersNext]_rasterVars PROVE Sweeping'
    OBVIOUS
  <2>1. operation' = operation
    BY DEF RastersNext, rasterVars
  <2>2. CASE operation # "distance"
    BY <2>1, <2>2 DEF Sweeping
  <2>3. CASE operation = "distance" /\ DR!Next
    <3>1. CASE DR!Forward
      BY <2>1, <2>3, <3>1, ForwardSweeps
    <3>2. CASE DR!Back
      BY <2>1, <2>3, <3>2, BackSweeps
    <3>3. CASE DR!TurnBack \/ DR!TurnForward
      BY <2>1, <2>3, <3>3, TurnSweeps
    <3>4. CASE DR!Ended
      BY <2>1, <3>4 DEF Sweeping, DR!Ended, DR!vars
    <3> QED BY <2>3, <3>1, <3>2, <3>3, <3>4 DEF DR!Next
  <2>4. CASE UNCHANGED rasterVars
    BY <2>4 DEF rasterVars, distanceVars, Sweeping
  <2> QED BY <2>2, <2>3, <2>4 DEF RastersNext
<1>3. Sweeping => DistancesAreRight
  <2> SUFFICES ASSUME Sweeping, operation = "distance", grid.ys <= grid.maxLines, grid.ys > 1,
                      NEW p \in DR!Pixels
               PROVE  LET d == distances[DR!CellOf(grid, p)]
                      IN  /\ d = Far \/ (sources # {} /\ d >= DR!Distance(p))
                          /\ sweep = "done" => d = DR!Distance(p)
    BY DEF Sweeping, DistancesAreRight, DR!DistancesAreRight, DR!OneBlock
  <2>1. /\ Small(grid) /\ p \in Spots(grid) /\ sources \in SUBSET Spots(grid)
        /\ distances \in DistancesOf(grid) /\ NoneNearer(grid, sources, distances)
        /\ Sweeps(grid, sources, distances, iter, sweep, changes)
    BY SmallIs, PixelsD DEF Sweeping
  <2>2. distances[DR!CellOf(grid, p)] = At(grid, distances, p)
    BY CellD DEF At
  <2>3. ASSUME sweep = "done"
        PROVE  \A s \in sources : AtMost(At(grid, distances, p), DR!Way(p, s))
    <3>1. /\ SourcesAreZero(grid, sources, distances) /\ AllSettled(grid, distances)
          /\ RowsAreDone(grid, sources, distances)
      BY <2>1, <2>3 DEF Sweeps, RowPassed, RowsAreDone
    <3> QED BY <2>1, <3>1, Reached
  <2> QED BY <2>1, <2>2, <2>3, RightAtTheEnd
<1> QED BY <1>1, <1>2, <1>3, PTL DEF RastersSpec

-----------------------------------------------------------------------------
(* Areas *)

(* The pixels, and those around one that have its value.                            *)
Pix(g) == (0 .. g.xs - 1) \X (0 .. g.ys - 1) \X (0 .. g.zs - 1)

Touching(p, q) ==
  \/ p[1] = q[1] /\ p[2] = q[2]
  \/ p[1] = q[1] /\ (p[2] = q[2] + 1 \/ q[2] = p[2] + 1)
  \/ p[2] = q[2] /\ (p[1] = q[1] + 1 \/ q[1] = p[1] + 1)

Ring(g, v, p) ==
  {q \in Pix(g) : q[3] = p[3] /\ Touching(p, q) /\ At(g, v, q) = At(g, v, p)}

Closed(g, v, S) == \A q \in S : Ring(g, v, q) \subseteq S

(* The area of a pixel: the least set with it that nothing around belongs to.       *)
Region(g, v, p) ==
  {q \in Pix(g) : \A S \in SUBSET Pix(g) : p \in S /\ Closed(g, v, S) => q \in S}

LEMMA PixIs ==
  ASSUME NEW g \in Extents, NEW p \in Pix(g)
  PROVE  /\ p[1] \in Nat /\ p[1] <= g.xs - 1 /\ p[2] \in Nat /\ p[2] <= g.ys - 1
         /\ p[3] \in Nat /\ p[3] <= g.zs - 1
         /\ p = <<p[1], p[2], p[3]>>
         /\ g.xs \in Nat /\ g.ys \in Nat /\ g.zs \in Nat
BY ExtentTypes DEF Pix

LEMMA PixDiffer ==
  ASSUME NEW g \in Extents, NEW p \in Pix(g), NEW q \in Pix(g)
  PROVE  p = q <=> p[1] = q[1] /\ p[2] = q[2] /\ p[3] = q[3]
BY PixIs

LEMMA CellOfPix ==
  ASSUME NEW g \in Extents, NEW p \in Pix(g)
  PROVE  /\ CellOf(g, p) \in Cells(g)
         /\ \A q \in Pix(g) : CellOf(g, p) = CellOf(g, q) => p = q
<1>1. /\ p = <<p[1], p[2], p[3]>> /\ p[1] \in 0 .. g.xs - 1 /\ p[2] \in 0 .. g.ys - 1
      /\ p[3] \in 0 .. g.zs - 1
  BY PixIs
<1>2. CellOf(g, <<p[1], p[2], p[3]>>) \in Cells(g)
  BY <1>1, CellIsThere
<1>3. ASSUME NEW q \in Pix(g), CellOf(g, p) = CellOf(g, q) PROVE p = q
  <2>1. /\ q = <<q[1], q[2], q[3]>> /\ q[1] \in 0 .. g.xs - 1 /\ q[2] \in 0 .. g.ys - 1
        /\ q[3] \in Nat /\ p[3] \in Nat
    BY PixIs
  <2>2. CellOf(g, <<p[1], p[2], p[3]>>) = CellOf(g, <<q[1], q[2], q[3]>>)
    BY <1>1, <1>3, <2>1
  <2>3. p[1] = q[1] /\ p[2] = q[2] /\ p[3] = q[3]
    BY <1>1, <2>1, <2>2, CellsApart
  <2> QED BY <2>3, PixDiffer
<1> QED BY <1>1, <1>2, <1>3

LEMMA RingIs ==
  ASSUME NEW g \in Extents, NEW v, NEW p \in Pix(g)
  PROVE  /\ p \in Ring(g, v, p) /\ Ring(g, v, p) \subseteq Pix(g)
         /\ \A q \in Ring(g, v, p) : p \in Ring(g, v, q)
         /\ \A q \in Ring(g, v, p) : q[3] = p[3] /\ At(g, v, q) = At(g, v, p)
<1>1. p \in Ring(g, v, p) /\ Ring(g, v, p) \subseteq Pix(g)
  BY DEF Ring, Touching
<1>2. ASSUME NEW q \in Ring(g, v, p)
      PROVE  p \in Ring(g, v, q) /\ q[3] = p[3] /\ At(g, v, q) = At(g, v, p)
  <2>1. q \in Pix(g) /\ q[3] = p[3] /\ Touching(p, q) /\ At(g, v, q) = At(g, v, p)
    BY DEF Ring
  <2>2. Touching(q, p)
    BY <2>1 DEF Touching
  <2> QED BY <2>1, <2>2 DEF Ring
<1> QED BY <1>1, <1>2

LEMMA RegionIs ==
  ASSUME NEW g \in Extents, NEW v, NEW p \in Pix(g)
  PROVE  /\ p \in Region(g, v, p) /\ Region(g, v, p) \subseteq Pix(g)
         /\ Closed(g, v, Region(g, v, p))
         /\ \A S \in SUBSET Pix(g) : p \in S /\ Closed(g, v, S) => Region(g, v, p) \subseteq S
<1>1. p \in Region(g, v, p) /\ Region(g, v, p) \subseteq Pix(g)
  BY DEF Region
<1>2. ASSUME NEW q \in Region(g, v, p), NEW r \in Ring(g, v, q) PROVE r \in Region(g, v, p)
  <2>1. r \in Pix(g)
    BY <1>1, RingIs
  <2>2. ASSUME NEW S \in SUBSET Pix(g), p \in S, Closed(g, v, S) PROVE r \in S
    <3>1. q \in S
      BY <2>2 DEF Region
    <3> QED BY <2>2, <3>1 DEF Closed
  <2> QED BY <2>1, <2>2 DEF Region
<1>3. Closed(g, v, Region(g, v, p))
  BY <1>2 DEF Closed
<1>4. ASSUME NEW S \in SUBSET Pix(g), p \in S, Closed(g, v, S)
      PROVE  Region(g, v, p) \subseteq S
  BY <1>4 DEF Region
<1> QED BY <1>1, <1>3, <1>4

(* Areas are apart: two with a pixel in common are one.                             *)
LEMMA RegionsApart ==
  ASSUME NEW g \in Extents, NEW v, NEW p \in Pix(g), NEW q \in Region(g, v, p)
  PROVE  /\ q \in Pix(g) /\ p \in Region(g, v, q) /\ Region(g, v, q) = Region(g, v, p)
         /\ q[3] = p[3] /\ At(g, v, q) = At(g, v, p)
<1>1. q \in Pix(g) /\ \A r \in Pix(g) : Region(g, v, r) \subseteq Pix(g) /\ Closed(g, v, Region(g, v, r))
  BY RegionIs
<1>2. ASSUME NEW r \in Pix(g), NEW t \in Region(g, v, r)
      PROVE  Region(g, v, t) \subseteq Region(g, v, r)
  <2>1. t \in Pix(g) /\ Region(g, v, r) \in SUBSET Pix(g) /\ Closed(g, v, Region(g, v, r))
    BY <1>1, <1>2
  <2> QED BY <1>2, <2>1, RegionIs
<1> DEFINE T == {t \in Region(g, v, p) : p \in Region(g, v, t) /\ t[3] = p[3] /\ At(g, v, t) = At(g, v, p)}
<1>3. T \in SUBSET Pix(g) /\ p \in T
  BY <1>1, RegionIs
<1>4. ASSUME NEW t \in T, NEW r \in Ring(g, v, t) PROVE r \in T
  <2>1. t \in Region(g, v, p) /\ t \in Pix(g)
    BY <1>1
  <2>2. r \in Region(g, v, p) /\ r \in Pix(g)
    BY <1>1, <1>4, <2>1 DEF Closed
  <2>3. t \in Ring(g, v, r) /\ r[3] = t[3] /\ At(g, v, r) = At(g, v, t)
    BY <1>4, <2>1, RingIs
  <2>4. t \in Region(g, v, r)
    BY <1>1, <2>2, <2>3, RegionIs DEF Closed
  <2>5. p \in Region(g, v, r)
    BY <1>2, <2>2, <2>4
  <2> QED BY <2>2, <2>3, <2>5
<1>5. Region(g, v, p) \subseteq T
  <2>1. Closed(g, v, T)
    BY <1>4 DEF Closed
  <2> QED BY <1>3, <2>1, RegionIs
<1>6. p \in Region(g, v, q) /\ q[3] = p[3] /\ At(g, v, q) = At(g, v, p)
  BY <1>5
<1>7. Region(g, v, q) \subseteq Region(g, v, p) /\ Region(g, v, p) \subseteq Region(g, v, q)
  BY <1>1, <1>2, <1>6
<1> QED BY <1>1, <1>6, <1>7

LEMMA RingInRegion ==
  ASSUME NEW g \in Extents, NEW v, NEW p \in Pix(g), NEW q \in Ring(g, v, p)
  PROVE  q \in Region(g, v, p) /\ p \in Region(g, v, q)
<1>1. p \in Region(g, v, p) /\ Closed(g, v, Region(g, v, p))
  BY RegionIs
<1>2. q \in Region(g, v, p)
  BY <1>1 DEF Closed
<1> QED BY <1>2, RegionsApart

(* What each number hands on to the next one holds for all.                         *)
LEMMA CountUp ==
  ASSUME NEW N \in Nat, NEW Kept \in SUBSET (0 .. N), 0 \in Kept,
         \A i \in 1 .. N : i - 1 \in Kept => i \in Kept
  PROVE  Kept = 0 .. N
<1> DEFINE Out == (0 .. N) \ Kept
<1>1. SUFFICES ASSUME Out # {} PROVE FALSE
  OBVIOUS
<1>2. Out \in SUBSET Nat
  OBVIOUS
<1>3. PICK n \in Out : \A m \in Out : n <= m
  BY <1>1, <1>2, LeastNumber
<1>4. n \in 1 .. N /\ n - 1 \in 0 .. N /\ ~(n <= n - 1)
  BY <1>3
<1>5. n - 1 \in Kept
  BY <1>3, <1>4
<1> QED BY <1>3, <1>4, <1>5

Grows(f, n, base, step) == f[0] = base /\ \A i \in 1 .. n : f[i] = step[f[i - 1]]

LEMMA GrowsFrom ==
  ASSUME NEW N \in Nat, NEW T, NEW base \in T, NEW step \in [T -> T]
  PROVE  \E f \in [0 .. N -> T] : Grows(f, N, base, step)
<1> DEFINE Have == {n \in 0 .. N : \E f \in [0 .. n -> T] : Grows(f, n, base, step)}
<1>1. 0 \in Have
  <2> DEFINE f == [i \in 0 .. 0 |-> base]
  <2>1. f \in [0 .. 0 -> T] /\ Grows(f, 0, base, step)
    BY DEF Grows
  <2> QED BY <2>1
<1>2. ASSUME NEW n \in 1 .. N, n - 1 \in Have PROVE n \in Have
  <2>1. PICK h \in [0 .. n - 1 -> T] : Grows(h, n - 1, base, step)
    BY <1>2
  <2> DEFINE f == [i \in 0 .. n |-> IF i = n THEN step[h[n - 1]] ELSE h[i]]
  <2>2. n - 1 \in 0 .. n - 1 /\ step[h[n - 1]] \in T /\ 0 # n /\ 0 \in 0 .. n
    BY <1>2
  <2>3. f \in [0 .. n -> T] /\ f[0] = base
    BY <1>2, <2>1, <2>2 DEF Grows
  <2>4. ASSUME NEW i \in 1 .. n PROVE f[i] = step[f[i - 1]]
    <3>1. CASE i = n
      BY <1>2, <3>1
    <3>2. CASE i # n
      <4>1. i \in 1 .. n - 1 /\ i - 1 \in 0 .. n - 1 /\ i - 1 # n /\ i \in 0 .. n - 1
        BY <1>2, <3>2
      <4>2. f[i] = h[i] /\ f[i - 1] = h[i - 1]
        BY <4>1, <3>2
      <4> QED BY <2>1, <4>1, <4>2 DEF Grows
    <3> QED BY <3>1, <3>2
  <2>5. Grows(f, n, base, step)
    BY <2>3, <2>4 DEF Grows
  <2> QED BY <2>3, <2>5
<1>3. Have = 0 .. N
  <2> HIDE DEF Have
  <2>1. Have \in SUBSET (0 .. N)
    BY DEF Have
  <2> QED BY <1>1, <1>2, <2>1, CountUp
<1> QED BY <1>3

(* A band has as many pixels as it has columns times lines.                         *)
Band(g, z) == {p \in Pix(g) : p[3] = z}

LEMMA BandSize ==
  ASSUME NEW g \in Extents, NEW z
  PROVE  IsFiniteSet(Band(g, z)) /\ Cardinality(Band(g, z)) <= g.xs * g.ys
<1> DEFINE X == 0 .. g.xs - 1
           Y == 0 .. g.ys - 1
           f == [p \in Band(g, z) |-> <<p[1], p[2]>>]
<1>1. g.xs \in Nat \ {0} /\ g.ys \in Nat \ {0}
  BY ExtentTypes
<1>2. IsFiniteSet(X) /\ Cardinality(X) = g.xs /\ IsFiniteSet(Y) /\ Cardinality(Y) = g.ys
  <2>1. 0 \in Int /\ g.xs - 1 \in Int /\ g.ys - 1 \in Int
    BY <1>1
  <2>2. IsFiniteSet(X) /\ Cardinality(X) = IF 0 > g.xs - 1 THEN 0 ELSE g.xs - 1 - 0 + 1
    BY <2>1, FS_Interval
  <2>3. IsFiniteSet(Y) /\ Cardinality(Y) = IF 0 > g.ys - 1 THEN 0 ELSE g.ys - 1 - 0 + 1
    BY <2>1, FS_Interval
  <2> QED BY <1>1, <2>2, <2>3
<1>3. IsFiniteSet(X \X Y) /\ Cardinality(X \X Y) = g.xs * g.ys
  <2> HIDE DEF X, Y
  <2>1. IsFiniteSet(X \X Y) /\ Cardinality(X \X Y) = Cardinality(X) * Cardinality(Y)
    BY <1>2, FS_Product
  <2> QED BY <1>2, <2>1
<1>4. f \in Injection(Band(g, z), X \X Y)
  <2>1. f \in [Band(g, z) -> X \X Y]
    BY DEF Band, Pix
  <2>2. ASSUME NEW p \in Band(g, z), NEW q \in Band(g, z), f[p] = f[q] PROVE p = q
    <3>1. p[1] = q[1] /\ p[2] = q[2]
      BY <2>2
    <3> QED BY <3>1, PixDiffer DEF Band
  <2> HIDE DEF f
  <2> QED BY <2>1, <2>2 DEF Injection, IsInjective
<1> HIDE DEF f, X, Y
<1> QED BY <1>3, <1>4, FS_Injection

(* A sequence of sets that grows around all its members until it is closed is       *)
(* closed after as many steps as the band has pixels.                               *)
Spread(g, v, p, w) ==
  /\ w \in [0 .. g.xs * g.ys -> SUBSET Pix(g)] /\ w[0] = {p}
  /\ \A n \in 1 .. g.xs * g.ys : w[n] = UNION {Ring(g, v, q) : q \in w[n - 1]}

LEMMA SpreadIsRegion ==
  ASSUME NEW g \in Extents, NEW v, NEW p \in Pix(g), NEW w, Spread(g, v, p, w)
  PROVE  w[g.xs * g.ys] = Region(g, v, p)
<1> DEFINE N == g.xs * g.ys
           R == Region(g, v, p)
           B == Band(g, p[3])
<1>1. N \in Nat
  BY ExtentTypes
<1>2. /\ w \in [0 .. N -> SUBSET Pix(g)] /\ w[0] = {p}
      /\ \A n \in 1 .. N : w[n] = UNION {Ring(g, v, q) : q \in w[n - 1]}
  BY DEF Spread
<1>3. /\ p \in R /\ R \subseteq Pix(g) /\ Closed(g, v, R)
      /\ \A S \in SUBSET Pix(g) : p \in S /\ Closed(g, v, S) => R \subseteq S
  BY RegionIs
<1>4. IsFiniteSet(B) /\ Cardinality(B) <= N /\ p \in B /\ Closed(g, v, B)
  <2>1. ASSUME NEW q \in B, NEW r \in Ring(g, v, q) PROVE r \in B
    <3>1. q \in Pix(g) /\ q[3] = p[3]
      BY DEF Band
    <3>2. r \in Pix(g) /\ r[3] = q[3]
      BY <3>1, RingIs
    <3> QED BY <3>1, <3>2 DEF Band
  <2>2. Closed(g, v, B)
    BY <2>1 DEF Closed
  <2>3. p \in B
    BY DEF Band
  <2> QED BY <2>2, <2>3, BandSize
<1> HIDE DEF N, R, B
<1>5. ASSUME NEW n \in 1 .. N
      PROVE  n - 1 \in 0 .. N /\ n \in 0 .. N /\ w[n - 1] \subseteq Pix(g)
             /\ w[n] = UNION {Ring(g, v, q) : q \in w[n - 1]}
  BY <1>1, <1>2
<1>6. \A n \in 0 .. N : p \in w[n] /\ w[n] \subseteq R /\ w[n] \subseteq B
  <2> DEFINE K == {n \in 0 .. N : p \in w[n] /\ w[n] \subseteq R /\ w[n] \subseteq B}
  <2>1. 0 \in K
    BY <1>1, <1>2, <1>3, <1>4
  <2>2. ASSUME NEW n \in 1 .. N, n - 1 \in K PROVE n \in K
    <3>1. p \in w[n]
      BY <1>5, <2>2, RingIs
    <3>2. w[n] \subseteq R /\ w[n] \subseteq B
      BY <1>3, <1>4, <1>5, <2>2 DEF Closed
    <3> QED BY <1>5, <3>1, <3>2
  <2>3. K = 0 .. N
    <3>1. K \in SUBSET (0 .. N)
      OBVIOUS
    <3> HIDE DEF K
    <3> QED BY <1>1, <2>1, <2>2, <3>1, CountUp
  <2> QED BY <2>3
<1>7. \A n \in 0 .. N : Closed(g, v, w[n]) \/ Cardinality(w[n]) >= n + 1
  <2> DEFINE K == {n \in 0 .. N : Closed(g, v, w[n]) \/ Cardinality(w[n]) >= n + 1}
  <2>1. 0 \in K
    <3>1. Cardinality({p}) = 1
      BY FS_Singleton
    <3>2. Cardinality(w[0]) = 1
      BY <1>2, <3>1
    <3>3. Cardinality(w[0]) >= 0 + 1
      BY <3>2
    <3>4. 0 \in 0 .. N
      BY <1>1
    <3> QED BY <3>3, <3>4
  <2>2. ASSUME NEW n \in 1 .. N, n - 1 \in K PROVE n \in K
    <3>1. ASSUME NEW q \in w[n - 1] PROVE q \in w[n]
      <4>1. q \in Pix(g)
        BY <1>5
      <4>2. q \in Ring(g, v, q)
        BY <4>1, RingIs
      <4> QED BY <1>5, <4>2
    <3>2. CASE Closed(g, v, w[n - 1])
      <4>1. w[n] \subseteq w[n - 1]
        BY <1>5, <3>2 DEF Closed
      <4>2. w[n] = w[n - 1]
        BY <3>1, <4>1
      <4> QED BY <1>5, <3>2, <4>2
    <3>3. CASE ~Closed(g, v, w[n - 1])
      <4>0. PICK q \in w[n - 1] : ~(Ring(g, v, q) \subseteq w[n - 1])
        BY <3>3 DEF Closed
      <4>1. PICK r \in Ring(g, v, q) : r \notin w[n - 1]
        BY <4>0
      <4>2. r \in w[n]
        BY <1>5, <4>1
      <4>3. IsFiniteSet(w[n]) /\ IsFiniteSet(w[n - 1])
        BY <1>4, <1>5, <1>6, FS_Subset
      <4>4. Cardinality(w[n - 1]) <= Cardinality(w[n]) /\ Cardinality(w[n - 1]) # Cardinality(w[n])
        BY <3>1, <4>1, <4>2, <4>3, FS_Subset
      <4>5. Cardinality(w[n - 1]) \in Nat /\ Cardinality(w[n]) \in Nat
        BY <4>3, FS_CardinalityType
      <4>6. Cardinality(w[n - 1]) >= (n - 1) + 1
        BY <2>2, <3>3
      <4>7. Cardinality(w[n]) >= n + 1
        BY <1>1, <4>4, <4>5, <4>6
      <4> QED BY <1>5, <4>7
    <3> QED BY <3>2, <3>3
  <2>3. K = 0 .. N
    <3>1. K \in SUBSET (0 .. N)
      OBVIOUS
    <3> HIDE DEF K
    <3> QED BY <1>1, <2>1, <2>2, <3>1, CountUp
  <2> QED BY <2>3
<1>8. Closed(g, v, w[N])
  <2> SUFFICES ASSUME Cardinality(w[N]) >= N + 1 PROVE FALSE
    BY <1>1, <1>7
  <2>1. w[N] \subseteq B
    BY <1>1, <1>6
  <2>2. IsFiniteSet(w[N]) /\ Cardinality(w[N]) <= Cardinality(B)
    BY <1>4, <2>1, FS_Subset
  <2>3. Cardinality(w[N]) \in Nat /\ Cardinality(B) \in Nat
    BY <1>4, <2>2, FS_CardinalityType
  <2> QED BY <1>1, <1>4, <2>2, <2>3
<1>9. p \in w[N] /\ w[N] \subseteq R /\ w[N] \in SUBSET Pix(g)
  BY <1>1, <1>2, <1>6
<1>10. R \subseteq w[N]
  BY <1>3, <1>8, <1>9
<1>11. w[N] = R
  BY <1>9, <1>10
<1> QED BY <1>11 DEF N, R

LEMMA PixelsAN == AN!Pixels = Pix(grid)
BY DEF AN!Pixels, AN!PixelsOf, AN!WholeBox, AN!BoxOf, Pix

LEMMA CellAN == \A g, p, i : AN!CellOf(g, p) = CellOf(g, p) /\ AN!CellAt(i) = CellAt(i)
BY DEF AN!CellOf, CellOf, AN!CellAt, CellAt, AN!BlocksPerBand, BlocksPerBand

LEMMA AroundIs ==
  ASSUME grid \in Extents, NEW p \in Pix(grid)
  PROVE  AN!Around(p) = Ring(grid, input, p)
<1> DEFINE C == {p, <<p[1] - 1, p[2], p[3]>>, <<p[1] + 1, p[2], p[3]>>,
                 <<p[1], p[2] - 1, p[3]>>, <<p[1], p[2] + 1, p[3]>>}
<1>1. AN!Around(p) = {q \in C \cap Pix(grid) : At(grid, input, q) = At(grid, input, p)}
  BY PixelsAN, CellAN DEF AN!Around, At
<1>2. ASSUME NEW q \in Pix(grid)
      PROVE  q \in C <=> q[3] = p[3] /\ Touching(p, q)
  <2>1. /\ p[1] \in Nat /\ p[2] \in Nat /\ p = <<p[1], p[2], p[3]>>
        /\ q[1] \in Nat /\ q[2] \in Nat /\ q = <<q[1], q[2], q[3]>>
    BY PixIs
  <2>2. ASSUME q \in C PROVE q[3] = p[3] /\ Touching(p, q)
    BY <2>1, <2>2 DEF Touching
  <2>3. ASSUME q[3] = p[3], Touching(p, q) PROVE q \in C
    <3>1. CASE p[1] = q[1] /\ p[2] = q[2]
      BY <2>1, <2>3, <3>1
    <3>2. CASE p[1] = q[1] /\ p[2] = q[2] + 1
      <4>1. q[2] = p[2] - 1
        BY <2>1, <3>2
      <4> QED BY <2>1, <2>3, <3>2, <4>1
    <3>3. CASE p[1] = q[1] /\ q[2] = p[2] + 1
      BY <2>1, <2>3, <3>3
    <3>4. CASE p[2] = q[2] /\ p[1] = q[1] + 1
      <4>1. q[1] = p[1] - 1
        BY <2>1, <3>4
      <4> QED BY <2>1, <2>3, <3>4, <4>1
    <3>5. CASE p[2] = q[2] /\ q[1] = p[1] + 1
      BY <2>1, <2>3, <3>5
    <3> QED BY <2>3, <3>1, <3>2, <3>3, <3>4, <3>5 DEF Touching
  <2> QED BY <2>2, <2>3
<1> HIDE DEF C
<1> QED BY <1>1, <1>2 DEF Ring

LEMMA AreaIs ==
  ASSUME grid \in Extents, NEW p \in Pix(grid)
  PROVE  AN!Area(p) = Region(grid, input, p)
<1> DEFINE N == grid.xs * grid.ys
           T == SUBSET Pix(grid)
           step == [S \in T |-> UNION {Ring(grid, input, q) : q \in S}]
           Eq(F) == F = [n \in 0 .. N |->
                           IF n = 0 THEN {p} ELSE UNION {AN!Around(q) : q \in F[n - 1]}]
           within == CHOOSE F : Eq(F)
<1>1. AN!Area(p) = within[N]
  BY DEF AN!Area
<1>2. N \in Nat /\ {p} \in T
  BY ExtentTypes
<1>3. step \in [T -> T]
  <2>1. ASSUME NEW S \in T PROVE UNION {Ring(grid, input, q) : q \in S} \in T
    <3>1. \A q \in S : Ring(grid, input, q) \subseteq Pix(grid)
      BY RingIs
    <3> QED BY <3>1
  <2> QED BY <2>1
<1> HIDE DEF N
<1>4. PICK f \in [0 .. N -> T] : Grows(f, N, {p}, step)
  <2> HIDE DEF T, step
  <2> QED BY <1>2, <1>3, GrowsFrom
<1>5. ASSUME NEW S \in T PROVE UNION {AN!Around(q) : q \in S} = UNION {Ring(grid, input, q) : q \in S}
  <2>1. \A q \in S : AN!Around(q) = Ring(grid, input, q)
    BY AroundIs
  <2> QED BY <2>1
<1>6. Eq(f)
  <2>1. ASSUME NEW n \in 0 .. N
        PROVE  f[n] = IF n = 0 THEN {p} ELSE UNION {AN!Around(q) : q \in f[n - 1]}
    <3>1. CASE n = 0
      BY <1>4, <3>1 DEF Grows
    <3>2. CASE n # 0
      <4>1. n \in 1 .. N /\ n - 1 \in 0 .. N /\ f[n - 1] \in T
        BY <1>2, <3>2
      <4>2. f[n] = step[f[n - 1]]
        BY <1>4, <4>1 DEF Grows
      <4> QED BY <1>5, <3>2, <4>1, <4>2
    <3> QED BY <3>1, <3>2
  <2> QED BY <2>1
<1>7. Eq(within)
  <2> HIDE DEF Eq
  <2> QED BY <1>6, Zenon
<1>8. /\ within = [n \in 0 .. N |-> within[n]] /\ within[0] = {p}
      /\ \A n \in 1 .. N : within[n] = UNION {AN!Around(q) : q \in within[n - 1]}
  <2> HIDE DEF within
  <2>1. within = [n \in 0 .. N |->
                    IF n = 0 THEN {p} ELSE UNION {AN!Around(q) : q \in within[n - 1]}]
    BY <1>7
  <2> HIDE DEF Eq
  <2>2. 0 \in 0 .. N
    BY <1>2
  <2>3. within[0] = {p}
    BY <2>1, <2>2
  <2>4. ASSUME NEW n \in 1 .. N PROVE within[n] = UNION {AN!Around(q) : q \in within[n - 1]}
    <3>1. n \in 0 .. N /\ n # 0
      BY <1>2
    <3> QED BY <2>1, <3>1
  <2>5. within = [n \in 0 .. N |-> within[n]]
    <3>1. \A F : F = [n \in 0 .. N |->
                    IF n = 0 THEN {p} ELSE UNION {AN!Around(q) : q \in within[n - 1]}]
                 => F = [n \in 0 .. N |-> F[n]]
      OBVIOUS
    <3> QED BY <2>1, <3>1
  <2> QED BY <2>3, <2>4, <2>5
<1> HIDE DEF within, Eq
<1>9. \A n \in 0 .. N : within[n] \in T
  <2> DEFINE K == {n \in 0 .. N : within[n] \in T}
  <2>1. 0 \in K
    BY <1>2, <1>8
  <2>2. ASSUME NEW n \in 1 .. N, n - 1 \in K PROVE n \in K
    <3>1. n \in 0 .. N /\ within[n - 1] \in T
      BY <1>2, <2>2
    <3>2. within[n] = UNION {Ring(grid, input, q) : q \in within[n - 1]}
      BY <1>5, <1>8, <3>1
    <3>3. within[n] = step[within[n - 1]]
      BY <3>1, <3>2
    <3>4. within[n] \in T
      <4> HIDE DEF step, T
      <4> QED BY <1>3, <3>1, <3>3
    <3> QED BY <3>1, <3>4
  <2>3. K = 0 .. N
    <3>1. K \in SUBSET (0 .. N)
      OBVIOUS
    <3> HIDE DEF K
    <3> QED BY <1>2, <2>1, <2>2, <3>1, CountUp
  <2> QED BY <2>3
<1>10. Spread(grid, input, p, within)
  <2>1. within \in [0 .. N -> T]
    BY <1>8, <1>9
  <2>2. ASSUME NEW n \in 1 .. N PROVE within[n] = UNION {Ring(grid, input, q) : q \in within[n - 1]}
    <3>1. n - 1 \in 0 .. N
      BY <1>2
    <3> QED BY <1>5, <1>8, <1>9, <3>1
  <2> QED BY <1>8, <2>1, <2>2 DEF Spread, N
<1> QED BY <1>1, <1>10, SpreadIsRegion DEF N

-----------------------------------------------------------------------------
(* Pass one and pass two *)

(* The pixel of the iterator, and those above and to the left.                      *)
Here(i) == <<i.x, i.y, i.z>>
Above(p) == <<p[1], p[2] - 1, p[3]>>
Aleft(p) == <<p[1] - 1, p[2], p[3]>>

LikeOver(g, v, p) == p[2] > 0 /\ At(g, v, p) = At(g, v, Above(p))
LikeSide(g, v, p) == p[1] > 0 /\ At(g, v, p) = At(g, v, Aleft(p))

Numbers(g) == [Cells(g) -> Nat \union {Nothing}]

(* Every number was new at one pixel, its start, s[n], and is found only in the     *)
(* area of this pixel; a number is replaced by another one of the same area.        *)
Placing(g, v, m, ch, c, s) ==
  /\ c \in Nat /\ s \in [0 .. c - 1 -> Pix(g)] /\ m \in Numbers(g)
  /\ \A a, b \in 0 .. c - 1 : s[a] = s[b] => a = b
  /\ \A a \in 0 .. c - 1 : ~LikeOver(g, v, s[a]) /\ ~LikeSide(g, v, s[a])
  /\ \A p \in Pix(g) : At(g, m, p) # Nothing =>
       At(g, m, p) \in 0 .. c - 1 /\ p \in Region(g, v, s[At(g, m, p)])
  /\ \A n \in DOMAIN ch :
       n \in 0 .. c - 1 /\ ch[n] \in 0 .. c - 1 /\ ch[n] # n /\ s[n] \in Region(g, v, s[ch[n]])

(* Pixels of one value side by side have one number, or that of the left one will   *)
(* be replaced; one above the other they have one number.                           *)
Linked(g, v, m, ch) ==
  \A p, q \in Pix(g) :
    At(g, m, p) # Nothing /\ At(g, m, q) # Nothing =>
      /\ p = Above(q) /\ LikeOver(g, v, q) => At(g, m, q) = At(g, m, p)
      /\ p = Aleft(q) /\ LikeSide(g, v, q) => At(g, m, q) = At(g, m, p) \/ At(g, m, p) \in DOMAIN ch

(* What is kept of the line above and of the pixels to the left.                    *)
Seen(g, v, i, nin) ==
  /\ DOMAIN nin = 0 .. g.xs - 1
  /\ i.linear # i.end =>
       \A x \in 0 .. g.xs - 1 :
         /\ x < i.x => nin[x] = At(g, v, <<x, i.y, i.z>>)
         /\ x >= i.x /\ i.y > 0 => nin[x] = At(g, v, <<x, i.y - 1, i.z>>)

PassOne(g, v, m, ch, c, s, i, nin, nout) ==
  /\ Right(g, i, 0, g.ys - 1)
  /\ \A p \in Pix(g) : At(g, m, p) # Nothing <=> Passed(i, p[1], p[2], p[3])
  /\ \A a \in 0 .. c - 1 : At(g, m, s[a]) # Nothing
  /\ Linked(g, v, m, ch)
  /\ Seen(g, v, i, nin) /\ Seen(g, m, i, nout)

Uniform(g, v, m, p) == \A q \in Region(g, v, p) : At(g, m, q) = At(g, m, p)

(* The numbers that an area got, not more than two.                                 *)
Given(g, v, c, s, p) == {a \in 0 .. c - 1 : s[a] \in Region(g, v, p)}

Few(S) == \A a, b, e \in S : a = b \/ b = e \/ a = e

PassTwo(g, v, m, ch, c, s) ==
  /\ \A p \in Pix(g) : At(g, m, p) # Nothing
  /\ \A p \in Pix(g) : Few(Given(g, v, c, s, p)) =>
       Uniform(g, v, m, p) \/ \E n \in DOMAIN ch : n \in Given(g, v, c, s, p)

Sides4(g, v, p, q) ==
  \/ p = q
  \/ p = Above(q) /\ LikeOver(g, v, q)
  \/ q = Above(p) /\ LikeOver(g, v, p)
  \/ p = Aleft(q) /\ LikeSide(g, v, q)
  \/ q = Aleft(p) /\ LikeSide(g, v, p)

LEMMA RingSides ==
  ASSUME NEW g \in Extents, NEW v, NEW p \in Pix(g), NEW q \in Ring(g, v, p)
  PROVE  Sides4(g, v, p, q)
<1>1. q \in Pix(g) /\ q[3] = p[3] /\ Touching(p, q) /\ At(g, v, q) = At(g, v, p)
  BY DEF Ring
<1>2. /\ p[1] \in Nat /\ p[2] \in Nat /\ p = <<p[1], p[2], p[3]>>
      /\ q[1] \in Nat /\ q[2] \in Nat /\ q = <<q[1], q[2], q[3]>>
  BY <1>1, PixIs
<1>3. CASE p[1] = q[1] /\ p[2] = q[2]
  BY <1>1, <1>2, <1>3 DEF Sides4
<1>4. CASE p[1] = q[1] /\ p[2] = q[2] + 1
  <2>1. q[2] = p[2] - 1 /\ p[2] > 0
    BY <1>2, <1>4
  <2>2. q = Above(p)
    BY <1>1, <1>2, <1>4, <2>1 DEF Above
  <2> QED BY <1>1, <2>1, <2>2 DEF Sides4, LikeOver
<1>5. CASE p[1] = q[1] /\ q[2] = p[2] + 1
  <2>1. p[2] = q[2] - 1 /\ q[2] > 0
    BY <1>2, <1>5
  <2>2. p = Above(q)
    BY <1>1, <1>2, <1>5, <2>1 DEF Above
  <2> QED BY <1>1, <2>1, <2>2 DEF Sides4, LikeOver
<1>6. CASE p[2] = q[2] /\ p[1] = q[1] + 1
  <2>1. q[1] = p[1] - 1 /\ p[1] > 0
    BY <1>2, <1>6
  <2>2. q = Aleft(p)
    BY <1>1, <1>2, <1>6, <2>1 DEF Aleft
  <2> QED BY <1>1, <2>1, <2>2 DEF Sides4, LikeSide
<1>7. CASE p[2] = q[2] /\ q[1] = p[1] + 1
  <2>1. p[1] = q[1] - 1 /\ q[1] > 0
    BY <1>2, <1>7
  <2>2. p = Aleft(q)
    BY <1>1, <1>2, <1>7, <2>1 DEF Aleft
  <2> QED BY <1>1, <2>1, <2>2 DEF Sides4, LikeSide
<1> QED BY <1>1, <1>3, <1>4, <1>5, <1>6, <1>7 DEF Touching

LEMMA BeforeIt ==
  ASSUME NEW g \in Extents, NEW v, NEW p \in Pix(g)
  PROVE  /\ p[2] > 0 => Above(p) \in Pix(g)
         /\ p[1] > 0 => Aleft(p) \in Pix(g)
         /\ LikeOver(g, v, p) => Above(p) \in Ring(g, v, p)
         /\ LikeSide(g, v, p) => Aleft(p) \in Ring(g, v, p)
<1>1. /\ p[1] \in Nat /\ p[1] <= g.xs - 1 /\ p[2] \in Nat /\ p[2] <= g.ys - 1 /\ p[3] \in 0 .. g.zs - 1
      /\ g.xs \in Nat /\ g.ys \in Nat
  BY PixIs
<1>2. /\ Above(p)[1] = p[1] /\ Above(p)[2] = p[2] - 1 /\ Above(p)[3] = p[3]
      /\ Aleft(p)[1] = p[1] - 1 /\ Aleft(p)[2] = p[2] /\ Aleft(p)[3] = p[3]
  BY DEF Above, Aleft
<1>3. p[2] > 0 => Above(p) \in Pix(g)
  BY <1>1 DEF Above, Pix
<1>4. p[1] > 0 => Aleft(p) \in Pix(g)
  BY <1>1 DEF Aleft, Pix
<1>5. Touching(p, Above(p)) /\ Touching(p, Aleft(p))
  <2>1. p[2] = Above(p)[2] + 1 /\ p[1] = Aleft(p)[1] + 1
    BY <1>1, <1>2
  <2> QED BY <1>2, <2>1 DEF Touching
<1>6. LikeOver(g, v, p) => Above(p) \in Ring(g, v, p)
  BY <1>2, <1>3, <1>5 DEF LikeOver, Ring
<1>7. LikeSide(g, v, p) => Aleft(p) \in Ring(g, v, p)
  BY <1>2, <1>4, <1>5 DEF LikeSide, Ring
<1> HIDE DEF Above, Aleft
<1> QED BY ONLY <1>3, <1>4, <1>6, <1>7, Zenon

(* The entries are complete when pass one ends: an area without one is uniform.     *)
LEMMA EndsOne ==
  ASSUME NEW g \in Extents, NEW v, NEW m, NEW ch, NEW c, NEW s, NEW i, NEW nin, NEW nout,
         Placing(g, v, m, ch, c, s), PassOne(g, v, m, ch, c, s, i, nin, nout), i.linear = i.end
  PROVE  PassTwo(g, v, m, ch, c, s)
<1>1. \A p \in Pix(g) : At(g, m, p) # Nothing
  BY DEF PassOne, Passed
<1>2. ASSUME NEW p \in Pix(g), ~ \E n \in DOMAIN ch : n \in Given(g, v, c, s, p)
      PROVE  Uniform(g, v, m, p)
  <2> DEFINE T == {q \in Region(g, v, p) : At(g, m, q) = At(g, m, p)}
  <2>1. T \in SUBSET Pix(g) /\ p \in T
    BY RegionIs
  <2>2. ASSUME NEW q \in Region(g, v, p) PROVE At(g, m, q) \notin DOMAIN ch
    <3>1. q \in Pix(g) /\ Region(g, v, q) = Region(g, v, p)
      BY RegionsApart
    <3>2. At(g, m, q) \in 0 .. c - 1 /\ q \in Region(g, v, s[At(g, m, q)]) /\ s[At(g, m, q)] \in Pix(g)
      BY <1>1, <3>1 DEF Placing
    <3>3. s[At(g, m, q)] \in Region(g, v, q)
      BY <3>2, RegionsApart
    <3>4. At(g, m, q) \in Given(g, v, c, s, p)
      BY <3>1, <3>2, <3>3 DEF Given
    <3> QED BY <1>2, <3>4
  <2>3. ASSUME NEW q \in T, NEW r \in Ring(g, v, q) PROVE r \in T
    <3>1. q \in Region(g, v, p) /\ q \in Pix(g) /\ At(g, m, q) = At(g, m, p)
      BY <2>1
    <3>2. r \in Region(g, v, p) /\ r \in Pix(g)
      BY <3>1, RegionIs, RingIs DEF Closed
    <3>3. Sides4(g, v, q, r)
      BY <3>1, RingSides
    <3>4. /\ q = Above(r) /\ LikeOver(g, v, r) => At(g, m, r) = At(g, m, q)
          /\ q = Aleft(r) /\ LikeSide(g, v, r) => At(g, m, r) = At(g, m, q) \/ At(g, m, q) \in DOMAIN ch
          /\ r = Above(q) /\ LikeOver(g, v, q) => At(g, m, q) = At(g, m, r)
          /\ r = Aleft(q) /\ LikeSide(g, v, q) => At(g, m, q) = At(g, m, r) \/ At(g, m, r) \in DOMAIN ch
      BY <1>1, <3>1, <3>2 DEF PassOne, Linked
    <3>5. At(g, m, r) = At(g, m, q)
      BY <2>2, <3>1, <3>2, <3>3, <3>4 DEF Sides4
    <3> QED BY <3>1, <3>2, <3>5
  <2>4. Region(g, v, p) \subseteq T
    <3>1. Closed(g, v, T)
      BY <2>3 DEF Closed
    <3> QED BY <2>1, <3>1, RegionIs
  <2> QED BY <2>4 DEF Uniform
<1> QED BY <1>1, <1>2 DEF PassTwo

(* One entry is applied.                                                            *)
LEMMA Replaces ==
  ASSUME NEW g \in Extents, NEW v, NEW m, NEW ch, NEW c, NEW s,
         Placing(g, v, m, ch, c, s), PassTwo(g, v, m, ch, c, s),
         NEW old \in DOMAIN ch,
         NEW m1, m1 = [k \in DOMAIN m |-> IF m[k] = old THEN ch[old] ELSE m[k]],
         NEW ch1, ch1 = [n \in DOMAIN ch \ {old} |-> ch[n]]
  PROVE  Placing(g, v, m1, ch1, c, s) /\ PassTwo(g, v, m1, ch1, c, s)
<1> DEFINE to == ch[old]
<1>1. /\ c \in Nat /\ s \in [0 .. c - 1 -> Pix(g)] /\ m \in Numbers(g)
      /\ old \in 0 .. c - 1 /\ to \in 0 .. c - 1 /\ to # old /\ s[old] \in Region(g, v, s[to])
      /\ s[old] \in Pix(g) /\ s[to] \in Pix(g)
  BY DEF Placing
<1>2. Nothing \notin Int
  BY AreaGridsAssumption
<1>3. m1 = [k \in Cells(g) |-> IF m[k] = old THEN to ELSE m[k]]
  BY <1>1 DEF Numbers
<1> HIDE DEF to
<1>4. m1 \in Numbers(g)
  <2>1. to \in Nat
    BY <1>1
  <2>2. \A k \in Cells(g) : m[k] \in Nat \union {Nothing}
    BY <1>1 DEF Numbers
  <2>3. \A k \in Cells(g) : (IF m[k] = old THEN to ELSE m[k]) \in Nat \union {Nothing}
    BY <2>1, <2>2
  <2> QED BY <1>3, <2>3 DEF Numbers
<1>5. ASSUME NEW p \in Pix(g)
      PROVE  At(g, m1, p) = IF At(g, m, p) = old THEN to ELSE At(g, m, p)
  <2>1. CellOf(g, p) \in Cells(g)
    BY CellOfPix
  <2> QED BY <1>3, <2>1 DEF At
<1>6. \A n : n \in DOMAIN ch1 <=> n \in DOMAIN ch /\ n # old
  OBVIOUS
<1>7. \A n \in DOMAIN ch1 : ch1[n] = ch[n]
  OBVIOUS
<1>8. ASSUME NEW p \in Pix(g), At(g, m1, p) # Nothing
      PROVE  At(g, m1, p) \in 0 .. c - 1 /\ p \in Region(g, v, s[At(g, m1, p)])
  <2>1. CASE At(g, m, p) = old
    <3>1. At(g, m1, p) = to
      BY <1>5, <2>1
    <3>2. p \in Region(g, v, s[old])
      BY <1>1, <1>2, <2>1 DEF Placing
    <3>3. Region(g, v, s[old]) = Region(g, v, s[to])
      BY <1>1, RegionsApart
    <3> QED BY <1>1, <3>1, <3>2, <3>3
  <2>2. CASE At(g, m, p) # old
    BY <1>5, <1>8, <2>2 DEF Placing
  <2> QED BY <2>1, <2>2
<1>9. Placing(g, v, m1, ch1, c, s)
  <2>1. \A n \in DOMAIN ch1 :
          n \in 0 .. c - 1 /\ ch1[n] \in 0 .. c - 1 /\ ch1[n] # n /\ s[n] \in Region(g, v, s[ch1[n]])
    BY <1>6, <1>7 DEF Placing
  <2> QED BY <1>4, <1>8, <2>1 DEF Placing
<1>10. \A p \in Pix(g) : At(g, m1, p) # Nothing
  BY <1>1, <1>2, <1>5 DEF PassTwo
<1>11. ASSUME NEW p \in Pix(g), Few(Given(g, v, c, s, p))
       PROVE  Uniform(g, v, m1, p) \/ \E n \in DOMAIN ch1 : n \in Given(g, v, c, s, p)
  <2>1. CASE Uniform(g, v, m, p)
    <3>1. \A q \in Region(g, v, p) : q \in Pix(g) /\ At(g, m, q) = At(g, m, p)
      BY <2>1, RegionIs DEF Uniform
    <3> QED BY <1>5, <3>1 DEF Uniform
  <2>2. CASE \E n \in DOMAIN ch : n # old /\ n \in Given(g, v, c, s, p)
    BY <1>6, <2>2
  <2>3. CASE old \in Given(g, v, c, s, p)
    <3>1. s[old] \in Region(g, v, p) /\ Region(g, v, s[old]) = Region(g, v, p)
      BY <2>3, RegionsApart DEF Given
    <3>2. s[to] \in Region(g, v, p)
      BY <1>1, <3>1, RegionsApart
    <3>3. to \in Given(g, v, c, s, p)
      BY <1>1, <3>2 DEF Given
    <3>4. ASSUME NEW q \in Region(g, v, p) PROVE At(g, m1, q) = to
      <4>1. q \in Pix(g) /\ Region(g, v, q) = Region(g, v, p)
        BY RegionsApart
      <4>2. At(g, m, q) \in 0 .. c - 1 /\ q \in Region(g, v, s[At(g, m, q)]) /\ s[At(g, m, q)] \in Pix(g)
        BY <4>1 DEF Placing, PassTwo
      <4>3. s[At(g, m, q)] \in Region(g, v, p)
        BY <4>1, <4>2, RegionsApart
      <4>4. At(g, m, q) \in Given(g, v, c, s, p)
        BY <4>2, <4>3 DEF Given
      <4>5. At(g, m, q) = old \/ At(g, m, q) = to
        BY <1>1, <1>11, <2>3, <3>3, <4>4 DEF Few
      <4> QED BY <1>5, <4>1, <4>5
    <3>5. p \in Region(g, v, p)
      BY RegionIs
    <3> QED BY <3>4, <3>5 DEF Uniform
  <2> QED BY <1>11, <2>1, <2>2, <2>3 DEF PassTwo
<1> QED BY <1>9, <1>10, <1>11 DEF PassTwo

Put(f, x, n) == [f EXCEPT ![x] = n]

(* What the step of pass one passes: the pixel where it stands.                     *)
LEMMA StepPasses ==
  ASSUME NEW g \in Extents, OneBlock(g), NEW i, Right(g, i, 0, g.ys - 1), i.linear # i.end,
         NEW k, k = Move(g, i, 1)
  PROVE  /\ Right(g, k, 0, g.ys - 1) /\ k.end = i.end
         /\ k.linear # k.end => Follows(k, i)
         /\ Here(i) \in Pix(g) /\ ~Passed(i, i.x, i.y, i.z)
         /\ \A p \in Pix(g) : Passed(k, p[1], p[2], p[3]) <=> Passed(i, p[1], p[2], p[3]) \/ p = Here(i)
<1>1. /\ g.xs \in Nat \ {0} /\ g.ys \in Nat \ {0} /\ g.zs \in Nat \ {0}
      /\ 0 \in Nat /\ g.ys - 1 \in Nat /\ 0 <= g.ys - 1 /\ g.ys - 1 < g.ys
  BY ExtentTypes
<1>2. /\ Right(g, k, 0, g.ys - 1) /\ k.end = i.end
      /\ k.linear # k.end => ~IsAtEnd(i) /\ Follows(k, i)
      /\ \A x \in 0 .. g.xs - 1, y \in 0 .. g.ys - 1, z \in 0 .. g.zs - 1 :
           Passed(k, x, y, z) => Passed(i, x, y, z) \/ (x = i.x /\ y = i.y /\ z = i.z)
  BY <1>1, StepRight
<1>3. /\ i.x \in 0 .. g.xs - 1 /\ i.y \in 0 .. g.ys - 1 /\ i.z \in 0 .. g.zs - 1
      /\ i.box.x2 = g.xs - 1 /\ i.box.y1 = 0 /\ i.box.y2 = g.ys - 1
  BY DEF Right, Placed
<1>4. Here(i) \in Pix(g) /\ ~Passed(i, i.x, i.y, i.z)
  BY <1>1, <1>3 DEF Here, Pix, Passed
<1>5. ASSUME NEW p \in Pix(g)
      PROVE  Passed(k, p[1], p[2], p[3]) <=> Passed(i, p[1], p[2], p[3]) \/ p = Here(i)
  <2>1. /\ p[1] \in 0 .. g.xs - 1 /\ p[2] \in 0 .. g.ys - 1 /\ p[3] \in 0 .. g.zs - 1
        /\ p = <<p[1], p[2], p[3]>>
    BY PixIs
  <2>2. p = Here(i) <=> p[1] = i.x /\ p[2] = i.y /\ p[3] = i.z
    BY <2>1 DEF Here
  <2>3. Passed(k, p[1], p[2], p[3]) => Passed(i, p[1], p[2], p[3]) \/ p = Here(i)
    BY <1>2, <2>1, <2>2
  <2>4. CASE k.linear = k.end
    BY <2>3, <2>4 DEF Passed
  <2>5. CASE k.linear # k.end
    <3>1. Follows(k, i)
      BY <1>2, <2>5
    <3>2. p[1] <= i.box.x2 /\ p[2] <= i.box.y2
      BY <1>3, <2>1
    <3>3. Passed(i, p[1], p[2], p[3]) => Passed(k, p[1], p[2], p[3])
      BY <1>1, <1>3, <2>1, <3>1 DEF Follows, Passed
    <3>4. p = Here(i) => Passed(k, p[1], p[2], p[3])
      BY <1>1, <1>3, <2>1, <2>2, <3>1 DEF Follows, Passed
    <3> QED BY <2>3, <3>3, <3>4
  <2> QED BY <2>4, <2>5
<1> QED BY <1>2, <1>4, <1>5

(* What was kept suits the next pixel.                                              *)
LEMMA SeesOn ==
  ASSUME NEW g \in Extents, OneBlock(g), NEW i, Right(g, i, 0, g.ys - 1), i.linear # i.end,
         NEW k, k = Move(g, i, 1), NEW w, NEW w1,
         \A p \in Pix(g) : p # Here(i) => At(g, w1, p) = At(g, w, p),
         NEW nin, Seen(g, w, i, nin),
         NEW nin1, nin1 = Put(nin, i.x, At(g, w1, Here(i)))
  PROVE  Seen(g, w1, k, nin1)
<1>1. /\ g.xs \in Nat \ {0} /\ g.ys \in Nat \ {0} /\ g.zs \in Nat \ {0}
      /\ i.x \in 0 .. g.xs - 1 /\ i.y \in 0 .. g.ys - 1 /\ i.z \in 0 .. g.zs - 1
      /\ i.box.x2 = g.xs - 1 /\ i.box.y1 = 0 /\ i.box.y2 = g.ys - 1
  BY ExtentTypes DEF Right, Placed
<1>2. /\ DOMAIN nin = 0 .. g.xs - 1
      /\ \A x \in 0 .. g.xs - 1 :
         /\ x < i.x => nin[x] = At(g, w, <<x, i.y, i.z>>)
         /\ x >= i.x /\ i.y > 0 => nin[x] = At(g, w, <<x, i.y - 1, i.z>>)
  BY DEF Seen
<1>3. /\ DOMAIN nin1 = 0 .. g.xs - 1 /\ nin1[i.x] = At(g, w1, Here(i))
      /\ \A x \in 0 .. g.xs - 1 : x # i.x => nin1[x] = nin[x]
  BY <1>1, <1>2 DEF Put
<1>4. ASSUME NEW x \in 0 .. g.xs - 1, x # i.x
      PROVE  /\ x < i.x => nin1[x] = At(g, w1, <<x, i.y, i.z>>)
             /\ x > i.x /\ i.y > 0 => nin1[x] = At(g, w1, <<x, i.y - 1, i.z>>)
  <2>1. ASSUME NEW y \in 0 .. g.ys - 1
        PROVE  At(g, w1, <<x, y, i.z>>) = At(g, w, <<x, y, i.z>>)
    <3>1. <<x, y, i.z>> \in Pix(g) /\ <<x, y, i.z>> # Here(i)
      BY <1>1, <1>4 DEF Pix, Here
    <3> QED BY <3>1
  <2>2. At(g, w1, <<x, i.y, i.z>>) = At(g, w, <<x, i.y, i.z>>)
    BY <1>1, <2>1
  <2>3. i.y > 0 => At(g, w1, <<x, i.y - 1, i.z>>) = At(g, w, <<x, i.y - 1, i.z>>)
    <3>1. i.y > 0 => i.y - 1 \in 0 .. g.ys - 1
      BY <1>1
    <3> QED BY <2>1, <3>1
  <2>4. nin1[x] = nin[x]
    BY <1>3, <1>4
  <2>5. x < i.x => nin1[x] = At(g, w1, <<x, i.y, i.z>>)
    BY <1>2, <2>2, <2>4
  <2>6. x > i.x /\ i.y > 0 => nin1[x] = At(g, w1, <<x, i.y - 1, i.z>>)
    <3>1. x > i.x => x >= i.x
      BY <1>1
    <3> QED BY <1>2, <2>3, <2>4, <3>1
  <2> QED BY <2>5, <2>6
<1>5. nin1[i.x] = At(g, w1, <<i.x, i.y, i.z>>)
  BY <1>3 DEF Here
<1>6. ASSUME k.linear # k.end, NEW x \in 0 .. g.xs - 1
      PROVE  /\ x < k.x => nin1[x] = At(g, w1, <<x, k.y, k.z>>)
             /\ x >= k.x /\ k.y > 0 => nin1[x] = At(g, w1, <<x, k.y - 1, k.z>>)
  <2>1. Follows(k, i)
    BY <1>6, StepPasses
  <2>2. CASE i.x < i.box.x2 /\ k.x = i.x + 1 /\ k.y = i.y /\ k.z = i.z
    <3>1. x < k.x => x = i.x \/ x < i.x
      BY <1>1, <2>2
    <3>2. x >= k.x => x > i.x /\ x # i.x
      BY <1>1, <2>2
    <3>3. x < i.x => x # i.x
      BY <1>1
    <3>4. x < k.x => nin1[x] = At(g, w1, <<x, i.y, i.z>>)
      BY <1>4, <1>5, <3>1, <3>3
    <3>5. x >= k.x /\ i.y > 0 => nin1[x] = At(g, w1, <<x, i.y - 1, i.z>>)
      BY <1>4, <3>2
    <3> QED BY <2>2, <3>4, <3>5
  <2>3. CASE i.x = i.box.x2 /\ k.x = 0 /\ k.y = i.y + 1 /\ k.z = i.z
    <3>1. ~(x < k.x) /\ k.y - 1 = i.y
      BY <1>1, <2>3
    <3>2. x = i.x \/ (x < i.x /\ x # i.x)
      BY <1>1, <2>3
    <3>3. nin1[x] = At(g, w1, <<x, i.y, i.z>>)
      BY <1>4, <1>5, <3>2
    <3> QED BY <2>3, <3>1, <3>3
  <2>4. CASE k.x = 0 /\ k.y = 0
    BY <1>1, <2>4
  <2> QED BY <1>1, <2>1, <2>2, <2>3, <2>4 DEF Follows
<1> QED BY <1>3, <1>6 DEF Seen

(* A pixel gets its number.                                                         *)
LEMMA StepOne ==
  ASSUME NEW g \in Extents, OneBlock(g), NEW v, NEW m, m \in Numbers(g), NEW ch, NEW c, NEW s, NEW i,
         NEW nin, NEW nout, PassOne(g, v, m, ch, c, s, i, nin, nout), i.linear # i.end,
         NEW n, n # Nothing, NEW ch1, DOMAIN ch \subseteq DOMAIN ch1,
         LikeOver(g, v, Here(i)) => n = At(g, m, Above(Here(i))),
         LikeSide(g, v, Here(i)) =>
           At(g, m, Aleft(Here(i))) = n \/ At(g, m, Aleft(Here(i))) \in DOMAIN ch1,
         NEW c1, NEW s1,
         \A a \in 0 .. c1 - 1 : s1[a] \in Pix(g) /\ (s1[a] = Here(i) \/ At(g, m, s1[a]) # Nothing),
         NEW m1, m1 = Put(m, CellOf(g, Here(i)), n),
         NEW nin1, nin1 = Put(nin, i.x, At(g, v, Here(i))),
         NEW nout1, nout1 = Put(nout, i.x, n),
         NEW k, k = Move(g, i, 1)
  PROVE  PassOne(g, v, m1, ch1, c1, s1, k, nin1, nout1)
<1> DEFINE h == Here(i)
<1>1. /\ Right(g, i, 0, g.ys - 1) /\ Linked(g, v, m, ch)
      /\ Seen(g, v, i, nin) /\ Seen(g, m, i, nout)
      /\ \A p \in Pix(g) : At(g, m, p) # Nothing <=> Passed(i, p[1], p[2], p[3])
  BY DEF PassOne
<1>2. /\ Right(g, k, 0, g.ys - 1) /\ h \in Pix(g) /\ ~Passed(i, i.x, i.y, i.z)
      /\ \A p \in Pix(g) : Passed(k, p[1], p[2], p[3]) <=> Passed(i, p[1], p[2], p[3]) \/ p = h
  BY <1>1, StepPasses
<1>3. /\ At(g, m1, h) = n
      /\ \A p \in Pix(g) : p # h => At(g, m1, p) = At(g, m, p)
  <2>1. CellOf(g, h) \in Cells(g) /\ \A p \in Pix(g) : CellOf(g, p) = CellOf(g, h) => p = h
    BY <1>2, CellOfPix
  <2>2. DOMAIN m = Cells(g)
    BY DEF Numbers
  <2> QED BY <2>1, <2>2 DEF At, Put
<1>4. At(g, m, h) = Nothing
  BY <1>1, <1>2 DEF Here
<1>5. \A p \in Pix(g) : At(g, m1, p) # Nothing <=> Passed(k, p[1], p[2], p[3])
  BY <1>1, <1>2, <1>3
<1>6. \A a \in 0 .. c1 - 1 : At(g, m1, s1[a]) # Nothing
  BY <1>3
<1>7. Seen(g, v, k, nin1)
  BY <1>1, SeesOn
<1>8. Seen(g, m1, k, nout1)
  BY <1>1, <1>3, SeesOn
<1>9. ASSUME NEW p \in Pix(g), NEW q \in Pix(g), At(g, m1, p) # Nothing, At(g, m1, q) # Nothing
      PROVE  /\ p = Above(q) /\ LikeOver(g, v, q) => At(g, m1, q) = At(g, m1, p)
             /\ p = Aleft(q) /\ LikeSide(g, v, q) =>
                  At(g, m1, q) = At(g, m1, p) \/ At(g, m1, p) \in DOMAIN ch1
  <2>1. CASE q = h
    <3>1. p = Above(q) \/ p = Aleft(q) => p # q
      BY PixIs DEF Above, Aleft
    <3> QED BY <1>3, <2>1, <3>1
  <2>2. CASE q # h /\ p # h
    <3>1. At(g, m1, p) = At(g, m, p) /\ At(g, m1, q) = At(g, m, q)
      BY <1>3, <2>2
    <3> QED BY <1>1, <1>9, <3>1 DEF Linked
  <2>3. CASE q # h /\ p = h
    <3>1. Passed(i, q[1], q[2], q[3]) /\ i.linear # i.end
      BY <1>1, <1>3, <1>9, <2>3
    <3>2. p[1] = i.x /\ p[2] = i.y /\ p[3] = i.z
      BY <2>3 DEF Here
    <3>3. p # Above(q) /\ p # Aleft(q)
      <4>1. /\ q[1] \in Nat /\ q[2] \in Nat /\ q[3] \in Nat
            /\ p[1] \in Nat /\ p[2] \in Nat /\ p[3] \in Nat
        BY PixIs
      <4> QED BY <3>1, <3>2, <4>1 DEF Above, Aleft, Passed
    <3> QED BY <3>3
  <2> QED BY <2>1, <2>2, <2>3
<1>10. Linked(g, v, m1, ch1)
  BY <1>9 DEF Linked
<1> QED BY <1>2, <1>5, <1>6, <1>7, <1>8, <1>10 DEF PassOne

(* A pixel gets the number of one beside it of the same value.                      *)
LEMMA PlacingOld ==
  ASSUME NEW g \in Extents, NEW v, NEW m, NEW ch, NEW c, NEW s, Placing(g, v, m, ch, c, s),
         NEW h \in Pix(g), NEW q \in Ring(g, v, h), At(g, m, q) # Nothing,
         NEW n, n = At(g, m, q), NEW m1, m1 = Put(m, CellOf(g, h), n),
         NEW ch1, \A a \in DOMAIN ch1 :
           \/ a \in DOMAIN ch /\ ch1[a] = ch[a]
           \/ /\ ch1[a] = n /\ a # n
              /\ \E r \in Ring(g, v, h) : At(g, m, r) # Nothing /\ a = At(g, m, r)
  PROVE  Placing(g, v, m1, ch1, c, s) /\ n # Nothing
<1>1. /\ c \in Nat /\ s \in [0 .. c - 1 -> Pix(g)] /\ m \in Numbers(g)
      /\ \A p \in Pix(g) : At(g, m, p) # Nothing =>
           At(g, m, p) \in 0 .. c - 1 /\ p \in Region(g, v, s[At(g, m, p)])
      /\ \A a \in DOMAIN ch :
           a \in 0 .. c - 1 /\ ch[a] \in 0 .. c - 1 /\ ch[a] # a /\ s[a] \in Region(g, v, s[ch[a]])
  BY DEF Placing
<1>2. ASSUME NEW r \in Ring(g, v, h), At(g, m, r) # Nothing
      PROVE  /\ At(g, m, r) \in 0 .. c - 1
             /\ Region(g, v, s[At(g, m, r)]) = Region(g, v, h)
             /\ s[At(g, m, r)] \in Pix(g) /\ s[At(g, m, r)] \in Region(g, v, h)
  <2>1. r \in Pix(g) /\ r \in Region(g, v, h)
    BY RingIs, RingInRegion
  <2>2. At(g, m, r) \in 0 .. c - 1 /\ r \in Region(g, v, s[At(g, m, r)])
    BY <1>1, <1>2, <2>1
  <2>3. s[At(g, m, r)] \in Pix(g)
    BY <1>1, <2>2
  <2>4. Region(g, v, r) = Region(g, v, s[At(g, m, r)]) /\ Region(g, v, r) = Region(g, v, h)
    BY <2>1, <2>2, <2>3, RegionsApart
  <2>5. s[At(g, m, r)] \in Region(g, v, s[At(g, m, r)])
    BY <2>3, RegionIs
  <2> QED BY <2>2, <2>3, <2>4, <2>5
<1>3. n \in 0 .. c - 1 /\ Region(g, v, s[n]) = Region(g, v, h) /\ n \in Nat
  BY <1>1, <1>2
<1>4. CellOf(g, h) \in Cells(g) /\ \A p \in Pix(g) : CellOf(g, h) = CellOf(g, p) => h = p
  BY CellOfPix
<1>5. /\ At(g, m1, h) = n
      /\ \A p \in Pix(g) : p # h => At(g, m1, p) = At(g, m, p)
  BY <1>1, <1>4 DEF At, Numbers, Put
<1>6. m1 \in Numbers(g)
  BY <1>1, <1>3 DEF Numbers, Put
<1>7. ASSUME NEW p \in Pix(g), At(g, m1, p) # Nothing
      PROVE  At(g, m1, p) \in 0 .. c - 1 /\ p \in Region(g, v, s[At(g, m1, p)])
  <2>1. CASE p = h
    <3>1. h \in Region(g, v, h)
      BY RegionIs
    <3> QED BY <1>3, <1>5, <2>1, <3>1
  <2>2. CASE p # h
    BY <1>1, <1>5, <1>7, <2>2
  <2> QED BY <2>1, <2>2
<1>8. ASSUME NEW a \in DOMAIN ch1
      PROVE  a \in 0 .. c - 1 /\ ch1[a] \in 0 .. c - 1 /\ ch1[a] # a /\ s[a] \in Region(g, v, s[ch1[a]])
  <2>1. CASE a \in DOMAIN ch /\ ch1[a] = ch[a]
    BY <1>1, <2>1
  <2>2. ASSUME ch1[a] = n, a # n, NEW r \in Ring(g, v, h), At(g, m, r) # Nothing, a = At(g, m, r)
        PROVE  a \in 0 .. c - 1 /\ ch1[a] \in 0 .. c - 1 /\ ch1[a] # a /\ s[a] \in Region(g, v, s[ch1[a]])
    <3>1. a \in 0 .. c - 1 /\ s[a] \in Region(g, v, h)
      BY <1>2, <2>2
    <3> QED BY <1>3, <2>2, <3>1
  <2> QED BY <2>1, <2>2
<1>9. n # Nothing
  OBVIOUS
<1> QED BY <1>1, <1>6, <1>7, <1>8, <1>9 DEF Placing

(* A pixel gets a new number, of which it is the start.                             *)
LEMMA PlacingNew ==
  ASSUME NEW g \in Extents, NEW v, NEW m, NEW ch, NEW c, NEW s, Placing(g, v, m, ch, c, s),
         NEW h \in Pix(g), At(g, m, h) = Nothing, \A a \in 0 .. c - 1 : At(g, m, s[a]) # Nothing,
         ~LikeOver(g, v, h), ~LikeSide(g, v, h),
         NEW m1, m1 = Put(m, CellOf(g, h), c),
         NEW s1, s1 = [a \in 0 .. (c + 1) - 1 |-> IF a = c THEN h ELSE s[a]]
  PROVE  Placing(g, v, m1, ch, c + 1, s1) /\ c # Nothing
<1>1. /\ c \in Nat /\ s \in [0 .. c - 1 -> Pix(g)] /\ m \in Numbers(g)
      /\ \A a, b \in 0 .. c - 1 : s[a] = s[b] => a = b
      /\ \A a \in 0 .. c - 1 : ~LikeOver(g, v, s[a]) /\ ~LikeSide(g, v, s[a])
      /\ \A p \in Pix(g) : At(g, m, p) # Nothing =>
           At(g, m, p) \in 0 .. c - 1 /\ p \in Region(g, v, s[At(g, m, p)])
      /\ \A a \in DOMAIN ch :
           a \in 0 .. c - 1 /\ ch[a] \in 0 .. c - 1 /\ ch[a] # a /\ s[a] \in Region(g, v, s[ch[a]])
  BY DEF Placing
<1>2. /\ \A a \in 0 .. (c + 1) - 1 : a = c \/ a \in 0 .. c - 1
      /\ \A a \in 0 .. c - 1 : a \in 0 .. (c + 1) - 1 /\ a # c
      /\ c \in 0 .. (c + 1) - 1 /\ c + 1 \in Nat
  BY <1>1
<1>3. s1[c] = h /\ \A a \in 0 .. c - 1 : s1[a] = s[a]
  BY <1>2
<1>4. s1 \in [0 .. (c + 1) - 1 -> Pix(g)]
  BY <1>1, <1>2
<1>5. \A a \in 0 .. c - 1 : s1[a] # h
  BY <1>3
<1>6. ASSUME NEW a \in 0 .. (c + 1) - 1, NEW b \in 0 .. (c + 1) - 1, s1[a] = s1[b]
      PROVE  a = b
  BY <1>1, <1>2, <1>3, <1>5, <1>6
<1>7. \A a \in 0 .. (c + 1) - 1 : ~LikeOver(g, v, s1[a]) /\ ~LikeSide(g, v, s1[a])
  BY <1>1, <1>2, <1>3
<1>8. CellOf(g, h) \in Cells(g) /\ \A p \in Pix(g) : CellOf(g, h) = CellOf(g, p) => h = p
  BY CellOfPix
<1>9. /\ At(g, m1, h) = c
      /\ \A p \in Pix(g) : p # h => At(g, m1, p) = At(g, m, p)
  BY <1>1, <1>8 DEF At, Numbers, Put
<1>10. m1 \in Numbers(g)
  BY <1>1 DEF Numbers, Put
<1>11. ASSUME NEW p \in Pix(g), At(g, m1, p) # Nothing
       PROVE  At(g, m1, p) \in 0 .. (c + 1) - 1 /\ p \in Region(g, v, s1[At(g, m1, p)])
  <2>1. CASE p = h
    <3>1. h \in Region(g, v, h)
      BY RegionIs
    <3> QED BY <1>2, <1>3, <1>9, <2>1, <3>1
  <2>2. CASE p # h
    <3>1. At(g, m, p) \in 0 .. c - 1 /\ p \in Region(g, v, s[At(g, m, p)]) /\ At(g, m1, p) = At(g, m, p)
      BY <1>1, <1>9, <1>11, <2>2
    <3> QED BY <1>2, <1>3, <3>1
  <2> QED BY <2>1, <2>2
<1>12. \A a \in DOMAIN ch :
         a \in 0 .. (c + 1) - 1 /\ ch[a] \in 0 .. (c + 1) - 1 /\ ch[a] # a /\ s1[a] \in Region(g, v, s1[ch[a]])
  BY <1>1, <1>2, <1>3
<1>13. c # Nothing
  BY <1>1, AreaGridsAssumption
<1> QED BY <1>2, <1>4, <1>6, <1>7, <1>10, <1>11, <1>12, <1>13 DEF Placing

(* An area with two starts or less got no more than two numbers.                    *)
LEMMA FewIs ==
  ASSUME NEW g \in Extents, NEW v, NEW m, NEW ch, NEW c, NEW s, Placing(g, v, m, ch, c, s),
         NEW p \in Pix(g), NEW S,
         S = {q \in Region(g, v, p) : Aleft(q) \notin Region(g, v, p) /\ Above(q) \notin Region(g, v, p)},
         Cardinality(S) <= 2
  PROVE  Few(Given(g, v, c, s, p))
<1>1. IsFiniteSet(S)
  <2>1. S \subseteq Band(g, p[3])
    BY RegionIs, RegionsApart DEF Band
  <2> QED BY <2>1, BandSize, FS_Subset
<1>2. ASSUME NEW a \in Given(g, v, c, s, p) PROVE s[a] \in S /\ a \in 0 .. c - 1
  <2>1. a \in 0 .. c - 1 /\ s[a] \in Region(g, v, p) /\ s[a] \in Pix(g)
    BY RegionIs DEF Given
  <2>2. ~LikeOver(g, v, s[a]) /\ ~LikeSide(g, v, s[a])
    BY <2>1 DEF Placing
  <2>3. \A q \in Region(g, v, p) : q \in Pix(g) /\ At(g, v, q) = At(g, v, p)
    BY RegionsApart
  <2>4. Above(s[a]) \notin Region(g, v, p)
    <3>1. SUFFICES ASSUME Above(s[a]) \in Region(g, v, p) PROVE FALSE
      OBVIOUS
    <3>2. Above(s[a]) \in Pix(g) /\ At(g, v, s[a]) = At(g, v, Above(s[a]))
      BY <2>1, <2>3, <3>1
    <3>3. Above(s[a])[2] \in Nat /\ s[a][2] \in Nat
      BY <2>1, <3>2, PixIs
    <3>4. s[a][2] > 0
      BY <3>3 DEF Above
    <3> QED BY <2>2, <3>2, <3>4 DEF LikeOver
  <2>5. Aleft(s[a]) \notin Region(g, v, p)
    <3>1. SUFFICES ASSUME Aleft(s[a]) \in Region(g, v, p) PROVE FALSE
      OBVIOUS
    <3>2. Aleft(s[a]) \in Pix(g) /\ At(g, v, s[a]) = At(g, v, Aleft(s[a]))
      BY <2>1, <2>3, <3>1
    <3>3. Aleft(s[a])[1] \in Nat /\ s[a][1] \in Nat
      BY <2>1, <3>2, PixIs
    <3>4. s[a][1] > 0
      BY <3>3 DEF Aleft
    <3> QED BY <2>2, <3>2, <3>4 DEF LikeSide
  <2> QED BY <2>1, <2>4, <2>5
<1>3. ASSUME NEW a \in Given(g, v, c, s, p), NEW b \in Given(g, v, c, s, p), NEW e \in Given(g, v, c, s, p),
             a # b, b # e, a # e
      PROVE  FALSE
  <2>1. /\ s[a] \in S /\ s[b] \in S /\ s[e] \in S
        /\ s[a] # s[b] /\ s[b] # s[e] /\ s[a] # s[e]
    BY <1>2, <1>3 DEF Placing
  <2> DEFINE A == {s[a]}
             B == A \union {s[b]}
             T == B \union {s[e]}
  <2>2. IsFiniteSet(A) /\ Cardinality(A) = 1 /\ s[b] \notin A
    BY <2>1, FS_Singleton
  <2> HIDE DEF A
  <2>3. IsFiniteSet(B) /\ Cardinality(B) = 2
    BY <2>2, FS_AddElement
  <2>4. s[e] \notin B
    BY <2>1 DEF A
  <2> HIDE DEF B
  <2>5. Cardinality(T) = 3
    BY <2>3, <2>4, FS_AddElement
  <2>6. T \in SUBSET S
    BY <2>1 DEF A, B
  <2>7. Cardinality(T) <= Cardinality(S) /\ Cardinality(S) \in Nat
    BY <1>1, <2>6, FS_Subset, FS_CardinalityType
  <2> QED BY <2>5, <2>7
<1> QED BY <1>3 DEF Few

-----------------------------------------------------------------------------
(* The actions of areanumbering *)

(* The iterator of areanumbering is that of the other operations.                   *)
LEMMA MoveYZAN == \A g, i, n : AN!MoveYZ(g, i, n) = MoveYZ(g, i, n)
<1> TAKE g, i, n
<1> DEFINE moved == IF i.x < i.box.x1 THEN LineBefore(g, i, n) ELSE NextLine(g, i)
           placed == [moved EXCEPT !.offset = moved.x + g.xs * (moved.y - g.maxLines * Trunc(moved.y, g.maxLines))]
           next == Move2NextBlock(g, placed)
           amoved == IF i.x < i.box.x1 THEN AN!LineBefore(g, i, n) ELSE AN!NextLine(g, i)
           aplaced == [amoved EXCEPT !.offset = amoved.x + g.xs * (amoved.y - g.maxLines * AN!Trunc(amoved.y, g.maxLines))]
           anext == AN!Move2NextBlock(g, aplaced)
<1>1. AN!MoveYZ(g, i, n) = CASE anext.y > anext.box.y2 -> AN!NextBand(g, anext)
                            [] anext.y < anext.box.y1 -> AN!BandBefore(g, anext)
                            [] OTHER -> anext
  BY Zenon DEF AN!MoveYZ
<1>2. MoveYZ(g, i, n) = CASE next.y > next.box.y2 -> NextBand(g, next)
                          [] next.y < next.box.y1 -> BandBefore(g, next)
                          [] OTHER -> next
  BY Zenon DEF MoveYZ
<1>3. \A h, j : AN!NextLine(h, j) = NextLine(h, j)
  BY DEF AN!NextLine, NextLine, AN!XLength, XLength
<1>4. \A a, b : AN!Trunc(a, b) = Trunc(a, b)
  BY DEF AN!Trunc, Trunc
<1>5. \A h, j, k : AN!LineBefore(h, j, k) = LineBefore(h, j, k)
  BY DEF AN!LineBefore, LineBefore, AN!XLength, XLength, AN!YLength, YLength, AN!ZLength, ZLength,
         AN!Trunc, Trunc
<1>6. \A h, j : AN!Move2NextBlock(h, j) = Move2NextBlock(h, j)
  BY DEF AN!Move2NextBlock, Move2NextBlock, AN!BlocksPerBand, BlocksPerBand, AN!Blocks, Blocks, AN!Trunc, Trunc
<1>7. \A h, j : AN!NextBand(h, j) = NextBand(h, j)
  BY DEF AN!NextBand, NextBand, AN!YLength, YLength, AN!BlocksPerBand, BlocksPerBand, AN!OffsetOf, OffsetOf
<1>8. \A h, j : AN!BandBefore(h, j) = BandBefore(h, j)
  BY DEF AN!BandBefore, BandBefore, AN!OffsetOf, OffsetOf
<1>9. amoved = moved
  BY <1>3, <1>5
<1>10. AN!Trunc(moved.y, g.maxLines) = Trunc(moved.y, g.maxLines)
  BY <1>4
<1> HIDE DEF moved, amoved
<1>11. aplaced = placed
  BY <1>9, <1>10
<1> HIDE DEF placed, aplaced
<1>12. anext = next
  BY <1>6, <1>11
<1> HIDE DEF next, anext
<1> QED BY <1>1, <1>2, <1>7, <1>8, <1>12

LEMMA MoveAN ==
  ASSUME NEW g, NEW i, i.flow = "XYZ", NEW n
  PROVE  AN!Move(g, i, n) = Move(g, i, n)
<1>1. AN!MoveXYZ(g, i, n) = MoveXYZ(g, i, n)
  BY MoveYZAN DEF AN!MoveXYZ, MoveXYZ
<1>2. AN!ToEnd(i) = ToEnd(i) /\ (AN!IsAtEnd(i) <=> IsAtEnd(i))
  BY DEF AN!ToEnd, ToEnd, AN!IsAtEnd, IsAtEnd
<1> QED BY <1>1, <1>2 DEF AN!Move, Move

LEMMA CountAN == \A S : AN!Cardinality(S) = Cardinality(S)
BY Zenon DEF AN!Cardinality, Cardinality

LEMMA CellsAN == \A g : AN!Cells(g) = Cells(g)
<1>1. \A g, b : AN!BlockSize(g, b) = BlockSize(g, b)
  BY DEF AN!BlockSize, BlockSize, AN!BlocksPerBand, BlocksPerBand, AN!Smallest, Smallest
<1>2. \A g : AN!Blocks(g) = Blocks(g)
  BY DEF AN!Blocks, Blocks, AN!BlocksPerBand, BlocksPerBand
<1> QED BY <1>1, <1>2 DEF AN!Cells, Cells

LEMMA FirstAN == AN!First = Iterator(grid, WholeBox(grid), "XYZ")
<1>1. AN!WholeBox(grid) = WholeBox(grid)
  BY DEF AN!WholeBox, WholeBox, AN!BoxOf, BoxOf
<1>2. \A g, b : AN!Ensure(g, b) = Ensure(g, b)
  BY DEF AN!Ensure, Ensure, AN!XLength, XLength, AN!YLength, YLength, AN!ZLength, ZLength
<1>3. \A g, i : AN!InitPosition(g, i) = InitPosition(g, i)
  BY CellAN DEF AN!InitPosition, InitPosition, AN!LinearOf, LinearOf
<1>4. \A g, b, f : AN!Iterator(g, b, f) = Iterator(g, b, f)
  BY <1>2, <1>3 DEF AN!Iterator, Iterator
<1> QED BY <1>1, <1>4 DEF AN!First

LEMMA EndAN ==
  ASSUME grid \in Extents, Right(grid, iter, 0, grid.ys - 1)
  PROVE  AN!AtEnd <=> iter.linear = iter.end
<1> DEFINE f == Iterator(grid, WholeBox(grid), "XYZ")
<1>1. Right(grid, f, 0, grid.ys - 1) /\ EndOf(grid, f).linear = f.end
  BY FirstOfAll
<1>2. f.end = iter.end /\ f.flow = "XYZ"
  BY <1>1 DEF Right, Placed, Iterators
<1>3. AN!First = f
  BY FirstAN
<1> HIDE DEF f
<1>4. AN!EndOf(grid, f) = EndOf(grid, f)
  BY <1>2, MoveAN DEF AN!EndOf, EndOf
<1> QED BY <1>1, <1>2, <1>3, <1>4 DEF AN!AtEnd

(* The values and numbers that pass one looks at are those above and to the left.   *)
LEMMA LooksAt ==
  ASSUME grid \in Extents, NEW s, iter.linear # iter.end,
         PassOne(grid, input, numbers, pass2Changes, currentId, s, iter, neighboursIn, neighboursOut),
         NEW h, h = Here(iter)
  PROVE  /\ h \in Pix(grid)
         /\ AN!CellAt(iter) = CellOf(grid, h) /\ AN!Value = At(grid, input, h)
         /\ AN!LikeAbove <=> LikeOver(grid, input, h)
         /\ AN!LikeLeft <=> LikeSide(grid, input, h)
         /\ LikeOver(grid, input, h) =>
              /\ neighboursOut[iter.x] = At(grid, numbers, Above(h))
              /\ At(grid, numbers, Above(h)) # Nothing
         /\ LikeSide(grid, input, h) =>
              /\ neighboursOut[AN!Left] = At(grid, numbers, Aleft(h))
              /\ At(grid, numbers, Aleft(h)) # Nothing
<1>1. /\ grid.xs \in Nat /\ grid.ys \in Nat /\ grid.zs \in Nat
      /\ iter.x \in 0 .. grid.xs - 1 /\ iter.y \in 0 .. grid.ys - 1 /\ iter.z \in 0 .. grid.zs - 1
      /\ InCell(grid, iter)
  BY ExtentTypes DEF PassOne, Right, Placed
<1>2. h \in Pix(grid) /\ h[1] = iter.x /\ h[2] = iter.y /\ h[3] = iter.z
  BY <1>1 DEF Here, Pix
<1>3. Above(h) = <<iter.x, iter.y - 1, iter.z>> /\ Aleft(h) = <<iter.x - 1, iter.y, iter.z>>
  BY DEF Here, Above, Aleft
<1>4. AN!CellAt(iter) = CellOf(grid, h)
  BY <1>1, InCellIs, CellAN DEF Here, PixelAt
<1>5. AN!Value = At(grid, input, h)
  BY <1>4 DEF AN!Value, At
<1>6. ASSUME NEW w, NEW seen, Seen(grid, w, iter, seen)
      PROVE  /\ iter.y > 0 => seen[iter.x] = At(grid, w, Above(h))
             /\ iter.x > 0 => seen[iter.x - 1] = At(grid, w, Aleft(h))
  <2>1. \A x \in 0 .. grid.xs - 1 :
          /\ x < iter.x => seen[x] = At(grid, w, <<x, iter.y, iter.z>>)
          /\ x >= iter.x /\ iter.y > 0 => seen[x] = At(grid, w, <<x, iter.y - 1, iter.z>>)
    BY <1>6 DEF Seen
  <2>2. iter.x >= iter.x
    BY <1>1
  <2>3. iter.y > 0 => seen[iter.x] = At(grid, w, Above(h))
    BY <1>1, <1>3, <2>1, <2>2
  <2>4. iter.x > 0 => iter.x - 1 \in 0 .. grid.xs - 1 /\ iter.x - 1 < iter.x
    BY <1>1
  <2>5. iter.x > 0 => seen[iter.x - 1] = At(grid, w, Aleft(h))
    BY <1>3, <2>1, <2>4
  <2> QED BY <2>3, <2>5
<1>7. /\ iter.y > 0 => neighboursIn[iter.x] = At(grid, input, Above(h))
      /\ iter.x > 0 => neighboursIn[iter.x - 1] = At(grid, input, Aleft(h))
      /\ iter.y > 0 => neighboursOut[iter.x] = At(grid, numbers, Above(h))
      /\ iter.x > 0 => neighboursOut[iter.x - 1] = At(grid, numbers, Aleft(h))
  BY <1>6 DEF PassOne
<1>8. iter.x > 0 => AN!Left = iter.x - 1
  BY DEF AN!Left
<1>9. \A p \in Pix(grid) : At(grid, numbers, p) # Nothing <=> Passed(iter, p[1], p[2], p[3])
  BY DEF PassOne
<1>10. iter.y > 0 => At(grid, numbers, Above(h)) # Nothing
  <2>1. iter.y > 0 => Above(h) \in Pix(grid)
    BY <1>2, BeforeIt
  <2>2. Passed(iter, iter.x, iter.y - 1, iter.z)
    BY <1>1 DEF Passed
  <2>3. Above(h)[1] = iter.x /\ Above(h)[2] = iter.y - 1 /\ Above(h)[3] = iter.z
    BY <1>3
  <2> QED BY <1>9, <2>1, <2>2, <2>3
<1>11. iter.x > 0 => At(grid, numbers, Aleft(h)) # Nothing
  <2>1. iter.x > 0 => Aleft(h) \in Pix(grid)
    BY <1>2, BeforeIt
  <2>2. Passed(iter, iter.x - 1, iter.y, iter.z)
    BY <1>1 DEF Passed
  <2>3. Aleft(h)[1] = iter.x - 1 /\ Aleft(h)[2] = iter.y /\ Aleft(h)[3] = iter.z
    BY <1>3
  <2> QED BY <1>9, <2>1, <2>2, <2>3
<1>12. AN!LikeAbove <=> LikeOver(grid, input, h)
  BY <1>2, <1>5, <1>7 DEF AN!LikeAbove, LikeOver
<1>13. AN!LikeLeft <=> LikeSide(grid, input, h)
  BY <1>2, <1>5, <1>7, <1>8 DEF AN!LikeLeft, LikeSide
<1>14. LikeOver(grid, input, h) =>
         neighboursOut[iter.x] = At(grid, numbers, Above(h)) /\ At(grid, numbers, Above(h)) # Nothing
  BY <1>2, <1>7, <1>10 DEF LikeOver
<1>15. LikeSide(grid, input, h) =>
         neighboursOut[AN!Left] = At(grid, numbers, Aleft(h)) /\ At(grid, numbers, Aleft(h)) # Nothing
  BY <1>2, <1>7, <1>8, <1>11 DEF LikeSide
<1> QED BY <1>2, <1>4, <1>5, <1>12, <1>13, <1>14, <1>15

Numbered(g, v, m, ch, c, s, i, nin, nout, ps) ==
  /\ Placing(g, v, m, ch, c, s)
  /\ ps = "one" => PassOne(g, v, m, ch, c, s, i, nin, nout)
  /\ ps # "one" => PassTwo(g, v, m, ch, c, s)
  /\ ps = "done" => DOMAIN ch = {}

Numbering ==
  operation = "areas" =>
    /\ grid \in AreaGrids
    /\ OneBlock(grid) =>
         \E s : Numbered(grid, input, numbers, pass2Changes, currentId, s,
                         iter, neighboursIn, neighboursOut, pass)

LEMMA NumberingInit ==
  ASSUME operation = "areas", AN!Init
  PROVE  Numbering
<1>1. /\ grid \in AreaGrids /\ grid \in Extents
      /\ pass = "one" /\ currentId = 0 /\ pass2Changes = << >>
      /\ numbers = [c \in Cells(grid) |-> Nothing]
      /\ iter = Iterator(grid, WholeBox(grid), "XYZ")
      /\ neighboursIn = [x \in 0 .. grid.xs - 1 |-> 0] /\ neighboursOut = [x \in 0 .. grid.xs - 1 |-> 0]
  BY AreaGridsAssumption, CellsAN, FirstAN DEF AN!Init, AN!Columns
<1> DEFINE s == [a \in 0 .. 0 - 1 |-> 0]
<1>2. \A a \in 0 .. 0 - 1 : FALSE
  OBVIOUS
<1>3. s \in [0 .. 0 - 1 -> Pix(grid)]
  BY <1>2
<1>4. \A p \in Pix(grid) : At(grid, numbers, p) = Nothing
  BY <1>1, CellOfPix DEF At
<1>5. DOMAIN pass2Changes = {}
  BY <1>1
<1> HIDE DEF s
<1>6. Placing(grid, input, numbers, pass2Changes, 0, s)
  <2>1. numbers \in Numbers(grid)
    BY <1>1 DEF Numbers
  <2> QED BY <1>2, <1>3, <1>4, <1>5, <2>1 DEF Placing
<1>7. /\ Right(grid, iter, 0, grid.ys - 1) /\ iter.x = 0 /\ iter.y = 0 /\ iter.z = 0
      /\ iter.linear # iter.end
  BY <1>1, FirstOfAll
<1>8. \A p \in Pix(grid) : ~Passed(iter, p[1], p[2], p[3])
  BY <1>1, <1>7, PixIs DEF Passed
<1>9. Linked(grid, input, numbers, pass2Changes)
  BY <1>4 DEF Linked
<1>10. Seen(grid, input, iter, neighboursIn) /\ Seen(grid, numbers, iter, neighboursOut)
  <2>1. /\ DOMAIN neighboursIn = 0 .. grid.xs - 1 /\ DOMAIN neighboursOut = 0 .. grid.xs - 1
        /\ ~(iter.y > 0) /\ \A x \in 0 .. grid.xs - 1 : ~(x < iter.x)
    BY <1>1, <1>7, ExtentTypes
  <2> QED BY <2>1 DEF Seen
<1>11. PassOne(grid, input, numbers, pass2Changes, 0, s, iter, neighboursIn, neighboursOut)
  BY <1>2, <1>4, <1>7, <1>8, <1>9, <1>10 DEF PassOne
<1>12. Numbered(grid, input, numbers, pass2Changes, currentId, s, iter, neighboursIn, neighboursOut, pass)
  BY <1>1, <1>6, <1>11 DEF Numbered
<1> QED BY <1>1, <1>12 DEF Numbering

(* What the three actions of pass one have in common.                               *)
LEMMA NumberOne ==
  ASSUME grid \in Extents, OneBlock(grid), NEW s,
         Placing(grid, input, numbers, pass2Changes, currentId, s),
         PassOne(grid, input, numbers, pass2Changes, currentId, s, iter, neighboursIn, neighboursOut),
         ~AN!AtEnd
  PROVE  /\ iter.linear # iter.end /\ numbers \in Numbers(grid)
         /\ At(grid, numbers, Here(iter)) = Nothing
         /\ \A n : AN!Number(n) =>
              /\ numbers' = Put(numbers, CellOf(grid, Here(iter)), n)
              /\ neighboursIn' = Put(neighboursIn, iter.x, At(grid, input, Here(iter)))
              /\ neighboursOut' = Put(neighboursOut, iter.x, n)
              /\ iter' = Move(grid, iter, 1) /\ grid' = grid /\ input' = input /\ pass' = pass
<1>1. Right(grid, iter, 0, grid.ys - 1)
  BY DEF PassOne
<1>2. iter.linear # iter.end /\ iter.flow = "XYZ"
  BY <1>1, EndAN DEF Right, Placed, Iterators
<1>3. AN!CellAt(iter) = CellOf(grid, Here(iter)) /\ AN!Value = At(grid, input, Here(iter))
  BY <1>2, LooksAt
<1>4. AN!Move(grid, iter, 1) = Move(grid, iter, 1)
  BY <1>2, MoveAN
<1>5. At(grid, numbers, Here(iter)) = Nothing
  BY <1>1, <1>2, StepPasses DEF PassOne, Here
<1>6. numbers \in Numbers(grid)
  BY DEF Placing
<1> QED BY <1>2, <1>3, <1>4, <1>5, <1>6 DEF AN!Number, Put

LEMMA AboveNumbers ==
  ASSUME Numbering, operation = "areas", operation' = operation, AN!NumberOfAbove
  PROVE  Numbering'
<1> DEFINE h == Here(iter)
           n == neighboursOut[iter.x]
<1>1. /\ grid \in AreaGrids /\ grid \in Extents /\ pass = "one" /\ ~AN!AtEnd /\ AN!LikeAbove
      /\ AN!Number(n) /\ currentId' = currentId
  BY AreaGridsAssumption DEF Numbering, AN!NumberOfAbove
<1>2. grid' = grid /\ pass' = pass /\ input' = input
  BY <1>1 DEF AN!Number
<1>3. SUFFICES ASSUME OneBlock(grid)
               PROVE  \E s : Numbered(grid, input, numbers', pass2Changes', currentId, s,
                                      iter', neighboursIn', neighboursOut', "one")
  BY <1>1, <1>2 DEF Numbering
<1>4. PICK s : Numbered(grid, input, numbers, pass2Changes, currentId, s,
                        iter, neighboursIn, neighboursOut, pass)
  BY <1>3 DEF Numbering
<1>5. /\ Placing(grid, input, numbers, pass2Changes, currentId, s)
      /\ PassOne(grid, input, numbers, pass2Changes, currentId, s, iter, neighboursIn, neighboursOut)
  BY <1>1, <1>4 DEF Numbered
<1>6. /\ iter.linear # iter.end /\ numbers \in Numbers(grid)
      /\ numbers' = Put(numbers, CellOf(grid, h), n)
      /\ neighboursIn' = Put(neighboursIn, iter.x, At(grid, input, h))
      /\ neighboursOut' = Put(neighboursOut, iter.x, n)
      /\ iter' = Move(grid, iter, 1)
  BY <1>1, <1>3, <1>5, NumberOne
<1>7. /\ h \in Pix(grid) /\ LikeOver(grid, input, h)
      /\ AN!LikeLeft <=> LikeSide(grid, input, h)
      /\ n = At(grid, numbers, Above(h)) /\ At(grid, numbers, Above(h)) # Nothing
      /\ LikeSide(grid, input, h) =>
           /\ neighboursOut[AN!Left] = At(grid, numbers, Aleft(h))
           /\ At(grid, numbers, Aleft(h)) # Nothing
  BY <1>1, <1>5, <1>6, LooksAt
<1>8. /\ Above(h) \in Ring(grid, input, h)
      /\ LikeSide(grid, input, h) => Aleft(h) \in Ring(grid, input, h)
  BY <1>1, <1>7, BeforeIt
<1>9. /\ DOMAIN pass2Changes \subseteq DOMAIN pass2Changes'
      /\ LikeSide(grid, input, h) =>
           At(grid, numbers, Aleft(h)) = n \/ At(grid, numbers, Aleft(h)) \in DOMAIN pass2Changes'
      /\ \A a \in DOMAIN pass2Changes' :
           \/ a \in DOMAIN pass2Changes /\ pass2Changes'[a] = pass2Changes[a]
           \/ /\ pass2Changes'[a] = n /\ a # n
              /\ \E r \in Ring(grid, input, h) : At(grid, numbers, r) # Nothing /\ a = At(grid, numbers, r)
  <2>1. CASE LikeSide(grid, input, h) /\ neighboursOut[AN!Left] # n
    <3>1. pass2Changes' = AN!Noted(neighboursOut[AN!Left], n)
      BY <1>7, <2>1 DEF AN!NumberOfAbove
    <3> DEFINE l == At(grid, numbers, Aleft(h))
    <3>2. pass2Changes' = [a \in DOMAIN pass2Changes \union {l} |-> IF a = l THEN n ELSE pass2Changes[a]]
      BY <1>7, <2>1, <3>1 DEF AN!Noted
    <3>3. l # n /\ l # Nothing /\ Aleft(h) \in Ring(grid, input, h)
      BY <1>7, <1>8, <2>1
    <3>4. \A a \in DOMAIN pass2Changes' :
            \/ a \in DOMAIN pass2Changes /\ pass2Changes'[a] = pass2Changes[a]
            \/ pass2Changes'[a] = n /\ a = l
      BY <3>2
    <3>5. DOMAIN pass2Changes \subseteq DOMAIN pass2Changes' /\ l \in DOMAIN pass2Changes'
      BY <3>2
    <3> QED BY <3>3, <3>4, <3>5
  <2>2. CASE ~(LikeSide(grid, input, h) /\ neighboursOut[AN!Left] # n)
    <3>1. pass2Changes' = pass2Changes
      BY <1>7, <2>2 DEF AN!NumberOfAbove
    <3> QED BY <1>7, <2>2, <3>1
  <2> QED BY <2>1, <2>2
<1> HIDE DEF n
<1>10. Placing(grid, input, numbers', pass2Changes', currentId, s) /\ n # Nothing
  BY <1>1, <1>5, <1>6, <1>7, <1>8, <1>9, PlacingOld
<1>11. \A a \in 0 .. currentId - 1 :
         s[a] \in Pix(grid) /\ (s[a] = Here(iter) \/ At(grid, numbers, s[a]) # Nothing)
  BY <1>5 DEF PassOne, Placing
<1>12. PassOne(grid, input, numbers', pass2Changes', currentId, s, iter', neighboursIn', neighboursOut')
  BY <1>1, <1>3, <1>5, <1>6, <1>7, <1>9, <1>10, <1>11, StepOne
<1> QED BY <1>10, <1>12 DEF Numbered

LEMMA LeftNumbers ==
  ASSUME Numbering, operation = "areas", operation' = operation, AN!NumberOfLeft
  PROVE  Numbering'
<1> DEFINE h == Here(iter)
           n == neighboursOut[AN!Left]
<1>1. /\ grid \in AreaGrids /\ grid \in Extents /\ pass = "one" /\ ~AN!AtEnd /\ ~AN!LikeAbove /\ AN!LikeLeft
      /\ AN!Number(n) /\ currentId' = currentId /\ pass2Changes' = pass2Changes
  BY AreaGridsAssumption DEF Numbering, AN!NumberOfLeft
<1>2. grid' = grid /\ pass' = pass /\ input' = input
  BY <1>1 DEF AN!Number
<1>3. SUFFICES ASSUME OneBlock(grid)
               PROVE  \E s : Numbered(grid, input, numbers', pass2Changes, currentId, s,
                                      iter', neighboursIn', neighboursOut', "one")
  BY <1>1, <1>2 DEF Numbering
<1>4. PICK s : Numbered(grid, input, numbers, pass2Changes, currentId, s,
                        iter, neighboursIn, neighboursOut, pass)
  BY <1>3 DEF Numbering
<1>5. /\ Placing(grid, input, numbers, pass2Changes, currentId, s)
      /\ PassOne(grid, input, numbers, pass2Changes, currentId, s, iter, neighboursIn, neighboursOut)
  BY <1>1, <1>4 DEF Numbered
<1>6. /\ iter.linear # iter.end /\ numbers \in Numbers(grid)
      /\ numbers' = Put(numbers, CellOf(grid, h), n)
      /\ neighboursIn' = Put(neighboursIn, iter.x, At(grid, input, h))
      /\ neighboursOut' = Put(neighboursOut, iter.x, n)
      /\ iter' = Move(grid, iter, 1)
  BY <1>1, <1>3, <1>5, NumberOne
<1>7. /\ h \in Pix(grid) /\ ~LikeOver(grid, input, h) /\ LikeSide(grid, input, h)
      /\ n = At(grid, numbers, Aleft(h)) /\ At(grid, numbers, Aleft(h)) # Nothing
  BY <1>1, <1>5, <1>6, LooksAt
<1>8. Aleft(h) \in Ring(grid, input, h)
  BY <1>1, <1>7, BeforeIt
<1> HIDE DEF n
<1>9. Placing(grid, input, numbers', pass2Changes, currentId, s) /\ n # Nothing
  BY <1>1, <1>5, <1>6, <1>7, <1>8, PlacingOld
<1>10. \A a \in 0 .. currentId - 1 :
         s[a] \in Pix(grid) /\ (s[a] = Here(iter) \/ At(grid, numbers, s[a]) # Nothing)
  BY <1>5 DEF PassOne, Placing
<1>11. PassOne(grid, input, numbers', pass2Changes, currentId, s, iter', neighboursIn', neighboursOut')
  BY <1>1, <1>3, <1>5, <1>6, <1>7, <1>9, <1>10, StepOne
<1> QED BY <1>9, <1>11 DEF Numbered

LEMMA NewNumbers ==
  ASSUME Numbering, operation = "areas", operation' = operation, AN!NewNumber
  PROVE  Numbering'
<1> DEFINE h == Here(iter)
<1>1. /\ grid \in AreaGrids /\ grid \in Extents /\ pass = "one" /\ ~AN!AtEnd /\ ~AN!LikeAbove /\ ~AN!LikeLeft
      /\ AN!Number(currentId) /\ currentId' = currentId + 1 /\ pass2Changes' = pass2Changes
  BY AreaGridsAssumption DEF Numbering, AN!NewNumber
<1>2. grid' = grid /\ pass' = pass /\ input' = input
  BY <1>1 DEF AN!Number
<1>3. SUFFICES ASSUME OneBlock(grid)
               PROVE  \E s : Numbered(grid, input, numbers', pass2Changes, currentId + 1, s,
                                      iter', neighboursIn', neighboursOut', "one")
  BY <1>1, <1>2 DEF Numbering
<1>4. PICK s : Numbered(grid, input, numbers, pass2Changes, currentId, s,
                        iter, neighboursIn, neighboursOut, pass)
  BY <1>3 DEF Numbering
<1>5. /\ Placing(grid, input, numbers, pass2Changes, currentId, s)
      /\ PassOne(grid, input, numbers, pass2Changes, currentId, s, iter, neighboursIn, neighboursOut)
  BY <1>1, <1>4 DEF Numbered
<1>6. /\ iter.linear # iter.end /\ numbers \in Numbers(grid) /\ At(grid, numbers, h) = Nothing
      /\ numbers' = Put(numbers, CellOf(grid, h), currentId)
      /\ neighboursIn' = Put(neighboursIn, iter.x, At(grid, input, h))
      /\ neighboursOut' = Put(neighboursOut, iter.x, currentId)
      /\ iter' = Move(grid, iter, 1)
  BY <1>1, <1>3, <1>5, NumberOne
<1>7. h \in Pix(grid) /\ ~LikeOver(grid, input, h) /\ ~LikeSide(grid, input, h)
  BY <1>1, <1>5, <1>6, LooksAt
<1> DEFINE s1 == [a \in 0 .. (currentId + 1) - 1 |-> IF a = currentId THEN h ELSE s[a]]
<1>8. \A a \in 0 .. currentId - 1 : At(grid, numbers, s[a]) # Nothing
  BY <1>5 DEF PassOne
<1>9. Placing(grid, input, numbers', pass2Changes, currentId + 1, s1) /\ currentId # Nothing
  BY <1>1, <1>5, <1>6, <1>7, <1>8, PlacingNew
<1>10. \A a \in 0 .. (currentId + 1) - 1 :
         s1[a] \in Pix(grid) /\ (s1[a] = Here(iter) \/ At(grid, numbers, s1[a]) # Nothing)
  <2>1. currentId \in Nat /\ s \in [0 .. currentId - 1 -> Pix(grid)]
    BY <1>5 DEF Placing
  <2>2. \A a \in 0 .. (currentId + 1) - 1 : a = currentId \/ (a # currentId /\ a \in 0 .. currentId - 1)
    BY <2>1
  <2>3. \A a \in 0 .. (currentId + 1) - 1 : s1[a] = IF a = currentId THEN h ELSE s[a]
    OBVIOUS
  <2> QED BY <1>7, <1>8, <2>1, <2>2, <2>3
<1> DEFINE c1 == currentId + 1
<1>11. PassOne(grid, input, numbers', pass2Changes, c1, s1, iter', neighboursIn', neighboursOut')
  <2>1. \A a \in 0 .. c1 - 1 :
          s1[a] \in Pix(grid) /\ (s1[a] = Here(iter) \/ At(grid, numbers, s1[a]) # Nothing)
    BY <1>10
  <2>2. /\ DOMAIN pass2Changes \subseteq DOMAIN pass2Changes
        /\ LikeOver(grid, input, Here(iter)) => currentId = At(grid, numbers, Above(Here(iter)))
        /\ LikeSide(grid, input, Here(iter)) =>
             \/ At(grid, numbers, Aleft(Here(iter))) = currentId
             \/ At(grid, numbers, Aleft(Here(iter))) \in DOMAIN pass2Changes
    BY <1>7
  <2> HIDE DEF s1, c1
  <2> QED BY <1>1, <1>3, <1>5, <1>6, <1>9, <2>1, <2>2, StepOne
<1> HIDE DEF s1
<1> QED BY <1>9, <1>11 DEF Numbered

LEMMA ReplaceNumbers ==
  ASSUME Numbering, operation = "areas", operation' = operation, AN!Replace
  PROVE  Numbering'
<1> DEFINE D == DOMAIN pass2Changes
           old == CHOOSE n \in D : \A k \in D : n <= k
<1>1. /\ grid \in AreaGrids /\ grid \in Extents /\ pass = "two" /\ D # {}
      /\ grid' = grid /\ input' = input /\ pass' = pass /\ currentId' = currentId /\ iter' = iter
      /\ neighboursIn' = neighboursIn /\ neighboursOut' = neighboursOut
      /\ numbers' = [c \in DOMAIN numbers |-> IF numbers[c] = old THEN pass2Changes[old] ELSE numbers[c]]
      /\ pass2Changes' = [n \in D \ {old} |-> pass2Changes[n]]
  BY AreaGridsAssumption DEF Numbering, AN!Replace
<1>2. SUFFICES ASSUME OneBlock(grid)
               PROVE  \E s : Numbered(grid, input, numbers', pass2Changes', currentId, s,
                                      iter, neighboursIn, neighboursOut, "two")
  BY <1>1 DEF Numbering
<1>3. PICK s : Numbered(grid, input, numbers, pass2Changes, currentId, s,
                        iter, neighboursIn, neighboursOut, pass)
  BY <1>2 DEF Numbering
<1>4. /\ Placing(grid, input, numbers, pass2Changes, currentId, s)
      /\ PassTwo(grid, input, numbers, pass2Changes, currentId, s)
  BY <1>1, <1>3 DEF Numbered
<1>5. old \in D
  <2>1. D \in SUBSET Nat
    BY <1>4 DEF Placing
  <2>2. \E n \in D : \A k \in D : n <= k
    BY <1>1, <2>1, LeastNumber
  <2> QED BY <2>2
<1> HIDE DEF old
<1>6. Placing(grid, input, numbers', pass2Changes', currentId, s)
      /\ PassTwo(grid, input, numbers', pass2Changes', currentId, s)
  BY <1>1, <1>4, <1>5, Replaces
<1> QED BY <1>6 DEF Numbered

LEMMA EndsOfPasses ==
  ASSUME Numbering, operation = "areas", operation' = operation, AN!EndOfPassOne \/ AN!EndOfPassTwo
  PROVE  Numbering'
<1>1. /\ grid \in AreaGrids /\ grid \in Extents
      /\ grid' = grid /\ input' = input /\ numbers' = numbers /\ iter' = iter
      /\ neighboursIn' = neighboursIn /\ neighboursOut' = neighboursOut
      /\ currentId' = currentId /\ pass2Changes' = pass2Changes
      /\ \/ pass = "one" /\ AN!AtEnd /\ pass' = "two"
         \/ pass = "two" /\ DOMAIN pass2Changes = {} /\ pass' = "done"
  BY AreaGridsAssumption DEF Numbering, AN!EndOfPassOne, AN!EndOfPassTwo
<1>2. SUFFICES ASSUME OneBlock(grid)
               PROVE  \E s : Numbered(grid, input, numbers, pass2Changes, currentId, s,
                                      iter, neighboursIn, neighboursOut, pass')
  BY <1>1 DEF Numbering
<1>3. PICK s : Numbered(grid, input, numbers, pass2Changes, currentId, s,
                        iter, neighboursIn, neighboursOut, pass)
  BY <1>2 DEF Numbering
<1>4. Placing(grid, input, numbers, pass2Changes, currentId, s)
  BY <1>3 DEF Numbered
<1>5. CASE pass = "one" /\ AN!AtEnd /\ pass' = "two"
  <2>1. PassOne(grid, input, numbers, pass2Changes, currentId, s, iter, neighboursIn, neighboursOut)
    BY <1>3, <1>5 DEF Numbered
  <2>2. iter.linear = iter.end
    BY <1>1, <1>5, <2>1, EndAN DEF PassOne
  <2>3. PassTwo(grid, input, numbers, pass2Changes, currentId, s)
    BY <1>1, <1>4, <2>1, <2>2, EndsOne
  <2> QED BY <1>4, <1>5, <2>3 DEF Numbered
<1>6. CASE pass = "two" /\ DOMAIN pass2Changes = {} /\ pass' = "done"
  BY <1>3, <1>6 DEF Numbered
<1> QED BY <1>1, <1>5, <1>6

(* What areanumbering says of its output: at any time the pixels with one number are *)
(* of one area, in the bands of a stack too, and below the next number; at the end   *)
(* an area that got at most two numbers has one.  This holds of every raster whose   *)
(* bands have one block, of any size and with any values (areanumbering.cpp:         *)
(* execute, do4connected, pass2Entries).                                            *)
THEOREM AreasHaveNumbers == RastersSpec => []AreasAreNumbered
<1>1. RastersInit => Numbering
  <2>1. RastersInit /\ operation = "areas" => AN!Init
    BY DEF RastersInit
  <2> QED BY <2>1, NumberingInit DEF Numbering
<1>2. Numbering /\ [RastersNext]_rasterVars => Numbering'
  <2> SUFFICES ASSUME Numbering, [RastersNext]_rasterVars PROVE Numbering'
    OBVIOUS
  <2>1. operation' = operation
    BY DEF RastersNext, rasterVars
  <2>2. CASE operation # "areas"
    BY <2>1, <2>2 DEF Numbering
  <2>3. CASE operation = "areas" /\ AN!Next
    <3>1. CASE AN!NumberOfAbove
      BY <2>1, <2>3, <3>1, AboveNumbers
    <3>2. CASE AN!NumberOfLeft
      BY <2>1, <2>3, <3>2, LeftNumbers
    <3>3. CASE AN!NewNumber
      BY <2>1, <2>3, <3>3, NewNumbers
    <3>4. CASE AN!Replace
      BY <2>1, <2>3, <3>4, ReplaceNumbers
    <3>5. CASE AN!EndOfPassOne \/ AN!EndOfPassTwo
      BY <2>1, <2>3, <3>5, EndsOfPasses
    <3>6. CASE AN!Ended
      BY <2>1, <3>6 DEF Numbering, AN!Ended, AN!vars
    <3> QED BY <2>3, <3>1, <3>2, <3>3, <3>4, <3>5, <3>6 DEF AN!Next
  <2>4. CASE UNCHANGED rasterVars
    BY <2>4 DEF rasterVars, areaVars, Numbering
  <2> QED BY <2>2, <2>3, <2>4 DEF RastersNext
<1>3. Numbering => AreasAreNumbered
  <2> DEFINE Fine(p) == /\ AN!NumberOf(p) < currentId
                        /\ \A q \in AN!Pixels \ AN!Area(p) : AN!NumberOf(q) # AN!NumberOf(p)
                        /\ (pass = "done" /\ Cardinality(AN!Starts(AN!Area(p))) <= 2) =>
                             \A q \in AN!Area(p) : AN!NumberOf(q) = AN!NumberOf(p)
  <2>a. (AN!OneBlockBands => \A p \in {q \in AN!Pixels : AN!NumberOf(q) # Nothing} : Fine(p))
          => AN!AreasAreNumbered
    BY CountAN DEF AN!AreasAreNumbered
  <2> SUFFICES ASSUME Numbering, operation = "areas", AN!OneBlockBands,
                      NEW p \in AN!Pixels, AN!NumberOf(p) # Nothing
               PROVE  Fine(p)
    <3> HIDE DEF Fine
    <3> QED BY <2>a DEF AreasAreNumbered
  <2>1. grid \in Extents /\ OneBlock(grid) /\ p \in Pix(grid)
    BY AreaGridsAssumption, PixelsAN DEF Numbering, AN!OneBlockBands, OneBlock
  <2>2. PICK s : Numbered(grid, input, numbers, pass2Changes, currentId, s,
                          iter, neighboursIn, neighboursOut, pass)
    BY <2>1 DEF Numbering
  <2>3. Placing(grid, input, numbers, pass2Changes, currentId, s)
    BY <2>2 DEF Numbered
  <2>4. \A q : AN!NumberOf(q) = At(grid, numbers, q)
    BY CellAN DEF AN!NumberOf, At
  <2>5. AN!Area(p) = Region(grid, input, p)
    BY <2>1, AreaIs
  <2> DEFINE n == At(grid, numbers, p)
  <2>6. n \in 0 .. currentId - 1 /\ p \in Region(grid, input, s[n]) /\ s[n] \in Pix(grid) /\ currentId \in Nat
    BY <2>1, <2>3, <2>4 DEF Placing
  <2>7. n < currentId
    BY <2>6
  <2>8. ASSUME NEW q \in Pix(grid), At(grid, numbers, q) = n PROVE q \in Region(grid, input, p)
    <3>1. q \in Region(grid, input, s[n])
      BY <2>3, <2>4, <2>8 DEF Placing
    <3> QED BY <2>1, <2>6, <3>1, RegionsApart
  <2>9. ASSUME pass = "done", Cardinality(AN!Starts(AN!Area(p))) <= 2
        PROVE  \A q \in Region(grid, input, p) : At(grid, numbers, q) = n
    <3>1. AN!Starts(AN!Area(p))
            = {q \in Region(grid, input, p) :
                 Aleft(q) \notin Region(grid, input, p) /\ Above(q) \notin Region(grid, input, p)}
      BY <2>5 DEF AN!Starts, Aleft, Above
    <3>2. Few(Given(grid, input, currentId, s, p))
      BY <2>1, <2>3, <2>9, <3>1, FewIs
    <3>3. PassTwo(grid, input, numbers, pass2Changes, currentId, s) /\ DOMAIN pass2Changes = {}
      BY <2>2, <2>9 DEF Numbered
    <3>4. Uniform(grid, input, numbers, p)
      BY <2>1, <3>2, <3>3 DEF PassTwo
    <3> QED BY <3>4 DEF Uniform
  <2> QED BY <2>4, <2>5, <2>7, <2>8, <2>9, PixelsAN
<1> QED BY <1>1, <1>2, <1>3, PTL DEF RastersSpec
=============================================================================
