------------------------------ MODULE GridProofs ------------------------------
(***************************************************************************)
(* Proofs about GridCache, for every number of blocks and users, every set *)
(* of values, every limit of the list and every value of _inMemoryIndex.   *)
(* First the types, under every choice of the failures that may happen.    *)
(* Then the grid as a store: when no I/O fails, swapping, lazy loading,    *)
(* cloning and resizing keep what was written to every block, and the list *)
(* of the grid names blocks that are in memory, each of them once.  Last,  *)
(* what holds whatever fails: no block is left half saved.                 *)
(*                                                                         *)
(* The invariants are about the administration of the grid, a record g as  *)
(* the operators of GridCache take it and give it back: each of them keeps *)
(* Good(g) and the contents of every block.                                *)
(***************************************************************************)
EXTENDS GridCache, SequenceTheorems, WellFoundedInduction, TLAPS

AdminState == [blk : [Blocks -> BlockState], cache : Seq(Blocks),
               imi : Nat, freed : SUBSET Blocks]

-----------------------------------------------------------------------------
(* One block.                                                              *)

LEMMA ContentsHasMarks == Undef \in Contents /\ Torn \in Contents
BY DEF Contents

LEMMA SourceInContents == \A b \in Blocks : Source[b] \in Contents
BY DEF Contents

LEMMA FreshType == Fresh \in BlockState
BY DEF Fresh, BlockState, Contents

LEMMA SaveType ==
  ASSUME NEW r \in BlockState, NEW fault
  PROVE  Save(r, fault) \in BlockState
<1>1. CASE ~r.inMemory
  BY <1>1 DEF Save
<1>2. CASE r.inMemory /\ fault = "saveOpen"
  BY <1>2 DEF Save, BlockState
<1>3. CASE r.inMemory /\ fault # "saveOpen" /\ fault = "saveShort" /\ r.initialized
  BY <1>3, ContentsHasMarks DEF Save, BlockState
<1>4. CASE r.inMemory /\ fault # "saveOpen" /\ ~(fault = "saveShort" /\ r.initialized)
  <2>1. Save(r, fault) = [inMemory |-> FALSE, initialized |-> FALSE, data |-> Undef,
            swap |-> IF r.initialized THEN r.data
                     ELSE IF r.swap = Never THEN Short ELSE r.swap]
    BY <1>4 DEF Save
  <2> QED BY <2>1, ContentsHasMarks DEF BlockState
<1> QED BY <1>1, <1>2, <1>3, <1>4

LEMMA BlankType ==
  ASSUME NEW r \in BlockState
  PROVE  Blank(r) \in BlockState
BY ContentsHasMarks DEF Blank, BlockState

LEMMA ReadSwapType ==
  ASSUME NEW r \in BlockState, NEW fault
  PROVE  ReadSwap(r, fault) \in BlockState
<1>1. CASE r.swap = Never \/ fault = "readOpen"
  BY <1>1 DEF ReadSwap
<1>2. CASE r.swap # Never /\ fault # "readOpen" /\ (r.swap = Short \/ fault = "readShort")
  BY <1>2, ContentsHasMarks DEF ReadSwap, BlockState
<1>3. CASE r.swap # Never /\ fault # "readOpen" /\ ~(r.swap = Short \/ fault = "readShort")
  BY <1>3 DEF ReadSwap, BlockState
<1> QED BY <1>1, <1>2, <1>3

LEMMA FillType ==
  ASSUME NEW r \in BlockState, NEW v \in Contents, NEW fault
  PROVE  Fill(r, v, fault) \in BlockState
<1> DEFINE p == [Blank(r) EXCEPT !.inMemory = TRUE]
<1>1. p \in BlockState
  BY BlankType DEF BlockState
<1>2. ReadSwap(p, fault) \in BlockState
  BY <1>1, ReadSwapType
<1> QED BY <1>2 DEF Fill, BlockState

-----------------------------------------------------------------------------
(* The administration of the grid.                                         *)

LEMMA SaveBlockType ==
  ASSUME NEW g \in AdminState, NEW b \in Blocks, NEW fault
  PROVE  SaveBlock(g, b, fault) \in AdminState
<1>1. Save(g.blk[b], fault) \in BlockState
  BY SaveType DEF AdminState
<1> QED BY <1>1 DEF SaveBlock, AdminState

LEMMA ConsType ==
  ASSUME NEW S, NEW s \in Seq(S), NEW x \in S
  PROVE  /\ <<x>> \o s \in Seq(S)
         /\ Len(<<x>> \o s) = Len(s) + 1
         /\ <<x>> \o s # <<>>
         /\ (<<x>> \o s)[1] = x
         /\ \A i \in 1 .. Len(s) : (<<x>> \o s)[i + 1] = s[i]
<1>1. <<x>> \in Seq(S) /\ Len(<<x>>) = 1 /\ <<x>>[1] = x /\ Len(s) \in Nat
  OBVIOUS
<1> DEFINE t == <<x>> \o s
<1>2. /\ t \in Seq(S)
      /\ Len(t) = Len(<<x>>) + Len(s)
      /\ \A i \in 1 .. Len(<<x>>) + Len(s) :
            t[i] = IF i <= Len(<<x>>) THEN <<x>>[i] ELSE s[i - Len(<<x>>)]
  BY <1>1, ConcatProperties
<1> HIDE DEF t
<1>3. Len(t) = Len(s) + 1 /\ t # <<>>
  BY <1>1, <1>2
<1>4. t[1] = x
  BY <1>1, <1>2
<1>5. ASSUME NEW i \in 1 .. Len(s) PROVE t[i + 1] = s[i]
  BY <1>1, <1>2
<1> QED BY <1>2, <1>3, <1>4, <1>5 DEF t

LEMMA PushType ==
  ASSUME NEW g \in AdminState, NEW b \in Blocks
  PROVE  Push(g, b) \in AdminState /\ Push(g, b).cache # <<>>
<1>1. <<b>> \o g.cache \in Seq(Blocks) /\ <<b>> \o g.cache # <<>>
  BY ConsType DEF AdminState
<1> QED BY <1>1 DEF Push, AdminState

LEMMA LastType ==
  ASSUME NEW S, NEW s \in Seq(S), s # <<>>
  PROVE  Last(s) \in S /\ Len(s) \in 1 .. Len(s)
BY DEF Last

LEMMA FrontType ==
  ASSUME NEW S, NEW s \in Seq(S), s # <<>>
  PROVE  /\ Front(s) \in Seq(S)
         /\ Len(Front(s)) = Len(s) - 1
         /\ \A i \in 1 .. Len(s) - 1 : Front(s)[i] = s[i]
<1>1. Len(s) \in Nat \ {0} /\ \A i \in 1 .. Len(s) : s[i] \in S
  OBVIOUS
<1>2. \A i \in 1 .. Len(s) - 1 : s[i] \in S
  BY <1>1
<1> DEFINE m == Len(s) - 1
<1>3. m \in Nat /\ 1 \in Int /\ m \in Int
  BY <1>1
<1> HIDE DEF m
<1>4. \A i \in 1 .. m : s[i] \in S
  BY <1>2 DEF m
<1>5. /\ SubSeq(s, 1, m) \in Seq(S)
      /\ Len(SubSeq(s, 1, m)) = IF 1 <= m THEN m - 1 + 1 ELSE 0
      /\ \A i \in 1 .. m - 1 + 1 : SubSeq(s, 1, m)[i] = s[1 + i - 1]
  BY <1>3, <1>4, SubSeqProperties
<1>6. Front(s) = SubSeq(s, 1, m)
  BY DEF Front, m
<1>7. Len(SubSeq(s, 1, m)) = m
  BY <1>3, <1>5
<1>8. \A i \in 1 .. m : SubSeq(s, 1, m)[i] = s[i]
  BY <1>3, <1>5
<1> QED BY <1>5, <1>6, <1>7, <1>8 DEF m

LEMMA DropLastType ==
  ASSUME NEW g \in AdminState, g.cache # <<>>
  PROVE  DropLast(g) \in AdminState
BY FrontType DEF DropLast, AdminState

Below == {p \in Nat \X Nat : p[1] < p[2]}

LEMMA LeastNumber ==
  ASSUME NEW T \in SUBSET Nat, T # {}
  PROVE  Min(T) \in T /\ \A y \in T : Min(T) <= y
<1>1. IsWellFoundedOn(Below, Nat)
  BY NatLessThanWellFounded DEF OpToRel, Below
<1>2. PICK x \in T : \A y \in T : ~ (<<y, x>> \in Below)
  BY <1>1, WFMin
<1>3. \A y \in T : x \in Nat /\ y \in Nat /\ ~ (y < x)
  BY <1>2, Zenon DEF Below
<1>4. \A y \in T : x <= y
  BY <1>3
<1> QED BY <1>4 DEF Min

LEMMA PositionOfType ==
  ASSUME NEW S, NEW s \in Seq(S), NEW x
  PROVE  /\ PositionOf(s, x) \in 0 .. Len(s)
         /\ (\A i \in 1 .. Len(s) : s[i] # x)
               => PositionOf(s, x) = 0
<1> DEFINE I == {i \in 1 .. Len(s) : s[i] = x}
<1>1. PositionOf(s, x) = IF I # {} THEN Min(I) ELSE 0
  BY DEF PositionOf, SelectInSeq
<1>2. I \in SUBSET Nat /\ I \subseteq 1 .. Len(s) /\ Len(s) \in Nat
  OBVIOUS
<1>3. I # {} => Min(I) \in I
  BY <1>2, LeastNumber
<1>4. (\A i \in 1 .. Len(s) : s[i] # x) => I = {}
  OBVIOUS
<1> HIDE DEF I
<1>5. CASE I = {}
  BY <1>1, <1>2, <1>5
<1>6. CASE I # {}
  <2>1. PositionOf(s, x) = Min(I)
    BY <1>1, <1>6
  <2>2. Min(I) \in 1 .. Len(s)
    BY <1>2, <1>3, <1>6, Zenon
  <2>3. ~ \A i \in 1 .. Len(s) : s[i] # x
    BY <1>4, <1>6, Zenon
  <2>4. PositionOf(s, x) \in 0 .. Len(s)
    BY <1>2, <2>1, <2>2
  <2> QED BY <2>3, <2>4, Zenon
<1> QED BY <1>5, <1>6

LEMMA RemoveFirstType ==
  ASSUME NEW S, NEW s \in Seq(S), NEW x
  PROVE  RemoveFirst(s, x) \in Seq(S)
<1> DEFINE i == PositionOf(s, x)
<1>1. CASE ~\E j \in 1 .. Len(s) : s[j] = x
  BY <1>1 DEF RemoveFirst
<1>2. CASE \E j \in 1 .. Len(s) : s[j] = x
  <2>1. RemoveFirst(s, x) = SubSeq(s, 1, i - 1) \o SubSeq(s, i + 1, Len(s))
    BY <1>2 DEF RemoveFirst, RemoveAt, PositionOf
  <2>2. i \in 0 .. Len(s) /\ Len(s) \in Nat
    BY PositionOfType
  <2>3. \A k \in 1 .. Len(s) : s[k] \in S
    OBVIOUS
  <2> HIDE DEF i
  <2>4. SubSeq(s, 1, i - 1) \in Seq(S)
    <3>1. \A k \in 1 .. i - 1 : s[k] \in S
      BY <2>2, <2>3
    <3>2. i - 1 \in Int
      BY <2>2
    <3> QED BY <3>1, <3>2, SubSeqProperties
  <2>5. SubSeq(s, i + 1, Len(s)) \in Seq(S)
    <3>1. \A k \in i + 1 .. Len(s) : s[k] \in S
      BY <2>2, <2>3
    <3>2. i + 1 \in Int /\ Len(s) \in Int
      BY <2>2
    <3> QED BY <3>1, <3>2, SubSeqProperties
  <2> QED BY <2>1, <2>4, <2>5, ConcatProperties
<1> QED BY <1>1, <1>2

LEMMA ListNewType ==
  ASSUME NEW g \in AdminState, NEW b \in Blocks, NEW fault
  PROVE  ListNew(g, b, fault) \in AdminState /\ ListNew(g, b, fault).cache # <<>>
<1>1. CASE g.cache # <<>> /\ b > g.imi
  <2>1. Last(g.cache) \in Blocks
    BY <1>1, LastType DEF AdminState
  <2>2. SaveBlock(g, Last(g.cache), fault) \in AdminState
    BY <2>1, SaveBlockType
  <2>3. SaveBlock(g, Last(g.cache), fault).cache = g.cache
    BY DEF SaveBlock, AdminState
  <2>4. DropLast(SaveBlock(g, Last(g.cache), fault)) \in AdminState
    BY <1>1, <2>2, <2>3, DropLastType
  <2> QED BY <1>1, <2>4, PushType DEF ListNew
<1>2. CASE ~(g.cache # <<>> /\ b > g.imi)
  BY <1>2, PushType DEF ListNew
<1> QED BY <1>1, <1>2

LEMMA ListAgainType ==
  ASSUME NEW g \in AdminState, NEW b \in Blocks, NEW fault
  PROVE  ListAgain(g, b, fault) \in AdminState
<1> DEFINE index == IndexOf(g.cache, b)
           kept == [g EXCEPT !.cache = IF index >= 0
                                       THEN RemoveFirst(@, index) ELSE @]
           pushed == Push(kept, b)
           last == Last(pushed.cache)
           saved == SaveBlock(pushed, last, fault)
<1>1. kept \in AdminState
  BY RemoveFirstType DEF AdminState
<1>2. pushed \in AdminState /\ pushed.cache # <<>>
  BY <1>1, PushType
<1>3. last \in Blocks
  BY <1>2, LastType DEF AdminState
<1>4. saved \in AdminState
  BY <1>2, <1>3, SaveBlockType
<1>5. saved.cache = pushed.cache
  BY <1>2 DEF SaveBlock, AdminState
<1>6. DropLast(saved) \in AdminState
  BY <1>2, <1>4, <1>5, DropLastType
<1>7. ListAgain(g, b, fault) \in {DropLast(saved), saved, pushed}
  BY DEF ListAgain
<1> QED BY <1>2, <1>4, <1>6, <1>7

LEMMA ListType ==
  ASSUME NEW g \in AdminState, NEW b \in Blocks, NEW creation, NEW fault
  PROVE  List(g, b, creation, fault) \in AdminState
BY ListNewType, ListAgainType DEF List

LEMMA PutType ==
  ASSUME NEW g \in AdminState, NEW b \in Blocks, NEW r \in BlockState
  PROVE  [g EXCEPT !.blk[b] = r] \in AdminState
BY DEF AdminState

LEMMA NeedDataType ==
  ASSUME NEW g \in AdminState, NEW b \in Blocks, NEW fault
  PROVE  NeedData(g, b, fault) \in AdminState
<1> DEFINE listed == IF allInMemory THEN g ELSE ListNew(g, b, fault)
<1>1. listed \in AdminState
  BY ListNewType
<1>2. Fill(listed.blk[b], Source[b], fault) \in BlockState
  BY <1>1, FillType, SourceInContents DEF AdminState
<1>3. [listed EXCEPT !.blk[b] = Fill(@, Source[b], fault)] \in AdminState
  BY <1>1, <1>2, PutType
<1> QED BY <1>3 DEF NeedData

LEMMA PreparedType ==
  ASSUME NEW g \in AdminState, NEW b \in Blocks, NEW fault
  PROVE  Prepared(g, b, fault) \in AdminState
<1> DEFINE r == [g.blk[b] EXCEPT !.inMemory = TRUE]
<1>1. r \in BlockState
  BY DEF AdminState, BlockState
<1>2. [g EXCEPT !.blk[b] = r] \in AdminState
  BY <1>1, PutType
<1>3. [g EXCEPT !.blk[b] = Blank(r)] \in AdminState
  BY <1>1, BlankType, PutType
<1>4. NeedData([g EXCEPT !.blk[b] = Blank(r)], b, fault) \in AdminState
  BY <1>3, NeedDataType
<1>5. Prepared(g, b, fault) \in {[g EXCEPT !.blk[b] = r],
                                 NeedData([g EXCEPT !.blk[b] = Blank(r)], b, fault)}
  BY DEF Prepared
<1> QED BY <1>2, <1>4, <1>5

LEMMA LoadType ==
  ASSUME NEW g \in AdminState, NEW b \in Blocks, NEW fault
  PROVE  Load(g, b, fault) \in AdminState
<1>1. Prepared(g, b, fault) \in AdminState
  BY PreparedType
<1>2. ReadSwap(Prepared(g, b, fault).blk[b], fault) \in BlockState
  BY <1>1, ReadSwapType DEF AdminState
<1> QED BY <1>1, <1>2, PutType DEF Load

LEMMA AtType ==
  ASSUME NEW g \in AdminState, NEW b \in Blocks, NEW fault
  PROVE  At(g, b, fault) \in AdminState
<1> DEFINE r == g.blk[b]
           back == ReadSwap([Blank(r) EXCEPT !.inMemory = TRUE], fault)
<1>1. r \in BlockState
  BY DEF AdminState
<1>2. Blank(r) \in BlockState
  BY <1>1, BlankType
<1>3. [Blank(r) EXCEPT !.inMemory = TRUE] \in BlockState
  BY <1>2 DEF BlockState
<1>4. [g EXCEPT !.blk[b] = back] \in AdminState
  BY <1>3, ReadSwapType, PutType
<1>5. NeedData([g EXCEPT !.blk[b] = Blank(r)], b, fault) \in AdminState
  BY <1>2, PutType, NeedDataType
<1>6. At(g, b, fault) \in {g, [g EXCEPT !.blk[b] = back],
                           NeedData([g EXCEPT !.blk[b] = Blank(r)], b, fault)}
  BY DEF At
<1> QED BY <1>4, <1>5, <1>6

LEMMA UnloadAllType ==
  ASSUME NEW g \in AdminState, NEW fault
  PROVE  UnloadAll(g, fault) \in AdminState
<1>1. [b \in Blocks |-> Save(g.blk[b], fault)] \in [Blocks -> BlockState]
  BY SaveType DEF AdminState
<1>2. <<>> \in Seq(Blocks) /\ 0 \in Nat
  OBVIOUS
<1> QED BY <1>1, <1>2 DEF UnloadAll, AdminState

LEMMA AdminType ==
  ASSUME TypeOK
  PROVE  Admin \in AdminState
BY DEF Admin, AdminState, TypeOK

LEMMA RoomType ==
  ASSUME TypeOK, NEW b \in Blocks, NEW fault
  PROVE  Room(b, fault) \in AdminState
<1>1. Admin \in AdminState
  BY AdminType
<1>2. [Admin EXCEPT !.blk[b].inMemory = TRUE] \in AdminState
  <2>1. [Admin.blk[b] EXCEPT !.inMemory = TRUE] \in BlockState
    BY <1>1 DEF AdminState, BlockState
  <2> QED BY <1>1, <2>1 DEF AdminState
<1> QED BY <1>1, <1>2, UnloadAllType DEF Room

LEMMA UpdatedType ==
  ASSUME TypeOK, NEW b \in Blocks, NEW creation, NEW fault
  PROVE  Updated(b, creation, fault) \in AdminState
<1> DEFINE room == Room(b, fault)
           loaded == IF blk[b].inMemory THEN room ELSE Load(room, b, fault)
<1>1. room \in AdminState
  BY RoomType
<1>2. [room EXCEPT !.blk[b].inMemory = TRUE] \in AdminState
  <2>1. [room.blk[b] EXCEPT !.inMemory = TRUE] \in BlockState
    BY <1>1 DEF AdminState, BlockState
  <2> QED BY <1>1, <2>1 DEF AdminState
<1>3. Load(room, b, fault) \in AdminState
  BY <1>1, LoadType
<1>4. List(loaded, b, creation, fault) \in AdminState
  BY <1>1, <1>3, ListType
<1>5. Updated(b, creation, fault) \in {[room EXCEPT !.blk[b].inMemory = TRUE],
             Load(room, b, fault), List(loaded, b, creation, fault)}
  BY DEF Updated
<1> QED BY <1>2, <1>3, <1>4, <1>5

LEMMA AccessType ==
  ASSUME TypeOK, NEW b \in Blocks, NEW fault
  PROVE  Access(b, fault) \in AdminState
<1>1. At(Admin, b, fault) \in AdminState
  BY AdminType, AtType
<1>2. Updated(b, FALSE, fault) \in AdminState
  BY UpdatedType
<1>3. At(Updated(b, FALSE, fault), b, fault) \in AdminState
  BY <1>2, AtType
<1> QED BY <1>1, <1>2, <1>3 DEF Access

-----------------------------------------------------------------------------
(* The actions.                                                            *)

RefState == Blocks \cup {NoBlock, Wild}

LEMMA AfterType ==
  ASSUME TypeOK, NEW freed
  PROVE  After(freed) \in [Users -> RefState]
BY DEF After, TypeOK, RefState

(* What an action that ends in Become(g) leaves of TypeOK.                 *)
LEMMA BecomeType ==
  ASSUME NEW g \in AdminState, Become(g)
  PROVE  /\ blk' \in [Blocks -> BlockState]
         /\ cache' \in Seq(Blocks)
         /\ inMemoryIndex' \in Nat
BY DEF Become, AdminState

LEMMA ValuesInContents == Values \subseteq Contents
BY DEF Contents

LEMMA AccessTypeStep ==
  ASSUME TypeOK, NEW u \in Users, AccessNext(u)
  PROVE  TypeOK'
<1>1. ASSUME NEW b \in Blocks, NEW fault \in FaultChoice, Value(u, b, fault)
      PROVE  TypeOK'
  <2> DEFINE ok == AccessOk(b, fault)
             g == IF Direct(b) /\ ~ok THEN Admin ELSE Access(b, fault)
  <2>1. g \in AdminState
    BY AccessType, AdminType
  <2>2. Become(g) /\ ref' = [After(g.freed) EXCEPT ![u] =
                               IF ok THEN b ELSE NoBlock]
    BY <1>1 DEF Value
  <2> HIDE DEF g, ok
  <2>3. ref' \in [Users -> RefState]
    BY <2>2, AfterType DEF RefState
  <2> QED BY <1>1, <2>1, <2>2, <2>3, BecomeType DEF Value, TypeOK, RefState
<1>2. CASE ReadRef(u)
  <2>1. blk[ref[u]].data \in Contents \/ ref[u] = Wild
    BY <1>2 DEF ReadRef, TypeOK, RefState, BlockState
  <2> QED BY <1>2, <2>1 DEF ReadRef, TypeOK, RefState
<1>3. ASSUME NEW v \in Values, WriteRef(u, v)
      PROVE  TypeOK'
  <2>1. blk' \in [Blocks -> BlockState]
    <3>1. CASE ref[u] = Wild
      BY <1>3, <3>1 DEF WriteRef, TypeOK
    <3>2. CASE ref[u] # Wild
      <4>1. ref[u] \in Blocks
        BY <1>3, <3>2 DEF WriteRef, TypeOK, RefState
      <4>2. [blk[ref[u]] EXCEPT !.data = v] \in BlockState
        BY <4>1, ValuesInContents DEF TypeOK, BlockState
      <4> QED BY <1>3, <3>2, <4>1, <4>2 DEF WriteRef, TypeOK
    <3> QED BY <3>1, <3>2
  <2> QED BY <1>3, <2>1 DEF WriteRef, TypeOK, RefState
<1>4. ASSUME NEW b \in Blocks, NEW v \in Values, NEW fault \in FaultChoice,
             SetValue(u, b, v, fault)
      PROVE  TypeOK'
  <2> DEFINE ok == AccessOk(b, fault)
             g == IF Direct(b) /\ ~ok THEN Admin ELSE Access(b, fault)
             done == IF ok THEN [g EXCEPT !.blk[b].data = v] ELSE g
  <2>1. g \in AdminState
    BY AccessType, AdminType
  <2>2. Become(done) /\ ref' = [After(g.freed) EXCEPT ![u] = NoBlock]
    BY <1>4 DEF SetValue
  <2> HIDE DEF g, ok
  <2>3. [g.blk[b] EXCEPT !.data = v] \in BlockState
    BY <2>1, ValuesInContents DEF AdminState, BlockState
  <2>4. done \in AdminState
    BY <2>1, <2>3 DEF AdminState
  <2>5. ref' \in [Users -> RefState]
    BY <2>2, AfterType DEF RefState
  <2> HIDE DEF done
  <2> QED BY <1>4, <2>2, <2>4, <2>5, BecomeType DEF SetValue, TypeOK, RefState
<1> QED BY <1>1, <1>2, <1>3, <1>4 DEF AccessNext

LEMMA ConnectorTypeStep ==
  ASSUME TypeOK, ConnectorFill \/ ConnectorMemory
  PROVE  TypeOK'
<1>1. ASSUME NEW u \in Users, NEW b \in Blocks, NEW v \in Values, NEW creation \in Creations,
             NEW fault \in FaultChoice, SetBlockData(u, b, v, creation, fault)
      PROVE  TypeOK'
  <2> DEFINE g == IF allInMemory THEN Admin ELSE Updated(b, creation, fault)
             front == IF allInMemory THEN b ELSE Head(g.cache)
             ok == allInMemory \/ (UpdateOk(b, fault) /\ ~UpdateThrows(b, fault))
             done == IF ok THEN [g EXCEPT !.blk[front] = Fill(@, v, fault)] ELSE g
  <2>1. g \in AdminState
    BY UpdatedType, AdminType
  <2>2. Become(done) /\ ref' = [After(g.freed) EXCEPT ![u] = NoBlock]
    BY <1>1 DEF SetBlockData
  <2> HIDE DEF g, ok, front
  <2>3. done \in AdminState
    <3>1. CASE front \in Blocks
      <4>1. Fill(g.blk[front], v, fault) \in BlockState
        BY <2>1, <3>1, FillType, ValuesInContents DEF AdminState
      <4> QED BY <2>1, <3>1, <4>1, PutType
    <3>2. CASE front \notin Blocks
      BY <2>1, <3>2 DEF AdminState
    <3> QED BY <3>1, <3>2
  <2>4. ref' \in [Users -> RefState]
    BY <2>2, AfterType DEF RefState
  <2> HIDE DEF done
  <2> QED BY <1>1, <2>2, <2>3, <2>4, BecomeType DEF SetBlockData, TypeOK, RefState
<1>2. ASSUME NEW u \in Users, NEW b \in Blocks, NEW creation \in Creations,
             NEW fault \in FaultChoice, BlockAsMemory(u, b, creation, fault)
      PROVE  TypeOK'
  <2> DEFINE g == IF allInMemory THEN Admin ELSE Updated(b, creation, fault)
             ok == allInMemory \/ (UpdateOk(b, fault) /\ ~UpdateThrows(b, fault))
             found == CASE allInMemory -> b
                        [] ~allInMemory /\ b < Len(g.cache) -> g.cache[b + 1]
                        [] OTHER -> Wild
             done == IF ok /\ found # Wild THEN At(g, found, fault) ELSE g
  <2>1. g \in AdminState
    BY UpdatedType, AdminType
  <2>2. found \in Blocks \cup {Wild}
    <3>1. b < Len(g.cache) => g.cache[b + 1] \in Blocks
      <4>1. g.cache \in Seq(Blocks) /\ b \in Nat
        BY <2>1 DEF AdminState, Blocks
      <4> HIDE DEF g
      <4> QED BY <4>1
    <3> QED BY <3>1
  <2>3. /\ Become(done)
        /\ ref' = [After(g.freed) EXCEPT ![u] =
                     IF ok THEN found ELSE NoBlock]
    BY <1>2 DEF BlockAsMemory
  <2> HIDE DEF g, ok, found
  <2>4. done \in AdminState
    BY <2>1, <2>2, AtType
  <2>6. ref' \in [Users -> RefState]
    BY <2>2, <2>3, AfterType DEF RefState
  <2> HIDE DEF done
  <2> QED BY <1>2, <2>3, <2>4, <2>6, BecomeType DEF BlockAsMemory, TypeOK, RefState
<1> QED BY <1>1, <1>2 DEF ConnectorFill, ConnectorMemory

LEMMA ResizeTypeStep ==
  ASSUME TypeOK, NEW u \in Users, ResizeNext(u)
  PROVE  TypeOK'
<1>1. ASSUME NEW n \in 1 .. MaxBlocks, NEW k \in 1 .. n, Prepare(u, n, k)
      PROVE  TypeOK'
  <2>1. ref' \in [Users -> RefState]
    BY <1>1, AfterType DEF Prepare, RefState
  <2>2. blk' \in [Blocks -> BlockState]
    BY <1>1, FreshType DEF Prepare
  <2>3. nblocks' \in 0 .. MaxBlocks /\ inMemoryIndex' \in Nat /\ allInMemory' \in BOOLEAN
    BY <1>1, BoundsAssumption DEF Prepare
  <2>4. cache' \in Seq(Blocks)
    BY <1>1 DEF Prepare
  <2> QED BY <1>1, <2>1, <2>2, <2>3, <2>4 DEF Prepare, TypeOK, RefState
<1>2. ASSUME NEW n \in 1 .. MaxBlocks, SetBandProperties(u, n)
      PROVE  TypeOK'
  <2>1. nblocks' \in 0 .. MaxBlocks
    BY <1>2, BoundsAssumption DEF SetBandProperties, TypeOK
  <2>2. ref' \in [Users -> RefState]
    BY <1>2 DEF SetBandProperties, TypeOK, RefState
  <2> QED BY <1>2, <2>1, <2>2 DEF SetBandProperties, TypeOK, RefState
<1> QED BY <1>1, <1>2 DEF ResizeNext

LEMMA UnloadTypeStep ==
  ASSUME TypeOK, NEW u \in Users, UnloadNext(u)
  PROVE  TypeOK'
<1>1. PICK fault \in FaultChoice : Unload(u, fault)
  BY DEF UnloadNext
<1> DEFINE g == UnloadAll(Admin, fault)
<1>2. g \in AdminState
  BY AdminType, UnloadAllType
<1>3. Become(g) /\ ref' = [After(g.freed) EXCEPT ![u] = NoBlock]
  BY <1>1 DEF Unload
<1> HIDE DEF g
<1>4. ref' \in [Users -> RefState]
  BY <1>3, AfterType DEF RefState
<1> QED BY <1>1, <1>2, <1>3, <1>4, BecomeType DEF Unload, TypeOK, RefState

LEMMA CloneTypeStep ==
  ASSUME TypeOK, NEW u \in Users, CloneNext(u)
  PROVE  TypeOK'
<1>1. CASE CloneStart(u)
  <2>1. 0 \in Blocks
    BY BoundsAssumption DEF Blocks
  <2> QED BY <1>1, <2>1, ContentsHasMarks DEF CloneStart, TypeOK, RefState
<1>2. ASSUME NEW fault \in FaultChoice, CloneBlock(u, fault)
      PROVE  TypeOK'
  <2> DEFINE b == cloning[u]
             g == CASE ~blk[b].inMemory -> Load(Admin, b, fault)
                    [] blk[b].inMemory /\ ~blk[b].initialized -> NeedData(Admin, b, fault)
                    [] OTHER -> Admin
  <2>1. b \in Blocks
    BY <1>2, BoundsAssumption DEF CloneBlock, Live, TypeOK, Blocks
  <2>2. g \in AdminState
    BY <2>1, AdminType, LoadType, NeedDataType
  <2>3. /\ Become(g)
        /\ ref' = After(g.freed)
        /\ copied' = [copied EXCEPT ![b] = g.blk[b].data]
        /\ cloning' = [cloning EXCEPT ![u] = b + 1]
        /\ UNCHANGED <<nblocks, allInMemory, served, asked, seen>>
    BY <1>2 DEF CloneBlock
  <2>4. b + 1 \in Blocks \cup {MaxBlocks}
    BY <2>1, BoundsAssumption DEF Blocks
  <2> HIDE DEF g, b
  <2>5. g.blk[b].data \in Contents
    BY <2>1, <2>2 DEF AdminState, BlockState
  <2>6. ref' \in [Users -> RefState]
    BY <2>3, AfterType
  <2> QED BY <2>2, <2>3, <2>4, <2>5, <2>6, BecomeType DEF TypeOK, RefState
<1>3. CASE CloneDone(u)
  BY <1>3 DEF CloneDone, TypeOK
<1>4. ASSUME NEW fits \in BOOLEAN, UseClone(u, fits)
      PROVE  TypeOK'
  <2>1. blk' \in [Blocks -> BlockState]
    <3>1. \A b \in Blocks :
            copied[b] # Uncopied =>
              [Fresh EXCEPT !.initialized = TRUE, !.data = copied[b]] \in BlockState
      BY FreshType DEF TypeOK, BlockState
    <3> QED BY <1>4, <3>1, FreshType DEF UseClone
  <2>2. cache' \in Seq(Blocks) /\ inMemoryIndex' \in Nat
    <3>1. <<>> \in Seq(Blocks) /\ 1 \in Nat
      OBVIOUS
    <3> QED BY <1>4, <3>1 DEF UseClone
  <2> QED BY <1>4, <2>1, <2>2 DEF UseClone, TypeOK, RefState
<1> QED BY <1>1, <1>2, <1>3, <1>4 DEF CloneNext

-----------------------------------------------------------------------------

(* The variables keep their types, with any number of users and under all  *)
(* failures.                                                               *)
THEOREM TypeCorrect == Spec => []TypeOK
<1>1. Init => TypeOK
  <2>1. <<>> \in Seq(Blocks) /\ 0 \in 0 .. MaxBlocks /\ MaxBlocks \in Nat
    BY BoundsAssumption
  <2> QED BY <2>1, FreshType, ContentsHasMarks, ServesAssumption
          DEF Init, TypeOK
<1>2. TypeOK /\ [Next]_vars => TypeOK'
  <2> SUFFICES ASSUME TypeOK, [Next]_vars PROVE TypeOK'
    OBVIOUS
  <2>1. CASE UsersNext
    BY <2>1, AccessTypeStep, ResizeTypeStep, UnloadTypeStep, CloneTypeStep
       DEF UsersNext, UserNext
  <2>2. CASE ConnectorFill \/ ConnectorMemory
    BY <2>2, ConnectorTypeStep
  <2>3. CASE UNCHANGED vars
    BY <2>3 DEF vars, TypeOK
  <2> QED BY <2>1, <2>2, <2>3 DEF Next
<1> QED BY <1>1, <1>2, PTL DEF Spec

-----------------------------------------------------------------------------
(* The store.                                                              *)

(* One block: what is in memory has cells; cells that are there while the  *)
(* block does not count as in memory (a clone, or a raster that fits in    *)
(* memory) were never swapped; and a swap file holds a whole block.        *)
GoodBlock(r) == /\ r.inMemory => r.initialized
                /\ r.initialized /\ ~r.inMemory => r.swap = Never
                /\ r.swap # Short

Listed(g, b) == \E i \in 1 .. Len(g.cache) : g.cache[i] = b

ListsMemory(g) ==
    /\ \A i \in 1 .. Len(g.cache) : g.blk[g.cache[i]].inMemory
    /\ \A i, j \in 1 .. Len(g.cache) : g.cache[i] = g.cache[j] => i = j

Good(g) == /\ g \in AdminState
           /\ \A b \in Blocks : GoodBlock(g.blk[b])
           /\ ListsMemory(g)

SameContent(g, h) ==
    \A b \in Blocks : Content(g.blk[b], b, served) = Content(h.blk[b], b, served)

LEMMA MarksDiffer ==
    /\ Never \notin Contents /\ Short \notin Contents
    /\ Never # Short
    /\ NoFault \notin FaultKinds
BY SourceAssumption, ValuesAssumption
   DEF Contents, Never, Short, Undef, Torn, NoFault, FaultKinds

-----------------------------------------------------------------------------
(* One block.                                                              *)

LEMMA SaveGood ==
  ASSUME NEW r \in BlockState, GoodBlock(r), NEW b, NEW s
  PROVE  /\ GoodBlock(Save(r, NoFault))
         /\ ~Save(r, NoFault).inMemory
         /\ Content(Save(r, NoFault), b, s) = Content(r, b, s)
<1>1. CASE ~r.inMemory
  <2>1. Save(r, NoFault) = r
    BY <1>1 DEF Save
  <2> QED BY <1>1, <2>1
<1>2. CASE r.inMemory
  <2>1. r.initialized
    BY <1>2 DEF GoodBlock
  <2>2. Save(r, NoFault) = [inMemory |-> FALSE, initialized |-> FALSE,
                            data |-> Undef, swap |-> r.data]
    BY <1>2, <2>1 DEF Save, NoFault
  <2>3. r.data \in Contents
    BY DEF BlockState
  <2>4. r.data # Never /\ r.data # Short
    BY <2>3, MarksDiffer
  <2> QED BY <2>1, <2>2, <2>4 DEF GoodBlock, Content
<1> QED BY <1>1, <1>2

LEMMA ReadSwapGood ==
  ASSUME NEW r \in BlockState, r.swap # Short
  PROVE  ReadSwap(r, NoFault) =
           IF r.swap = Never THEN r ELSE [r EXCEPT !.data = r.swap]
BY DEF ReadSwap, NoFault

LEMMA FillGood ==
  ASSUME NEW r \in BlockState, r.initialized, NEW v
  PROVE  Fill(r, v, NoFault) = [r EXCEPT !.data = v]
BY DEF Fill, BlockState

-----------------------------------------------------------------------------
(* The list.                                                               *)

LEMMA PushGood ==
  ASSUME NEW g, Good(g), NEW b \in Blocks, g.blk[b].inMemory, ~Listed(g, b)
  PROVE  /\ Good(Push(g, b))
         /\ Push(g, b).blk = g.blk
         /\ Push(g, b).cache # <<>> /\ Head(Push(g, b).cache) = b
<1> DEFINE c == g.cache
           d == <<b>> \o c
<1>1. c \in Seq(Blocks) /\ g \in AdminState /\ Len(c) \in Nat
  BY DEF Good, AdminState
<1>2. /\ d \in Seq(Blocks) /\ Len(d) = Len(c) + 1 /\ d # <<>>
      /\ d[1] = b
      /\ \A i \in 1 .. Len(c) : d[i + 1] = c[i]
  BY <1>1, ConsType
<1>3. Push(g, b).cache = d /\ Push(g, b).blk = g.blk /\ Push(g, b) \in AdminState
  BY <1>1, PushType DEF Push, AdminState
<1> HIDE DEF d
<1>4. \A i \in 1 .. Len(d) : i = 1 \/ (i - 1 \in 1 .. Len(c) /\ d[i] = c[i - 1])
  <2> TAKE i \in 1 .. Len(d)
  <2>1. CASE i # 1
    <3>1. i - 1 \in 1 .. Len(c) /\ (i - 1) + 1 = i
      BY <1>1, <1>2, <2>1
    <3> QED BY <1>2, <3>1
  <2> QED BY <2>1
<1>5. \A i \in 1 .. Len(d) : g.blk[d[i]].inMemory
  BY <1>2, <1>4 DEF Good, ListsMemory
<1>6. \A i, j \in 1 .. Len(d) : d[i] = d[j] => i = j
  <2> SUFFICES ASSUME NEW i \in 1 .. Len(d), NEW j \in 1 .. Len(d), d[i] = d[j]
               PROVE  i = j
    OBVIOUS
  <2>1. \A k \in 1 .. Len(c) : c[k] # b
    BY DEF Listed
  <2>2. \A k, l \in 1 .. Len(c) : c[k] = c[l] => k = l
    BY DEF Good, ListsMemory
  <2>5. ASSUME NEW k \in 1 .. Len(d), d[k] = b PROVE k = 1
    <3> SUFFICES ASSUME k # 1 PROVE FALSE
      OBVIOUS
    <3>1. k - 1 \in 1 .. Len(c) /\ d[k] = c[k - 1]
      BY <1>4
    <3> QED BY <2>1, <2>5, <3>1
  <2>3. CASE i = 1 \/ j = 1
    BY <1>2, <2>3, <2>5
  <2>4. CASE i # 1 /\ j # 1
    <3>1. i - 1 = j - 1
      BY <1>4, <2>2, <2>4
    <3> QED BY <3>1
  <2> QED BY <2>3, <2>4
<1>7. ListsMemory(Push(g, b))
  BY <1>3, <1>5, <1>6 DEF ListsMemory
<1>8. Head(d) = b
  BY <1>2
<1> QED BY <1>2, <1>3, <1>7, <1>8 DEF Good

(* Saving the last block of the list, and dropping it from the list.       *)
LEMMA DropLastGood ==
  ASSUME NEW g, Good(g), g.cache # <<>>
  PROVE  LET h == DropLast(SaveBlock(g, Last(g.cache), NoFault))
         IN  /\ Good(h)
             /\ SameContent(g, h)
             /\ \A b \in Blocks : ~Listed(g, b) => ~Listed(h, b) /\ h.blk[b] = g.blk[b]
<1> DEFINE c == g.cache
           l == Last(c)
           s == SaveBlock(g, l, NoFault)
           h == DropLast(s)
<1>1. g \in AdminState /\ c \in Seq(Blocks) /\ Len(c) \in Nat \ {0}
  BY DEF Good, AdminState
<1>2. l \in Blocks /\ l = c[Len(c)] /\ Len(c) \in 1 .. Len(c)
  BY <1>1, LastType DEF Last
<1>3. s \in AdminState /\ s.cache = c /\ s.blk = [g.blk EXCEPT ![l] = Save(@, NoFault)]
  BY <1>1, <1>2, SaveBlockType DEF SaveBlock, AdminState
<1>4. /\ h \in AdminState /\ h.blk = s.blk /\ h.cache = Front(c)
  BY <1>1, <1>3, DropLastType DEF DropLast, AdminState
<1>5. /\ Front(c) \in Seq(Blocks) /\ Len(Front(c)) = Len(c) - 1
      /\ \A i \in 1 .. Len(c) - 1 : Front(c)[i] = c[i]
  BY <1>1, FrontType
<1>6. \A b \in Blocks : h.blk[b] = IF b = l THEN Save(g.blk[b], NoFault) ELSE g.blk[b]
  BY <1>1, <1>2, <1>3, <1>4 DEF AdminState
<1>7. \A b \in Blocks : g.blk[b] \in BlockState /\ GoodBlock(g.blk[b])
  BY DEF Good, AdminState
<1>8. \A b \in Blocks : GoodBlock(h.blk[b])
  BY <1>6, <1>7, SaveGood
<1>9. SameContent(g, h)
  BY <1>6, <1>7, SaveGood DEF SameContent
<1> HIDE DEF h, s, l
<1>10. \A i \in 1 .. Len(c) - 1 : i \in 1 .. Len(c) /\ c[i] # l /\ c[i] \in Blocks
  <2> TAKE i \in 1 .. Len(c) - 1
  <2>1. i \in 1 .. Len(c) /\ i # Len(c)
    BY <1>1
  <2>2. c[i] # c[Len(c)]
    BY <1>2, <2>1 DEF Good, ListsMemory
  <2>3. c[i] \in Blocks
    BY <1>1, <2>1
  <2> QED BY <1>2, <2>1, <2>2, <2>3
<1>11. ListsMemory(h)
  <2>1. \A i \in 1 .. Len(c) - 1 : h.blk[c[i]].inMemory
    BY <1>6, <1>10 DEF Good, ListsMemory
  <2>2. \A i, j \in 1 .. Len(c) - 1 : c[i] = c[j] => i = j
    BY <1>10 DEF Good, ListsMemory
  <2> QED BY <1>4, <1>5, <2>1, <2>2 DEF ListsMemory
<1>12. \A b \in Blocks : ~Listed(g, b) => ~Listed(h, b) /\ h.blk[b] = g.blk[b]
  <2> SUFFICES ASSUME NEW b \in Blocks, ~Listed(g, b)
               PROVE  ~Listed(h, b) /\ h.blk[b] = g.blk[b]
    OBVIOUS
  <2>1. \A i \in 1 .. Len(c) : c[i] # b
    BY DEF Listed
  <2>2. b # l
    BY <1>2, <2>1
  <2>3. ~Listed(h, b)
    BY <1>4, <1>5, <1>10, <2>1 DEF Listed
  <2> QED BY <1>6, <2>2, <2>3
<1> QED BY <1>4, <1>8, <1>9, <1>11, <1>12 DEF Good, h, s, l

LEMMA ListNewGood ==
  ASSUME NEW g, Good(g), NEW b \in Blocks, g.blk[b].inMemory, ~Listed(g, b)
  PROVE  LET h == ListNew(g, b, NoFault)
         IN  /\ Good(h)
             /\ SameContent(g, h)
             /\ h.blk[b] = g.blk[b]
             /\ h.cache # <<>> /\ Head(h.cache) = b
<1>1. CASE g.cache # <<>> /\ b > g.imi
  <2> DEFINE d == DropLast(SaveBlock(g, Last(g.cache), NoFault))
  <2>1. Good(d) /\ SameContent(g, d) /\ ~Listed(d, b) /\ d.blk[b] = g.blk[b]
    BY <1>1, DropLastGood
  <2>2. ListNew(g, b, NoFault) = Push(d, b)
    BY <1>1 DEF ListNew
  <2> HIDE DEF d
  <2>3. /\ Good(Push(d, b)) /\ Push(d, b).blk = d.blk
        /\ Push(d, b).cache # <<>> /\ Head(Push(d, b).cache) = b
    BY <2>1, PushGood
  <2> QED BY <2>1, <2>2, <2>3 DEF SameContent
<1>2. CASE ~(g.cache # <<>> /\ b > g.imi)
  <2>1. ListNew(g, b, NoFault) = Push(g, b)
    BY <1>2 DEF ListNew
  <2> QED BY <2>1, PushGood DEF SameContent
<1> QED BY <1>1, <1>2

(* A block that is in front of the list, or not in it: the list gets it,   *)
(* and no block is touched.                                                *)
LEMMA ListGood ==
  ASSUME NEW g, Good(g), NEW b \in Blocks, g.blk[b].inMemory,
         Listed(g, b) => g.cache # <<>> /\ Head(g.cache) = b
  PROVE  LET h == List(g, b, FALSE, NoFault)
         IN  Good(h) /\ h.blk = g.blk
<1>0. g \in AdminState /\ g.cache \in Seq(Blocks)
  BY DEF Good, AdminState
<1>1. CASE g.cache = <<>>
  <2>1. ~Listed(g, b)
    BY <1>1 DEF Listed
  <2>2. List(g, b, FALSE, NoFault) = Push(g, b)
    BY <1>1 DEF List, ListNew
  <2> QED BY <2>1, <2>2, PushGood
<1>2. CASE g.cache # <<>> /\ Head(g.cache) # b
  <2>1. ~Listed(g, b)
    BY <1>2
  <2>2. \A i \in 1 .. Len(g.cache) : g.cache[i] # b
    BY <2>1 DEF Listed
  <2>3. IndexOf(g.cache, b) = -1
    BY <1>0, <2>2, PositionOfType DEF IndexOf
  <2>4. [g EXCEPT !.cache = g.cache] = g
    BY <1>0 DEF AdminState
  <2>5. g.imi \in Nat
    BY <1>0 DEF AdminState
  <2>6. ListAgain(g, b, NoFault) = Push(g, b)
    BY <2>3, <2>4, <2>5 DEF ListAgain
  <2>7. List(g, b, FALSE, NoFault) = Push(g, b)
    BY <1>2, <2>6 DEF List
  <2> QED BY <2>1, <2>7, PushGood
<1>3. CASE g.cache # <<>> /\ Head(g.cache) = b
  BY <1>3 DEF List
<1> QED BY <1>1, <1>2, <1>3

LEMMA NotListed ==
  ASSUME NEW g, Good(g), NEW b, ~g.blk[b].inMemory
  PROVE  ~Listed(g, b)
BY DEF Good, ListsMemory, Listed

(* Putting another good block in the place of one that is as much in       *)
(* memory, or not listed.                                                  *)
LEMMA PutGood ==
  ASSUME NEW g, Good(g), NEW b \in Blocks, NEW r \in BlockState, GoodBlock(r),
         r.inMemory \/ ~Listed(g, b)
  PROVE  LET h == [g EXCEPT !.blk[b] = r]
         IN  /\ Good(h)
             /\ h.cache = g.cache /\ h.imi = g.imi /\ h.freed = g.freed
             /\ \A c \in Blocks : h.blk[c] = IF c = b THEN r ELSE g.blk[c]
<1> DEFINE h == [g EXCEPT !.blk[b] = r]
<1>1. g \in AdminState /\ h \in AdminState
  BY PutType DEF Good
<1>2. /\ h.cache = g.cache /\ h.imi = g.imi /\ h.freed = g.freed
      /\ \A c \in Blocks : h.blk[c] = IF c = b THEN r ELSE g.blk[c]
  BY <1>1 DEF AdminState
<1> HIDE DEF h
<1>3. \A c \in Blocks : GoodBlock(h.blk[c])
  BY <1>2 DEF Good
<1>4. g.cache \in Seq(Blocks)
  BY <1>1 DEF AdminState
<1>5. ListsMemory(h)
  BY <1>2, <1>4 DEF Good, ListsMemory, Listed
<1> QED BY <1>1, <1>2, <1>3, <1>5 DEF Good, h

(* A connector that serves the raster puts its data into the block.        *)
LEMMA NeedDataGood ==
  ASSUME TypeOK, NEW g, Good(g), NEW b \in Blocks, g.blk[b].initialized,
         allInMemory \/ (g.blk[b].inMemory /\ ~Listed(g, b))
  PROVE  LET h == NeedData(g, b, NoFault)
         IN  /\ Good(h)
             /\ \A c \in Blocks \ {b} :
                   Content(h.blk[c], c, served) = Content(g.blk[c], c, served)
             /\ h.blk[b] = IF served THEN [g.blk[b] EXCEPT !.data = Source[b]]
                           ELSE g.blk[b]
             /\ Listed(h, b) => Listed(g, b) \/ (h.cache # <<>> /\ Head(h.cache) = b)
<1>1. CASE ~served
  BY <1>1 DEF NeedData
<1>2. CASE served
  <2> DEFINE listed == IF allInMemory THEN g ELSE ListNew(g, b, NoFault)
             r == [g.blk[b] EXCEPT !.data = Source[b]]
  <2>1. /\ Good(listed) /\ SameContent(g, listed) /\ listed.blk[b] = g.blk[b]
        /\ Listed(listed, b) =>
              Listed(g, b) \/ (listed.cache # <<>> /\ Head(listed.cache) = b)
    <3>1. CASE allInMemory
      BY <3>1 DEF SameContent
    <3>2. CASE ~allInMemory
      BY <3>2, ListNewGood
    <3> QED BY <3>1, <3>2
  <2>2. NeedData(g, b, NoFault) =
          [listed EXCEPT !.blk[b] = Fill(listed.blk[b], Source[b], NoFault)]
    BY <1>2 DEF NeedData
  <2> HIDE DEF listed
  <2>3. g.blk[b] \in BlockState /\ GoodBlock(g.blk[b])
    BY DEF Good, AdminState
  <2>4. Fill(listed.blk[b], Source[b], NoFault) = r
    BY <2>1, <2>3, FillGood
  <2>5. r \in BlockState /\ GoodBlock(r) /\ r.inMemory = g.blk[b].inMemory
    BY <2>3, SourceInContents DEF GoodBlock, BlockState
  <2>6. r.inMemory \/ ~Listed(listed, b)
    BY <2>1, <2>5, NotListed
  <2> HIDE DEF r
  <2>7. LET h == [listed EXCEPT !.blk[b] = r]
        IN  /\ Good(h) /\ h.cache = listed.cache
            /\ \A c \in Blocks : h.blk[c] = IF c = b THEN r ELSE listed.blk[c]
    BY <2>1, <2>5, <2>6, PutGood
  <2>8. NeedData(g, b, NoFault) = [listed EXCEPT !.blk[b] = r]
    BY <2>2, <2>4
  <2> QED BY <1>2, <2>1, <2>7, <2>8 DEF SameContent, Listed, r
<1> QED BY <1>1, <1>2 DEF TypeOK

(* What the loading of a block leaves behind.                              *)
Loaded(g, h, b) == /\ Good(h)
                   /\ SameContent(g, h)
                   /\ h.blk[b].initialized

LEMMA LoadGood ==
  ASSUME TypeOK, NEW g, Good(g), NEW b \in Blocks, ~g.blk[b].inMemory
  PROVE  LET h == Load(g, b, NoFault)
         IN  /\ Loaded(g, h, b)
             /\ h.blk[b].inMemory
             /\ Listed(h, b) => h.cache # <<>> /\ Head(h.cache) = b
             /\ LoadOk(g, b, NoFault)
<1> DEFINE r == [g.blk[b] EXCEPT !.inMemory = TRUE]
           p == Prepared(g, b, NoFault)
           q == [g EXCEPT !.blk[b] = Blank(r)]
           h == Load(g, b, NoFault)
           back == ReadSwap(p.blk[b], NoFault)
<1>1. /\ g.blk[b] \in BlockState /\ GoodBlock(g.blk[b])
      /\ \A c \in Blocks : g.blk[c] \in BlockState
  BY DEF Good, AdminState
<1>2. ~Listed(g, b)
  BY NotListed
<1>3. /\ r \in BlockState /\ r.inMemory
      /\ r.initialized = g.blk[b].initialized
      /\ r.swap = g.blk[b].swap /\ r.data = g.blk[b].data
  BY <1>1 DEF BlockState
<1>4. p = IF r.initialized THEN [g EXCEPT !.blk[b] = r] ELSE NeedData(q, b, NoFault)
  BY DEF Prepared
<1>5. h = [p EXCEPT !.blk[b] = back]
  BY DEF Load
<1>6. LoadOk(g, b, NoFault) = ReadOk(p.blk[b], NoFault)
  BY DEF LoadOk
<1> HIDE DEF p, h
<1>7. CASE g.blk[b].initialized
  <2>1. r.swap = Never /\ GoodBlock(r)
    BY <1>1, <1>3, <1>7, MarksDiffer DEF GoodBlock
  <2>2. /\ Good(p) /\ p.cache = g.cache
        /\ \A c \in Blocks : p.blk[c] = IF c = b THEN r ELSE g.blk[c]
    <3> HIDE DEF r
    <3>1. p = [g EXCEPT !.blk[b] = r]
      BY <1>3, <1>4, <1>7
    <3> QED BY <1>2, <1>3, <2>1, <3>1, PutGood
  <2>3. back = r
    BY <1>3, <2>1, <2>2, ReadSwapGood, MarksDiffer
  <2>4. /\ Good(h) /\ h.cache = g.cache
        /\ \A c \in Blocks : h.blk[c] = IF c = b THEN r ELSE p.blk[c]
    <3> HIDE DEF r, back
    <3> QED BY <1>3, <1>5, <2>1, <2>2, <2>3, PutGood
  <2>5. Content(r, b, served) = Content(g.blk[b], b, served)
    BY <1>3, <1>7 DEF Content
  <2>6. SameContent(g, h)
    BY <2>2, <2>4, <2>5 DEF SameContent
  <2>7. ~Listed(h, b)
    BY <1>2, <2>4 DEF Listed
  <2>8. LoadOk(g, b, NoFault)
    BY <1>6, <2>1, <2>2 DEF ReadOk
  <2> QED BY <1>3, <1>7, <2>4, <2>6, <2>7, <2>8 DEF Loaded, h
<1>8. CASE ~g.blk[b].initialized
  <2>1. /\ Blank(r) \in BlockState /\ GoodBlock(Blank(r))
        /\ Blank(r).inMemory /\ Blank(r).initialized
        /\ Blank(r).swap = g.blk[b].swap /\ Blank(r).data = Undef
    BY <1>1, <1>3, BlankType DEF Blank, GoodBlock, BlockState
  <2>2. /\ Good(q) /\ q.cache = g.cache
        /\ \A c \in Blocks : q.blk[c] = IF c = b THEN Blank(r) ELSE g.blk[c]
    <3> HIDE DEF r
    <3> QED BY <2>1, PutGood
  <2>3. ~Listed(q, b)
    BY <1>2, <2>2 DEF Listed
  <2> DEFINE new == Blank(r)
  <2> HIDE DEF q, r, new
  <2>4. /\ Good(p)
        /\ \A c \in Blocks \ {b} :
              Content(p.blk[c], c, served) = Content(q.blk[c], c, served)
        /\ p.blk[b] = IF served THEN [new EXCEPT !.data = Source[b]] ELSE new
        /\ Listed(p, b) => p.cache # <<>> /\ Head(p.cache) = b
    BY <1>3, <1>4, <1>8, <2>1, <2>2, <2>3, NeedDataGood DEF new
  <2>5. /\ p.blk[b] \in BlockState /\ p.blk[b].inMemory /\ p.blk[b].initialized
        /\ p.blk[b].swap = g.blk[b].swap /\ GoodBlock(p.blk[b])
        /\ p.blk[b].data = IF served THEN Source[b] ELSE Undef
    BY <2>1, <2>4 DEF new, BlockState, Good, AdminState
  <2>6. g.blk[b].swap # Short
    BY <1>1 DEF GoodBlock
  <2>7. back = IF p.blk[b].swap = Never THEN p.blk[b]
               ELSE [p.blk[b] EXCEPT !.data = p.blk[b].swap]
    BY <2>5, <2>6, ReadSwapGood
  <2>8. /\ back \in BlockState /\ GoodBlock(back)
        /\ back.inMemory /\ back.initialized
        /\ back.data = IF g.blk[b].swap = Never
                       THEN IF served THEN Source[b] ELSE Undef
                       ELSE g.blk[b].swap
    BY <2>5, <2>6, <2>7, ReadSwapType DEF GoodBlock, BlockState
  <2> HIDE DEF back
  <2>9. /\ Good(h) /\ h.cache = p.cache
        /\ \A c \in Blocks : h.blk[c] = IF c = b THEN back ELSE p.blk[c]
    BY <1>5, <2>4, <2>8, PutGood
  <2>10. Content(back, b, served) = Content(g.blk[b], b, served)
    BY <1>8, <2>8 DEF Content
  <2>11. SameContent(g, h)
    BY <2>2, <2>4, <2>9, <2>10 DEF SameContent
  <2>12. LoadOk(g, b, NoFault)
    BY <1>6, <2>5, <2>6 DEF ReadOk, NoFault
  <2> QED BY <2>4, <2>8, <2>9, <2>11, <2>12 DEF Loaded, Listed, h
<1> QED BY <1>7, <1>8 DEF h

(* at() of a block that is initialized, or of any block of a raster that   *)
(* fits in memory.                                                         *)
LEMMA AtGood ==
  ASSUME TypeOK, NEW g, Good(g), NEW b \in Blocks,
         g.blk[b].initialized \/ allInMemory
  PROVE  Loaded(g, At(g, b, NoFault), b)
<1> DEFINE r == g.blk[b]
           h == At(g, b, NoFault)
<1>1. r \in BlockState /\ GoodBlock(r) /\ r.swap # Short
  BY DEF Good, AdminState, GoodBlock
<1>2. CASE r.initialized
  BY <1>2 DEF At, Loaded, SameContent
<1>3. CASE ~r.initialized
  <2>1. ~r.inMemory /\ allInMemory /\ ~Listed(g, b)
    BY <1>1, <1>3, NotListed DEF GoodBlock
  <2>2. CASE r.swap # Never
    <3> DEFINE m == [Blank(r) EXCEPT !.inMemory = TRUE]
               back == [m EXCEPT !.data = r.swap]
    <3>1. m \in BlockState /\ m.swap = r.swap /\ m.inMemory /\ m.initialized
      BY <1>1, BlankType DEF Blank, BlockState
    <3>2. ReadSwap(m, NoFault) = back
      BY <1>1, <2>2, <3>1, ReadSwapGood
    <3>3. /\ back \in BlockState /\ GoodBlock(back) /\ back.initialized
          /\ back.data = r.swap
      BY <1>1, <2>2, <3>1, <3>2, ReadSwapType DEF GoodBlock, BlockState
    <3>4. h = [g EXCEPT !.blk[b] = ReadSwap(m, NoFault)]
      BY <1>3, <2>1, <2>2 DEF At
    <3> HIDE DEF back, h, m
    <3>5. /\ Good(h)
          /\ \A c \in Blocks : h.blk[c] = IF c = b THEN back ELSE g.blk[c]
      BY <2>1, <3>2, <3>3, <3>4, PutGood
    <3>6. Content(back, b, served) = Content(r, b, served)
      BY <1>3, <2>2, <3>3 DEF Content
    <3> QED BY <3>3, <3>5, <3>6 DEF Loaded, SameContent, h
  <2>3. CASE r.swap = Never
    <3> DEFINE q == [g EXCEPT !.blk[b] = Blank(r)]
    <3>1. /\ Blank(r) \in BlockState /\ GoodBlock(Blank(r))
          /\ Blank(r).initialized /\ Blank(r).data = Undef
      BY <1>1, <2>1, <2>3, BlankType DEF Blank, GoodBlock, BlockState
    <3>2. h = NeedData(q, b, NoFault)
      BY <1>3, <2>3 DEF At
    <3> DEFINE new == Blank(r)
    <3> HIDE DEF new, h
    <3>3. /\ Good(q)
          /\ \A c \in Blocks : q.blk[c] = IF c = b THEN new ELSE g.blk[c]
      BY <2>1, <3>1, PutGood DEF new
    <3> HIDE DEF q
    <3>4. /\ Good(h)
          /\ \A c \in Blocks \ {b} :
                Content(h.blk[c], c, served) = Content(q.blk[c], c, served)
          /\ h.blk[b] = IF served THEN [new EXCEPT !.data = Source[b]] ELSE new
      BY <2>1, <3>1, <3>2, <3>3, NeedDataGood DEF new
    <3>5. /\ h.blk[b].initialized
          /\ h.blk[b].data = IF served THEN Source[b] ELSE Undef
      BY <3>1, <3>4 DEF new, BlockState
    <3>6. Content(h.blk[b], b, served) = Content(r, b, served)
      BY <1>3, <2>3, <3>5 DEF Content
    <3> QED BY <3>3, <3>4, <3>5, <3>6 DEF Loaded, SameContent, h
  <2> QED BY <2>2, <2>3
<1> QED BY <1>2, <1>3

LEMMA UnloadAllGood ==
  ASSUME NEW g, Good(g)
  PROVE  Good(UnloadAll(g, NoFault)) /\ SameContent(g, UnloadAll(g, NoFault))
<1> DEFINE h == UnloadAll(g, NoFault)
<1>1. h \in AdminState /\ g \in AdminState
  BY UnloadAllType DEF Good
<1>2. h.cache = <<>> /\ \A b \in Blocks : h.blk[b] = Save(g.blk[b], NoFault)
  BY DEF UnloadAll
<1>3. \A b \in Blocks : g.blk[b] \in BlockState /\ GoodBlock(g.blk[b])
  BY <1>1 DEF Good, AdminState
<1> HIDE DEF h
<1>4. \A b \in Blocks : GoodBlock(h.blk[b])
  BY <1>2, <1>3, SaveGood
<1>5. SameContent(g, h)
  BY <1>2, <1>3, SaveGood DEF SameContent
<1>6. ListsMemory(h)
  BY <1>2 DEF ListsMemory
<1> QED BY <1>1, <1>4, <1>5, <1>6 DEF Good, h

LEMMA UpdatedGood ==
  ASSUME TypeOK, Good(Admin), NEW b \in Blocks, ~blk[b].inMemory
  PROVE  /\ Loaded(Admin, Updated(b, FALSE, NoFault), b)
         /\ UpdateOk(b, NoFault) /\ ~UpdateThrows(b, NoFault)
<1> DEFINE l == Load(Admin, b, NoFault)
<1>1. Admin.blk = blk
  BY DEF Admin
<1>2. /\ ~NoRoom(b, NoFault) /\ Room(b, NoFault) = Admin
      /\ ~UpdateThrows(b, NoFault)
  BY DEF NoRoom, Room, UpdateThrows, NoFault
<1>3. /\ Loaded(Admin, l, b) /\ l.blk[b].inMemory
      /\ Listed(l, b) => l.cache # <<>> /\ Head(l.cache) = b
      /\ LoadOk(Admin, b, NoFault)
  BY <1>1, LoadGood
<1>4. UpdateOk(b, NoFault)
  BY <1>2, <1>3 DEF UpdateOk
<1>5. Updated(b, FALSE, NoFault) = List(l, b, FALSE, NoFault)
  BY <1>2, <1>4 DEF Updated
<1> HIDE DEF l
<1>6. Good(List(l, b, FALSE, NoFault)) /\ List(l, b, FALSE, NoFault).blk = l.blk
  BY <1>3, ListGood DEF Loaded
<1> QED BY <1>2, <1>3, <1>4, <1>5, <1>6 DEF Loaded, SameContent

(* value() and setValue() get to the cells of every block.                 *)
LEMMA AccessGood ==
  ASSUME TypeOK, Good(Admin), NEW b \in Blocks
  PROVE  /\ Loaded(Admin, Access(b, NoFault), b)
         /\ AccessOk(b, NoFault)
<1>1. Admin.blk = blk
  BY DEF Admin
<1>2. CASE Direct(b)
  <2>1. blk[b].initialized \/ allInMemory
    BY <1>1, <1>2 DEF Direct, Good, GoodBlock
  <2>2. Access(b, NoFault) = At(Admin, b, NoFault) /\ AccessOk(b, NoFault)
    BY <1>2 DEF Access, AccessOk, NoFault
  <2> QED BY <1>1, <2>1, <2>2, AtGood
<1>3. CASE ~Direct(b)
  <2> DEFINE g == Updated(b, FALSE, NoFault)
  <2>1. Loaded(Admin, g, b) /\ UpdateOk(b, NoFault) /\ ~UpdateThrows(b, NoFault)
    BY <1>3, UpdatedGood DEF Direct
  <2>2. Access(b, NoFault) = At(g, b, NoFault) /\ AccessOk(b, NoFault)
    BY <1>3, <2>1 DEF Access, AccessOk
  <2> HIDE DEF g
  <2>3. Loaded(g, At(g, b, NoFault), b)
    BY <2>1, AtGood DEF Loaded
  <2> QED BY <2>1, <2>2, <2>3 DEF Loaded, SameContent
<1> QED BY <1>2, <1>3

-----------------------------------------------------------------------------
(* The actions, for any users.                                             *)

GridInv == TypeOK /\ Good(Admin) /\ (served => Serves)

LEMMA NoFaultChoice == Faults = {} => FaultChoice = {NoFault}
BY DEF FaultChoice

LEMMA BecomeGood ==
  ASSUME NEW g, Good(g), Become(g)
  PROVE  Good(Admin)'
<1>1. g \in AdminState
  BY DEF Good
<1>2. Admin' = [blk |-> g.blk, cache |-> g.cache, imi |-> g.imi, freed |-> {}]
  BY DEF Admin, Become
<1>3. Admin' \in AdminState
  BY <1>1, <1>2 DEF AdminState
<1>4. Admin'.blk = g.blk /\ Admin'.cache = g.cache
  BY <1>2
<1>5. Good(Admin')
  BY <1>3, <1>4 DEF Good, ListsMemory
<1> QED BY <1>5 DEF Good, ListsMemory, AdminState, GoodBlock

(* Writing the cells of a block that is there.                             *)
LEMMA PutData ==
  ASSUME NEW g, Good(g), NEW b \in Blocks, NEW v \in Contents
  PROVE  LET h == [g EXCEPT !.blk[b].data = v]
         IN  /\ Good(h)
             /\ h.blk = [g.blk EXCEPT ![b] = [@ EXCEPT !.data = v]]
<1> DEFINE h == [g EXCEPT !.blk[b].data = v]
           r == [g.blk[b] EXCEPT !.data = v]
<1>1. g.blk[b] \in BlockState /\ GoodBlock(g.blk[b]) /\ g \in AdminState
  BY DEF Good, AdminState
<1>2. /\ r \in BlockState /\ GoodBlock(r) /\ r.inMemory = g.blk[b].inMemory
  BY <1>1 DEF BlockState, GoodBlock
<1>3. h = [g EXCEPT !.blk[b] = r] /\ h.blk = [g.blk EXCEPT ![b] = r]
  BY <1>1 DEF AdminState
<1>4. r.inMemory \/ ~Listed(g, b)
  BY <1>2, NotListed
<1>5. Good(h)
  <2> HIDE DEF r, h
  <2> QED BY <1>2, <1>3, <1>4, PutGood
<1> QED BY <1>3, <1>5

LEMMA FreshGood == Fresh \in BlockState /\ GoodBlock(Fresh)
BY FreshType, MarksDiffer DEF Fresh, GoodBlock

LEMMA GoodNow ==
  ASSUME Good(Admin)
  PROVE  \A b \in Blocks : blk[b] \in BlockState /\ GoodBlock(blk[b])
BY DEF Good, Admin, AdminState

(* An action that leaves the administration alone.                         *)
LEMMA SameGood ==
  ASSUME Good(Admin), UNCHANGED <<blk, cache, inMemoryIndex>>
  PROVE  Good(Admin)'
<1>1. Become(Admin)
  BY DEF Become, Admin
<1> QED BY <1>1, BecomeGood

LEMMA CellsGood ==
  ASSUME Faults = {}, GridInv, NEW u \in Users, AccessNext(u)
  PROVE  Good(Admin)'
<1>1. ASSUME NEW b \in Blocks, NEW fault \in FaultChoice, Value(u, b, fault)
      PROVE  Good(Admin)'
  <2>1. fault = NoFault
    BY NoFaultChoice
  <2>2. Loaded(Admin, Access(b, NoFault), b) /\ AccessOk(b, NoFault)
    BY AccessGood DEF GridInv
  <2>3. Become(Access(b, NoFault))
    BY <1>1, <2>1, <2>2 DEF Value
  <2> QED BY <2>2, <2>3, BecomeGood DEF Loaded
<1>2. CASE ReadRef(u)
  BY <1>2, SameGood DEF ReadRef, GridInv
<1>3. ASSUME NEW v \in Values, WriteRef(u, v)
      PROVE  Good(Admin)'
  <2>1. CASE ref[u] = Wild
    BY <1>3, <2>1, SameGood DEF WriteRef, GridInv
  <2>2. CASE ref[u] # Wild
    <3>1. ref[u] \in Blocks
      BY <1>3, <2>2 DEF WriteRef, GridInv, TypeOK
    <3> DEFINE g == [Admin EXCEPT !.blk[ref[u]].data = v]
    <3>2. Good(g) /\ g.blk = [blk EXCEPT ![ref[u]] = [@ EXCEPT !.data = v]]
      BY <3>1, PutData, ValuesInContents DEF GridInv, Admin
    <3>3. g.cache = cache /\ g.imi = inMemoryIndex
      BY DEF Admin
    <3> HIDE DEF g
    <3>4. Become(g)
      BY <1>3, <2>2, <3>2, <3>3 DEF WriteRef, Become
    <3> QED BY <3>2, <3>4, BecomeGood
  <2> QED BY <2>1, <2>2
<1>4. ASSUME NEW b \in Blocks, NEW v \in Values, NEW fault \in FaultChoice,
             SetValue(u, b, v, fault)
      PROVE  Good(Admin)'
  <2>1. fault = NoFault
    BY NoFaultChoice
  <2> DEFINE g == Access(b, NoFault)
  <2>2. Loaded(Admin, g, b) /\ AccessOk(b, NoFault)
    BY AccessGood DEF GridInv
  <2>3. Become([g EXCEPT !.blk[b].data = v])
    BY <1>4, <2>1, <2>2 DEF SetValue
  <2> HIDE DEF g
  <2>4. Good([g EXCEPT !.blk[b].data = v])
    BY <2>2, PutData, ValuesInContents DEF Loaded
  <2> QED BY <2>3, <2>4, BecomeGood
<1> QED BY <1>1, <1>2, <1>3, <1>4 DEF AccessNext

(* Blocks that are new or that hold a copy, none of them listed.           *)
LEMMA NewBlocksGood ==
  ASSUME TypeOK', cache' = <<>>, \A b \in Blocks : GoodBlock(blk'[b])
  PROVE  Good(Admin)'
<1> DEFINE g == [blk |-> blk', cache |-> cache', imi |-> inMemoryIndex', freed |-> {}]
<1>1. g \in AdminState
  BY DEF AdminState, TypeOK
<1>2. ListsMemory(g)
  BY DEF ListsMemory
<1>3. Good(g)
  BY <1>1, <1>2 DEF Good
<1>4. Become(g)
  BY DEF Become
<1> HIDE DEF g
<1> QED BY <1>3, <1>4, BecomeGood

LEMMA WholeGood ==
  ASSUME Faults = {}, GridInv, TypeOK', NEW u \in Users,
         ResizeNext(u) \/ UnloadNext(u)
  PROVE  Good(Admin)'
<1>1. ASSUME NEW n \in 1 .. MaxBlocks, NEW k \in 1 .. n, Prepare(u, n, k)
      PROVE  Good(Admin)'
  BY <1>1, FreshGood, NewBlocksGood DEF Prepare
<1>2. ASSUME NEW n \in 1 .. MaxBlocks, SetBandProperties(u, n)
      PROVE  Good(Admin)'
  BY <1>2, SameGood DEF SetBandProperties, GridInv
<1>3. ASSUME NEW fault \in FaultChoice, Unload(u, fault)
      PROVE  Good(Admin)'
  <2>1. Become(UnloadAll(Admin, NoFault))
    BY <1>3, NoFaultChoice DEF Unload
  <2> QED BY <2>1, UnloadAllGood, BecomeGood DEF GridInv
<1> QED BY <1>1, <1>2, <1>3 DEF ResizeNext, UnloadNext

(* The block that is cloned next: it is loaded when it has to be.          *)
CloneLoaded(b) == IF blk[b].inMemory THEN Admin ELSE Load(Admin, b, NoFault)

LEMMA CloneBlockGood ==
  ASSUME Faults = {}, GridInv, NEW u \in Users, NEW fault \in FaultChoice,
         CloneBlock(u, fault)
  PROVE  LET b == cloning[u]
             g == CloneLoaded(b)
         IN  /\ b \in Blocks
             /\ Loaded(Admin, g, b)
             /\ Become(g) /\ ref' = After(g.freed)
             /\ copied' = [copied EXCEPT ![b] = g.blk[b].data]
<1> DEFINE b == cloning[u]
           g == CASE ~blk[b].inMemory -> Load(Admin, b, fault)
                  [] blk[b].inMemory /\ ~blk[b].initialized -> NeedData(Admin, b, fault)
                  [] OTHER -> Admin
<1>1. b \in Blocks
  BY BoundsAssumption DEF CloneBlock, Live, GridInv, TypeOK, Blocks
<1>2. blk[b].inMemory => blk[b].initialized
  BY <1>1, GoodNow DEF GridInv, GoodBlock
<1>3. fault = NoFault
  BY NoFaultChoice
<1>4. g = CloneLoaded(b)
  BY <1>2, <1>3 DEF CloneLoaded
<1>5. /\ Become(g) /\ ref' = After(g.freed)
      /\ copied' = [copied EXCEPT ![b] = g.blk[b].data]
  BY DEF CloneBlock
<1> HIDE DEF b, g
<1>6. Loaded(Admin, CloneLoaded(b), b)
  <2>0. Admin.blk = blk
    BY DEF Admin
  <2>1. CASE blk[b].inMemory
    BY <1>2, <2>0, <2>1 DEF CloneLoaded, Loaded, SameContent, GridInv
  <2>2. CASE ~blk[b].inMemory
    BY <1>1, <2>0, <2>2, LoadGood DEF CloneLoaded, GridInv
  <2> QED BY <2>1, <2>2
<1> QED BY <1>1, <1>4, <1>5, <1>6 DEF b

(* A block of the clone.                                                   *)
LEMMA CopyGood ==
  ASSUME NEW v \in Contents
  PROVE  LET r == [Fresh EXCEPT !.initialized = TRUE, !.data = v]
         IN  /\ r \in BlockState /\ GoodBlock(r)
             /\ r.initialized /\ r.data = v
<1> DEFINE r == [Fresh EXCEPT !.initialized = TRUE, !.data = v]
<1>1. r \in BlockState /\ r.initialized /\ r.data = v /\ ~r.inMemory /\ r.swap = Never
  BY FreshType DEF BlockState, Fresh
<1> QED BY <1>1, MarksDiffer DEF GoodBlock

LEMMA ClonesGood ==
  ASSUME Faults = {}, GridInv, TypeOK', NEW u \in Users, CloneNext(u)
  PROVE  Good(Admin)'
<1>1. CASE CloneStart(u)
  BY <1>1, SameGood DEF CloneStart, GridInv
<1>2. ASSUME NEW fault \in FaultChoice, CloneBlock(u, fault)
      PROVE  Good(Admin)'
  BY <1>2, CloneBlockGood, BecomeGood DEF Loaded
<1>3. CASE CloneDone(u)
  BY <1>3, SameGood DEF CloneDone, GridInv
<1>4. ASSUME NEW fits \in BOOLEAN, UseClone(u, fits)
      PROVE  Good(Admin)'
  <2>1. ASSUME NEW b \in Blocks PROVE GoodBlock(blk'[b])
    <3>1. blk'[b] = IF copied[b] = Uncopied THEN Fresh
                    ELSE [Fresh EXCEPT !.initialized = TRUE, !.data = copied[b]]
      BY <1>4 DEF UseClone
    <3>2. CASE copied[b] = Uncopied
      BY <3>1, <3>2, FreshGood
    <3>3. CASE copied[b] # Uncopied
      <4>1. copied[b] \in Contents
        BY <3>3 DEF GridInv, TypeOK
      <4> QED BY <3>1, <3>3, <4>1, CopyGood
    <3> QED BY <3>2, <3>3
  <2> QED BY <1>4, <2>1, NewBlocksGood DEF UseClone
<1> QED BY <1>1, <1>2, <1>3, <1>4 DEF CloneNext

(* Only a clone changes "served", and it is not served.                    *)
LEMMA ServedStep ==
  ASSUME GridInv, UsersNext
  PROVE  served' => Serves
BY DEF UsersNext, UserNext, AccessNext, ResizeNext, UnloadNext, CloneNext, Value, ReadRef,
       WriteRef, SetValue, Prepare, SetBandProperties, Unload, CloneStart,
       CloneBlock, CloneDone, UseClone, GridInv

LEMMA GridInvInit == Init => GridInv
<1> SUFFICES ASSUME Init PROVE GridInv
  OBVIOUS
<1>1. TypeOK
  <2>1. <<>> \in Seq(Blocks) /\ 0 \in 0 .. MaxBlocks /\ MaxBlocks \in Nat
    BY BoundsAssumption
  <2> QED BY <2>1, FreshType, ContentsHasMarks, ServesAssumption DEF Init, TypeOK
<1>2. Admin.cache = <<>> /\ \A b \in Blocks : Admin.blk[b] = Fresh
  BY DEF Admin, Init
<1>3. Good(Admin)
  BY <1>1, <1>2, AdminType, FreshGood DEF Good, ListsMemory
<1> QED BY <1>1, <1>3 DEF GridInv, Init

LEMMA GridInvStep ==
  ASSUME Faults = {}, GridInv, [UsersNext]_vars
  PROVE  GridInv'
<1>1. ASSUME NEW u \in Users, UserNext(u)
      PROVE  GridInv'
  <2>1. TypeOK'
    BY <1>1, AccessTypeStep, ResizeTypeStep, UnloadTypeStep, CloneTypeStep
       DEF UserNext, GridInv
  <2>2. Good(Admin)'
    BY <1>1, <2>1, CellsGood, WholeGood, ClonesGood DEF UserNext
  <2>3. (served => Serves)'
    BY <1>1, ServedStep DEF UsersNext
  <2> QED BY <2>1, <2>2, <2>3 DEF GridInv
<1>2. CASE UNCHANGED vars
  <2>1. TypeOK'
    BY <1>2 DEF vars, TypeOK, GridInv
  <2>2. Good(Admin)'
    BY <1>2, SameGood DEF vars, GridInv
  <2> QED BY <1>2, <2>1, <2>2 DEF vars, GridInv
<1> QED BY <1>1, <1>2 DEF UsersNext

LEMMA GridInvAlways == Faults = {} => (UserSpec => []GridInv)
<1> SUFFICES ASSUME Faults = {} PROVE UserSpec => []GridInv
  OBVIOUS
<1>1. GridInv /\ [UsersNext]_vars => GridInv'
  BY GridInvStep
<1> QED BY <1>1, GridInvInit, PTL DEF UserSpec

(* When no I/O fails, the list of the grid names blocks that are in memory,*)
(* each of them once: whatever any number of users do, Grid::update never  *)
(* lists a block twice and the swapping never leaves one listed behind.    *)
THEOREM ListIsRight == Faults = {} => (UserSpec => []CacheListsMemory)
<1> SUFFICES ASSUME Faults = {} PROVE UserSpec => []CacheListsMemory
  OBVIOUS
<1>1. GridInv => CacheListsMemory
  <2> SUFFICES ASSUME GridInv PROVE CacheListsMemory
    OBVIOUS
  <2>1. DOMAIN cache = 1 .. Len(cache)
    BY DEF GridInv, TypeOK
  <2> QED BY <2>1 DEF GridInv, Good, ListsMemory, Admin, CacheListsMemory
<1> QED BY <1>1, GridInvAlways, PTL

-----------------------------------------------------------------------------
(* One user: the grid implements RasterStore.                              *)

(* A reference leads into the block that was asked for, which has cells;   *)
(* there is none while the raster is cloned.                               *)
RefGood == \A u \in Users :
               /\ ref[u] # NoBlock => /\ ref[u] \in Blocks
                                      /\ blk[ref[u]].initialized
                                      /\ ref[u] = asked[u]
               /\ cloning[u] # NoBlock => ref[u] = NoBlock

UserInv == GridInv /\ RefGood

(* The contents of the store, as the refinement mapping gives them.        *)
Cells == [b \in Blocks |-> Content(blk[b], b, served)]

(* Steps of the grid that are steps of the store. *)
LEMMA SameCells ==
  ASSUME NEW g, SameContent(Admin, g), Become(g), served' = served
  PROVE  Cells' = Cells
BY DEF Cells, SameContent, Admin, Become

HoldsTheSame(h) ==
    \A c \in Blocks : Content(h[c], c, served) = Content(blk[c], c, served)

LEMMA WrittenCells ==
  ASSUME NEW h \in [Blocks -> BlockState], NEW b \in Blocks, NEW v,
         h[b].initialized,
         HoldsTheSame(h),
         blk' = [h EXCEPT ![b] = [@ EXCEPT !.data = v]],
         served' = served
  PROVE  Cells' = [Cells EXCEPT ![b] = v]
<1>2. blk'[b].initialized /\ blk'[b].data = v
  BY DEF BlockState
<1>3. \A c \in Blocks : c # b => blk'[c] = h[c]
  OBVIOUS
<1>4. \A c \in Blocks : Content(blk'[c], c, served) = [Cells EXCEPT ![b] = v][c]
  BY <1>2, <1>3 DEF Cells, Content, HoldsTheSame
<1> QED BY <1>4 DEF Cells

LEMMA StoreAsk ==
  ASSUME NEW u \in Users, NEW b \in Blocks, asked' = [asked EXCEPT ![u] = b],
         Cells' = Cells, UNCHANGED <<seen, copied>>
  PROVE  Store!Next
BY DEF Store!Next, Store!Ask, Cells

LEMMA StoreWrite ==
  ASSUME NEW u \in Users, NEW b \in Blocks, NEW v \in Values,
         asked' = [asked EXCEPT ![u] = b],
         Cells' = [Cells EXCEPT ![b] = v], UNCHANGED <<seen, copied>>
  PROVE  Store!Next
BY DEF Store!Next, Store!Write, Cells

LEMMA StoreStutter ==
  ASSUME Cells' = Cells, UNCHANGED <<asked, seen, copied>>
  PROVE  UNCHANGED Store!vars
BY DEF Store!vars, Cells

(* What one user holds after a call that leaves it the block r.            *)
LEMMA OneRef ==
  ASSUME NEW u, Users = {u}, TypeOK, NEW f, NEW r,
         ref' = [f EXCEPT ![u] = r], DOMAIN f = Users
  PROVE  ref'[u] = r
OBVIOUS

LEMMA CellsStep ==
  ASSUME Faults = {}, NEW u, Users = {u}, UserInv, AccessNext(u)
  PROVE  RefGood' /\ [Store!Next]_Store!vars
<1>0. GridInv /\ TypeOK /\ Good(Admin) /\ cloning[u] = NoBlock /\ cloning' = cloning
  BY DEF UserInv, GridInv, AccessNext, Idle, Value, ReadRef, WriteRef, SetValue
<1>1. ASSUME NEW b \in Blocks, NEW fault \in FaultChoice, Value(u, b, fault)
      PROVE  RefGood' /\ Store!Next
  <2> DEFINE g == Access(b, NoFault)
  <2>1. fault = NoFault
    BY NoFaultChoice
  <2>2. Loaded(Admin, g, b) /\ AccessOk(b, NoFault)
    BY <1>0, AccessGood
  <2>3. /\ Become(g) /\ ref' = [After(g.freed) EXCEPT ![u] = b]
        /\ asked' = [asked EXCEPT ![u] = b]
        /\ UNCHANGED <<served, seen, copied>>
    BY <1>1, <2>1, <2>2 DEF Value
  <2> HIDE DEF g
  <2>4. Cells' = Cells
    BY <2>2, <2>3, SameCells DEF Loaded
  <2>5. ref'[u] = b /\ asked'[u] = b
    BY <1>0, <2>3 DEF After, TypeOK
  <2>6. blk'[b].initialized
    BY <2>2, <2>3 DEF Become, Loaded
  <2>7. RefGood'
    BY <1>0, <2>5, <2>6 DEF RefGood
  <2> QED BY <2>3, <2>4, <2>7, StoreAsk
<1>2. CASE ReadRef(u)
  <2>1. /\ ref[u] \in Blocks /\ ref[u] # Wild
        /\ blk[ref[u]].initialized /\ ref[u] = asked[u]
    BY <1>2 DEF ReadRef, UserInv, RefGood, Blocks, Wild
  <2>2. RefGood'
    BY <1>2 DEF ReadRef, UserInv, RefGood
  <2>3. Cells' = Cells
    BY <1>2 DEF ReadRef, Cells
  <2>4. seen' = [seen EXCEPT ![u] = Cells[ref[u]]]
    BY <1>2, <2>1 DEF ReadRef, Cells, Content
  <2>5. asked' = [asked EXCEPT ![u] = ref[u]]
    BY <1>0, <1>2, <2>1 DEF ReadRef, TypeOK
  <2>6. copied' = copied
    BY <1>2 DEF ReadRef
  <2>7. Store!Read(u, ref[u])
    BY <2>3, <2>4, <2>5, <2>6 DEF Store!Read, Cells
  <2> QED BY <2>1, <2>2, <2>7 DEF Store!Next
<1>3. ASSUME NEW v \in Values, WriteRef(u, v)
      PROVE  RefGood' /\ Store!Next
  <2>1. /\ ref[u] \in Blocks /\ ref[u] # Wild
        /\ blk[ref[u]].initialized /\ ref[u] = asked[u]
    BY <1>3 DEF WriteRef, UserInv, RefGood, Blocks, Wild
  <2>2. blk' = [blk EXCEPT ![ref[u]] = [@ EXCEPT !.data = v]]
    BY <1>3, <2>1 DEF WriteRef
  <2>3. /\ blk \in [Blocks -> BlockState]
        /\ asked' = [asked EXCEPT ![u] = ref[u]]
        /\ UNCHANGED <<served, seen, copied, ref>>
    BY <1>0, <1>3, <2>1 DEF WriteRef, TypeOK
  <2>4. Cells' = [Cells EXCEPT ![ref[u]] = v]
    <3> DEFINE b == ref[u]
    <3>1. b \in Blocks /\ blk[b].initialized
      BY <2>1
    <3>2. blk' = [blk EXCEPT ![b] = [@ EXCEPT !.data = v]] /\ served' = served
      BY <2>2, <2>3
    <3> HIDE DEF b
    <3>3. blk \in [Blocks -> BlockState] /\ HoldsTheSame(blk)
      BY <2>3 DEF HoldsTheSame
    <3>4. Cells' = [Cells EXCEPT ![b] = v]
      BY <3>1, <3>2, <3>3, WrittenCells
    <3> QED BY <3>4 DEF b
  <2>5. blk'[ref[u]].initialized
    BY <2>1, <2>2, <2>3 DEF BlockState
  <2>6. asked' = asked
    BY <1>3 DEF WriteRef
  <2>7. RefGood'
    BY <1>0, <2>1, <2>3, <2>5, <2>6 DEF RefGood
  <2> QED BY <2>1, <2>3, <2>4, <2>7, StoreWrite
<1>4. ASSUME NEW b \in Blocks, NEW v \in Values, NEW fault \in FaultChoice,
             SetValue(u, b, v, fault)
      PROVE  RefGood' /\ Store!Next
  <2> DEFINE g == Access(b, NoFault)
  <2>1. fault = NoFault
    BY NoFaultChoice
  <2>2. Loaded(Admin, g, b) /\ AccessOk(b, NoFault)
    BY <1>0, AccessGood
  <2>3. /\ Become([g EXCEPT !.blk[b].data = v])
        /\ ref' = [After(g.freed) EXCEPT ![u] = NoBlock]
        /\ asked' = [asked EXCEPT ![u] = b]
        /\ UNCHANGED <<served, seen, copied>>
    BY <1>4, <2>1, <2>2 DEF SetValue
  <2> HIDE DEF g
  <2>4. /\ g.blk \in [Blocks -> BlockState] /\ g.blk[b].initialized
        /\ \A c \in Blocks : Content(g.blk[c], c, served) = Content(blk[c], c, served)
    BY <2>2 DEF Loaded, Good, AdminState, SameContent, Admin
  <2>5. [g EXCEPT !.blk[b].data = v].blk = [g.blk EXCEPT ![b] = [@ EXCEPT !.data = v]]
    BY <2>2, PutData, ValuesInContents DEF Loaded
  <2>6. blk' = [g.blk EXCEPT ![b] = [@ EXCEPT !.data = v]]
    BY <2>3, <2>5 DEF Become
  <2>7. Cells' = [Cells EXCEPT ![b] = v]
    <3> DEFINE h == g.blk
    <3>1. /\ h \in [Blocks -> BlockState] /\ h[b].initialized
          /\ HoldsTheSame(h)
          /\ blk' = [h EXCEPT ![b] = [@ EXCEPT !.data = v]]
          /\ served' = served
      BY <2>3, <2>4, <2>6 DEF HoldsTheSame
    <3> HIDE DEF h
    <3> QED BY <3>1, WrittenCells
  <2>8. ref'[u] = NoBlock
    BY <1>0, <2>3 DEF After, TypeOK
  <2>9. RefGood'
    BY <1>0, <2>8 DEF RefGood
  <2> QED BY <2>3, <2>7, <2>9, StoreWrite
<1> QED BY <1>1, <1>2, <1>3, <1>4 DEF AccessNext

LEMMA WholeStep ==
  ASSUME Faults = {}, NEW u, Users = {u}, UserInv, ResizeNext(u) \/ UnloadNext(u)
  PROVE  RefGood' /\ [Store!Next]_Store!vars
<1>0. /\ GridInv /\ TypeOK /\ Good(Admin) /\ cloning[u] = NoBlock
      /\ served \in BOOLEAN
  BY DEF UserInv, GridInv, TypeOK, ResizeNext, UnloadNext, Idle
<1>1. ASSUME NEW n \in 1 .. MaxBlocks, NEW k \in 1 .. n, Prepare(u, n, k)
      PROVE  RefGood' /\ Store!Next
  <2>1. ref'[u] = NoBlock
    BY <1>0, <1>1 DEF Prepare, After, TypeOK
  <2>2. RefGood'
    BY <1>0, <1>1, <2>1 DEF RefGood, Prepare
  <2>3. Cells' = [b \in Blocks |-> IF served THEN Source[b] ELSE Undef]
    BY <1>1 DEF Prepare, Cells, Content, Fresh
  <2>4. Store!Reset
    <3>1. CASE served
      <4>1. Serves
        BY <1>0, <3>1 DEF GridInv
      <4> QED BY <1>1, <2>3, <3>1, <4>1 DEF Store!Reset, Prepare, Cells
    <3>2. CASE ~served
      BY <1>1, <2>3, <3>2 DEF Store!Reset, Prepare, Cells
    <3> QED BY <1>0, <3>1, <3>2
  <2> QED BY <2>2, <2>4 DEF Store!Next
<1>2. ASSUME NEW n \in 1 .. MaxBlocks, SetBandProperties(u, n)
      PROVE  RefGood' /\ UNCHANGED Store!vars
  <2>1. ref'[u] = NoBlock
    BY <1>0, <1>2 DEF SetBandProperties, TypeOK
  <2>2. RefGood'
    BY <1>0, <1>2, <2>1 DEF RefGood, SetBandProperties
  <2> QED BY <1>2, <2>2, StoreStutter DEF SetBandProperties, Cells
<1>3. ASSUME NEW fault \in FaultChoice, Unload(u, fault)
      PROVE  RefGood' /\ UNCHANGED Store!vars
  <2> DEFINE g == UnloadAll(Admin, NoFault)
  <2>1. Become(g) /\ ref' = [After(g.freed) EXCEPT ![u] = NoBlock]
    BY <1>3, NoFaultChoice DEF Unload
  <2>2. SameContent(Admin, g)
    BY <1>0, UnloadAllGood
  <2> HIDE DEF g
  <2>3. ref'[u] = NoBlock
    BY <1>0, <2>1 DEF After, TypeOK
  <2>4. RefGood'
    BY <1>0, <1>3, <2>3 DEF RefGood, Unload
  <2>5. Cells' = Cells
    BY <1>3, <2>1, <2>2, SameCells DEF Unload
  <2> QED BY <1>3, <2>4, <2>5, StoreStutter DEF Unload
<1> QED BY <1>1, <1>2, <1>3 DEF ResizeNext, UnloadNext

LEMMA CloneStep ==
  ASSUME Faults = {}, NEW u, Users = {u}, UserInv, CloneNext(u)
  PROVE  RefGood' /\ [Store!Next]_Store!vars
<1>0. GridInv /\ TypeOK /\ Good(Admin)
  BY DEF UserInv, GridInv
<1>1. CASE CloneStart(u)
  <2>1. ref'[u] = NoBlock
    BY <1>0, <1>1 DEF CloneStart, TypeOK
  <2>2. RefGood'
    BY <2>1 DEF RefGood
  <2>3. Store!CloneStart
    BY <1>1 DEF CloneStart, Store!CloneStart
  <2> QED BY <2>2, <2>3 DEF Store!Next
<1>2. ASSUME NEW fault \in FaultChoice, CloneBlock(u, fault)
      PROVE  RefGood' /\ Store!Next
  <2> DEFINE b == cloning[u]
             g == CloneLoaded(b)
  <2>1. /\ b \in Blocks /\ Loaded(Admin, g, b)
        /\ Become(g) /\ ref' = After(g.freed)
        /\ copied' = [copied EXCEPT ![b] = g.blk[b].data]
    BY <1>0, <1>2, CloneBlockGood
  <2>2. ref[u] = NoBlock
    <3>1. b # NoBlock
      BY <2>1 DEF Blocks, NoBlock
    <3> QED BY <3>1 DEF UserInv, RefGood
  <2> HIDE DEF b, g
  <2>3. ref'[u] = NoBlock
    <3>1. ref[u] \notin g.freed
      BY <2>1, <2>2 DEF Loaded, Good, AdminState, Blocks, NoBlock
    <3> QED BY <2>1, <2>2, <3>1 DEF After
  <2>4. RefGood'
    BY <2>3 DEF RefGood
  <2>5. Cells' = Cells
    BY <1>2, <2>1, SameCells DEF CloneBlock, Loaded
  <2>6. g.blk[b].data = Cells[b]
    <3>1. Content(g.blk[b], b, served) = Content(blk[b], b, served)
      BY <2>1 DEF Loaded, SameContent, Admin
    <3> QED BY <2>1, <3>1 DEF Loaded, Content, Cells
  <2>7. Store!CloneBlock(b)
    BY <1>2, <2>1, <2>5, <2>6 DEF Store!CloneBlock, CloneBlock, Cells
  <2> QED BY <2>1, <2>4, <2>7 DEF Store!Next
<1>3. CASE CloneDone(u)
  <2>1. nblocks # NoBlock
    BY <1>0 DEF TypeOK, NoBlock
  <2>2. RefGood'
    BY <1>3, <2>1 DEF CloneDone, RefGood, UserInv
  <2> QED BY <1>3, <2>2, StoreStutter DEF CloneDone, Cells
<1>4. ASSUME NEW fits \in BOOLEAN, UseClone(u, fits)
      PROVE  RefGood' /\ Store!Next
  <2>1. RefGood'
    BY <1>4 DEF UseClone, RefGood
  <2>2. ASSUME NEW b \in Blocks
        PROVE  Content(blk'[b], b, FALSE) = IF copied[b] = Uncopied THEN Undef
                                            ELSE copied[b]
    <3>1. blk'[b] = IF copied[b] = Uncopied THEN Fresh
                    ELSE [Fresh EXCEPT !.initialized = TRUE, !.data = copied[b]]
      BY <1>4 DEF UseClone
    <3>2. CASE copied[b] = Uncopied
      BY <3>1, <3>2 DEF Content, Fresh
    <3>3. CASE copied[b] # Uncopied
      <4>1. copied[b] \in Contents
        BY <1>0, <3>3 DEF TypeOK
      <4>2. blk'[b].initialized /\ blk'[b].data = copied[b]
        BY <3>1, <3>3, <4>1, CopyGood
      <4> QED BY <3>3, <4>2 DEF Content
    <3> QED BY <3>2, <3>3
  <2>3. Cells' = [b \in Blocks |-> IF copied[b] = Uncopied THEN Undef ELSE copied[b]]
    BY <1>4, <2>2 DEF Cells, UseClone
  <2>4. Store!UseClone
    BY <1>4, <2>3 DEF UseClone, Store!UseClone, Cells
  <2> QED BY <2>1, <2>4 DEF Store!Next
<1> QED BY <1>1, <1>2, <1>3, <1>4 DEF CloneNext

LEMMA UserInvStep ==
  ASSUME Faults = {}, NEW u, Users = {u}, UserInv, [UsersNext]_vars
  PROVE  UserInv' /\ [Store!Next]_Store!vars
<1>1. GridInv'
  BY GridInvStep DEF UserInv
<1>2. CASE UserNext(u)
  BY <1>1, <1>2, CellsStep, WholeStep, CloneStep DEF UserNext, UserInv
<1>3. CASE UNCHANGED vars
  <2>1. RefGood'
    BY <1>3 DEF vars, RefGood, UserInv
  <2>2. UNCHANGED Store!vars
    BY <1>3, StoreStutter DEF vars, Cells
  <2> QED BY <1>1, <2>1, <2>2 DEF UserInv
<1> QED BY <1>2, <1>3 DEF UsersNext

(* When no I/O fails, the grid implements RasterStore for one user: he     *)
(* reads what he wrote last, through swapping, lazy loading, unloading,    *)
(* cloning and resizing, and a reference from Grid::value leads to the     *)
(* block it was asked for.                                                 *)
THEOREM GridIsStore ==
    Faults = {} /\ (\E u : Users = {u}) => (UserSpec => IsRasterStore)
<1> SUFFICES ASSUME Faults = {}, NEW u, Users = {u}
             PROVE  UserSpec => IsRasterStore
  OBVIOUS
<1>1. Init => UserInv
  <2> SUFFICES ASSUME Init PROVE UserInv
    OBVIOUS
  <2>1. RefGood
    BY DEF Init, RefGood
  <2> QED BY <2>1, GridInvInit DEF UserInv
<1>2. Init => Store!Init
  <2> SUFFICES ASSUME Init PROVE Store!Init
    OBVIOUS
  <2>1. Cells = [b \in Blocks |-> IF Serves THEN Source[b] ELSE Undef]
    BY ServesAssumption DEF Init, Cells, Content, Fresh
  <2> QED BY <2>1, ContentsHasMarks DEF Init, Store!Init, Cells
<1>3. UserInv /\ [UsersNext]_vars => UserInv' /\ [Store!Next]_Store!vars
  BY UserInvStep
<1> QED BY <1>1, <1>2, <1>3, PTL DEF UserSpec, IsRasterStore, Store!Spec

-----------------------------------------------------------------------------
(* Swap files that do not open or are cut short take no data away, for     *)
(* every number of blocks and users: as long as there is memory, a block   *)
(* that is "in memory" has its cells, and only such a block is swapped.    *)

(* The failures of swap files; a failing allocation is not one of them.    *)
OnlyFiles == Faults \cap {"noMemory", "noMemoryTwice"} = {}

(* The first conjunct is what NothingHalfSaved rests on: save2Cache() of a *)
(* block without cells would make an empty file for it.                    *)
SafeBlock(r) == /\ r.inMemory => r.initialized
                /\ ~r.initialized => r.swap # Short

SafeStates == {g \in AdminState : \A b \in Blocks : SafeBlock(g.blk[b])}

BlocksSafe == \A b \in Blocks : SafeBlock(blk[b])
Safe == TypeOK /\ BlocksSafe

LEMMA ShortIsNoContent == Short \notin Contents /\ Short # Never
BY SourceAssumption, ValuesAssumption DEF Contents, Short, Never, Undef, Torn

-----------------------------------------------------------------------------
(* One block.                                                              *)

LEMMA SaveSafe ==
  ASSUME NEW r \in BlockState, SafeBlock(r), NEW fault
  PROVE  SafeBlock(Save(r, fault))
<1>1. CASE ~r.inMemory
  BY <1>1 DEF Save
<1>2. CASE r.inMemory /\ fault = "saveOpen"
  BY <1>2 DEF Save, SafeBlock, BlockState
<1>3. CASE r.inMemory /\ fault # "saveOpen" /\ fault = "saveShort"
  BY <1>3 DEF Save, SafeBlock, BlockState
<1>4. CASE r.inMemory /\ fault # "saveOpen" /\ fault # "saveShort"
  <2>1. Save(r, fault) = [inMemory |-> FALSE, initialized |-> FALSE,
                          data |-> Undef, swap |-> r.data]
    BY <1>4 DEF Save, SafeBlock
  <2>2. r.data # Short
    BY ShortIsNoContent DEF BlockState
  <2> QED BY <2>1, <2>2 DEF SafeBlock
<1> QED BY <1>1, <1>2, <1>3, <1>4

LEMMA ReadSwapSafe ==
  ASSUME NEW r \in BlockState, SafeBlock(r), NEW fault
  PROVE  SafeBlock(ReadSwap(r, fault))
<1>1. ReadSwap(r, fault) \in {r, [r EXCEPT !.inMemory = FALSE, !.data = Torn],
                              [r EXCEPT !.data = r.swap]}
  BY DEF ReadSwap
<1> QED BY <1>1 DEF SafeBlock, BlockState

LEMMA FillSafe ==
  ASSUME NEW r \in BlockState, NEW v \in Contents, NEW fault
  PROVE  SafeBlock(Fill(r, v, fault))
<1> DEFINE p == [Blank(r) EXCEPT !.inMemory = TRUE]
<1>1. p \in BlockState
  BY BlankType DEF BlockState
<1>2. ReadSwap(p, fault) \in BlockState
  BY <1>1, ReadSwapType
<1> QED BY <1>2 DEF Fill, BlockState, SafeBlock

-----------------------------------------------------------------------------
(* The administration of the grid.                                         *)

LEMMA PutSafe ==
  ASSUME NEW g \in SafeStates, NEW b \in Blocks, NEW r \in BlockState, SafeBlock(r)
  PROVE  [g EXCEPT !.blk[b] = r] \in SafeStates
<1>1. [g EXCEPT !.blk[b] = r] \in AdminState
  BY PutType DEF SafeStates
<1>2. \A c \in Blocks : [g EXCEPT !.blk[b] = r].blk[c] = IF c = b THEN r ELSE g.blk[c]
  BY DEF SafeStates, AdminState
<1> QED BY <1>1, <1>2 DEF SafeStates

LEMMA SaveBlockSafe ==
  ASSUME NEW g \in SafeStates, NEW b \in Blocks, NEW fault
  PROVE  SaveBlock(g, b, fault) \in SafeStates /\ SaveBlock(g, b, fault).cache = g.cache
<1>1. SaveBlock(g, b, fault) \in AdminState
  BY SaveBlockType DEF SafeStates
<1>2. g.blk[b] \in BlockState /\ SafeBlock(g.blk[b])
  BY DEF SafeStates, AdminState
<1>3. \A c \in Blocks : SaveBlock(g, b, fault).blk[c] =
                          IF c = b THEN Save(g.blk[b], fault) ELSE g.blk[c]
  BY DEF SaveBlock, SafeStates, AdminState
<1>4. SaveBlock(g, b, fault).cache = g.cache
  BY DEF SaveBlock, SafeStates, AdminState
<1> QED BY <1>1, <1>2, <1>3, <1>4, SaveSafe DEF SafeStates

LEMMA PushSafe ==
  ASSUME NEW g \in SafeStates, NEW b \in Blocks
  PROVE  Push(g, b) \in SafeStates /\ Push(g, b).cache # <<>>
<1>1. Push(g, b) \in AdminState /\ Push(g, b).cache # <<>>
  BY PushType DEF SafeStates
<1>2. Push(g, b).blk = g.blk
  BY DEF Push, SafeStates, AdminState
<1> QED BY <1>1, <1>2 DEF SafeStates

LEMMA DropLastSafe ==
  ASSUME NEW g \in SafeStates, g.cache # <<>>
  PROVE  DropLast(g) \in SafeStates
<1>1. DropLast(g) \in AdminState
  BY DropLastType DEF SafeStates
<1>2. DropLast(g).blk = g.blk
  BY DEF DropLast, SafeStates, AdminState
<1> QED BY <1>1, <1>2 DEF SafeStates

LEMMA ListNewSafe ==
  ASSUME NEW g \in SafeStates, NEW b \in Blocks, NEW fault
  PROVE  ListNew(g, b, fault) \in SafeStates
<1>1. CASE g.cache # <<>> /\ b > g.imi
  <2>1. Last(g.cache) \in Blocks
    BY <1>1, LastType DEF SafeStates, AdminState
  <2>2. DropLast(SaveBlock(g, Last(g.cache), fault)) \in SafeStates
    BY <1>1, <2>1, SaveBlockSafe, DropLastSafe
  <2> QED BY <1>1, <2>2, PushSafe DEF ListNew
<1>2. CASE ~(g.cache # <<>> /\ b > g.imi)
  BY <1>2, PushSafe DEF ListNew
<1> QED BY <1>1, <1>2

LEMMA ListAgainSafe ==
  ASSUME NEW g \in SafeStates, NEW b \in Blocks, NEW fault
  PROVE  ListAgain(g, b, fault) \in SafeStates
<1> DEFINE index == IndexOf(g.cache, b)
           kept == [g EXCEPT !.cache = IF index >= 0
                                       THEN RemoveFirst(@, index) ELSE @]
           pushed == Push(kept, b)
           last == Last(pushed.cache)
           saved == SaveBlock(pushed, last, fault)
<1>1. kept \in SafeStates
  <2>1. kept \in AdminState /\ kept.blk = g.blk
    BY RemoveFirstType DEF SafeStates, AdminState
  <2> QED BY <2>1 DEF SafeStates
<1>2. pushed \in SafeStates /\ pushed.cache # <<>>
  BY <1>1, PushSafe
<1>3. last \in Blocks
  BY <1>2, LastType DEF SafeStates, AdminState
<1>4. saved \in SafeStates /\ saved.cache = pushed.cache
  BY <1>2, <1>3, SaveBlockSafe
<1>5. DropLast(saved) \in SafeStates
  BY <1>2, <1>4, DropLastSafe
<1>6. ListAgain(g, b, fault) \in {DropLast(saved), saved, pushed}
  BY DEF ListAgain
<1> QED BY <1>2, <1>4, <1>5, <1>6

LEMMA ListSafe ==
  ASSUME NEW g \in SafeStates, NEW b \in Blocks, NEW creation, NEW fault
  PROVE  List(g, b, creation, fault) \in SafeStates
BY ListNewSafe, ListAgainSafe DEF List

LEMMA NeedDataSafe ==
  ASSUME NEW g \in SafeStates, NEW b \in Blocks, NEW fault
  PROVE  NeedData(g, b, fault) \in SafeStates
<1> DEFINE listed == IF allInMemory THEN g ELSE ListNew(g, b, fault)
<1>1. listed \in SafeStates
  BY ListNewSafe
<1>2. /\ Fill(listed.blk[b], Source[b], fault) \in BlockState
      /\ SafeBlock(Fill(listed.blk[b], Source[b], fault))
  BY <1>1, FillType, FillSafe, SourceInContents DEF SafeStates, AdminState
<1>3. [listed EXCEPT !.blk[b] = Fill(@, Source[b], fault)] \in SafeStates
  BY <1>1, <1>2, PutSafe
<1> QED BY <1>3 DEF NeedData

(* The state while a block is made ready: all the others are safe, and it  *)
(* has its cells.                                                          *)
LEMMA BlankInSafe ==
  ASSUME NEW g \in SafeStates, NEW b \in Blocks, NEW r \in BlockState
  PROVE  [g EXCEPT !.blk[b] = Blank(r)] \in SafeStates
<1>1. Blank(r) \in BlockState /\ Blank(r).initialized
  BY BlankType DEF Blank, BlockState
<1> QED BY <1>1, PutSafe DEF SafeBlock

LEMMA LoadSafe ==
  ASSUME NEW g \in SafeStates, NEW b \in Blocks, NEW fault
  PROVE  Load(g, b, fault) \in SafeStates
<1> DEFINE r == [g.blk[b] EXCEPT !.inMemory = TRUE]
           p == Prepared(g, b, fault)
<1>1. r \in BlockState
  BY DEF SafeStates, AdminState, BlockState
<1>2. p \in SafeStates
  <2>1. CASE r.initialized
    <3>1. [g EXCEPT !.blk[b] = r] \in SafeStates
      BY <1>1, <2>1, PutSafe DEF SafeBlock
    <3> QED BY <2>1, <3>1 DEF Prepared
  <2>2. CASE ~r.initialized
    <3>1. NeedData([g EXCEPT !.blk[b] = Blank(r)], b, fault) \in SafeStates
      BY <1>1, BlankInSafe, NeedDataSafe
    <3> QED BY <2>2, <3>1 DEF Prepared
  <2> QED BY <2>1, <2>2
<1>3. p.blk[b] \in BlockState /\ SafeBlock(p.blk[b])
  BY <1>2 DEF SafeStates, AdminState
<1>4. Load(g, b, fault) = [p EXCEPT !.blk[b] = ReadSwap(p.blk[b], fault)]
  BY DEF Load
<1> QED BY <1>2, <1>3, <1>4, ReadSwapType, ReadSwapSafe, PutSafe

LEMMA AtSafe ==
  ASSUME NEW g \in SafeStates, NEW b \in Blocks, NEW fault
  PROVE  At(g, b, fault) \in SafeStates
<1> DEFINE r == g.blk[b]
           p == [Blank(r) EXCEPT !.inMemory = TRUE]
           back == ReadSwap(p, fault)
<1>1. r \in BlockState
  BY DEF SafeStates, AdminState
<1>2. p \in BlockState /\ SafeBlock(p)
  BY <1>1, BlankType DEF Blank, BlockState, SafeBlock
<1>3. [g EXCEPT !.blk[b] = back] \in SafeStates
  BY <1>2, ReadSwapType, ReadSwapSafe, PutSafe
<1>4. NeedData([g EXCEPT !.blk[b] = Blank(r)], b, fault) \in SafeStates
  BY <1>1, BlankInSafe, NeedDataSafe
<1>5. At(g, b, fault) \in {g, [g EXCEPT !.blk[b] = back],
                           NeedData([g EXCEPT !.blk[b] = Blank(r)], b, fault)}
  BY DEF At
<1> QED BY <1>3, <1>4, <1>5

LEMMA UnloadAllSafe ==
  ASSUME NEW g \in SafeStates, NEW fault
  PROVE  UnloadAll(g, fault) \in SafeStates
<1>1. UnloadAll(g, fault) \in AdminState
  BY UnloadAllType DEF SafeStates
<1>2. \A b \in Blocks : UnloadAll(g, fault).blk[b] = Save(g.blk[b], fault)
  BY DEF UnloadAll
<1>3. \A b \in Blocks : g.blk[b] \in BlockState /\ SafeBlock(g.blk[b])
  BY DEF SafeStates, AdminState
<1> QED BY <1>1, <1>2, <1>3, SaveSafe DEF SafeStates

LEMMA AdminSafe ==
  ASSUME Safe
  PROVE  Admin \in SafeStates
BY AdminType DEF Safe, BlocksSafe, SafeStates, Admin

(* As long as there is memory for the block nothing else is unloaded.      *)
LEMMA RoomIsThere ==
  ASSUME OnlyFiles, NEW b, NEW fault \in FaultChoice
  PROVE  Room(b, fault) = Admin /\ ~UpdateThrows(b, fault)
<1>1. fault \notin {"noMemory", "noMemoryTwice"}
  BY DEF OnlyFiles, FaultChoice, NoFault
<1> QED BY <1>1 DEF Room, UpdateThrows, NoRoom

LEMMA UpdatedSafe ==
  ASSUME OnlyFiles, Safe, NEW b \in Blocks, NEW creation, NEW fault \in FaultChoice
  PROVE  Updated(b, creation, fault) \in SafeStates
<1> DEFINE loaded == IF blk[b].inMemory THEN Admin ELSE Load(Admin, b, fault)
<1>1. Load(Admin, b, fault) \in SafeStates /\ loaded \in SafeStates
  BY AdminSafe, LoadSafe
<1>2. List(loaded, b, creation, fault) \in SafeStates
  BY <1>1, ListSafe
<1>3. Updated(b, creation, fault) \in {Load(Admin, b, fault), List(loaded, b, creation, fault)}
  BY RoomIsThere DEF Updated
<1> QED BY <1>1, <1>2, <1>3

LEMMA AccessSafe ==
  ASSUME OnlyFiles, Safe, NEW b \in Blocks, NEW fault \in FaultChoice
  PROVE  Access(b, fault) \in SafeStates
<1>1. At(Admin, b, fault) \in SafeStates
  BY AdminSafe, AtSafe
<1>2. Updated(b, FALSE, fault) \in SafeStates
  BY UpdatedSafe
<1>3. At(Updated(b, FALSE, fault), b, fault) \in SafeStates
  BY <1>2, AtSafe
<1> QED BY <1>1, <1>2, <1>3 DEF Access

-----------------------------------------------------------------------------
(* The actions.                                                            *)

LEMMA BecomeSafe ==
  ASSUME NEW g \in SafeStates, Become(g)
  PROVE  BlocksSafe'
BY DEF SafeStates, Become, BlocksSafe

LEMMA WriteSafe ==
  ASSUME NEW r \in BlockState, SafeBlock(r), NEW v \in Contents
  PROVE  [r EXCEPT !.data = v] \in BlockState /\ SafeBlock([r EXCEPT !.data = v])
BY DEF BlockState, SafeBlock

LEMMA AccessKeepsSafe ==
  ASSUME OnlyFiles, Safe, NEW u \in Users, AccessNext(u)
  PROVE  BlocksSafe'
<1>1. ASSUME NEW b \in Blocks, NEW fault \in FaultChoice, Value(u, b, fault)
      PROVE  BlocksSafe'
  BY <1>1, AccessSafe, AdminSafe, BecomeSafe DEF Value
<1>2. CASE ReadRef(u)
  BY <1>2 DEF ReadRef, Safe, BlocksSafe
<1>3. ASSUME NEW v \in Values, WriteRef(u, v)
      PROVE  BlocksSafe'
  <2>1. \A b \in Blocks : blk[b] \in BlockState /\ SafeBlock(blk[b])
    BY DEF Safe, BlocksSafe, TypeOK
  <2>2. blk \in [Blocks -> BlockState]
    BY DEF Safe, TypeOK
  <2>3. \A b \in Blocks : blk'[b] \in {blk[b], [blk[b] EXCEPT !.data = v]}
    BY <1>3, <2>2 DEF WriteRef
  <2> QED BY <2>1, <2>3, WriteSafe, ValuesInContents DEF BlocksSafe
<1>4. ASSUME NEW b \in Blocks, NEW v \in Values, NEW fault \in FaultChoice,
             SetValue(u, b, v, fault)
      PROVE  BlocksSafe'
  <2> DEFINE ok == AccessOk(b, fault)
             g == IF Direct(b) /\ ~ok THEN Admin ELSE Access(b, fault)
             done == IF ok THEN [g EXCEPT !.blk[b].data = v] ELSE g
  <2>1. g \in SafeStates
    BY AccessSafe, AdminSafe
  <2>2. Become(done)
    BY <1>4 DEF SetValue
  <2> HIDE DEF g, ok
  <2>3. g.blk[b] \in BlockState /\ SafeBlock(g.blk[b])
    BY <2>1 DEF SafeStates, AdminState
  <2>4. [g EXCEPT !.blk[b] = [g.blk[b] EXCEPT !.data = v]] \in SafeStates
    BY <2>1, <2>3, WriteSafe, ValuesInContents, PutSafe
  <2>5. done \in SafeStates
    BY <2>1, <2>4
  <2> HIDE DEF done
  <2> QED BY <2>2, <2>5, BecomeSafe
<1> QED BY <1>1, <1>2, <1>3, <1>4 DEF AccessNext

LEMMA ConnectorKeepsSafe ==
  ASSUME OnlyFiles, Safe, ConnectorFill \/ ConnectorMemory
  PROVE  BlocksSafe'
<1>1. ASSUME NEW u \in Users, NEW b \in Blocks, NEW v \in Values, NEW creation \in Creations,
             NEW fault \in FaultChoice, SetBlockData(u, b, v, creation, fault)
      PROVE  BlocksSafe'
  <2> DEFINE g == IF allInMemory THEN Admin ELSE Updated(b, creation, fault)
             front == IF allInMemory THEN b ELSE Head(g.cache)
             ok == allInMemory \/ (UpdateOk(b, fault) /\ ~UpdateThrows(b, fault))
             done == IF ok THEN [g EXCEPT !.blk[front] = Fill(@, v, fault)] ELSE g
  <2>1. g \in SafeStates
    BY UpdatedSafe, AdminSafe
  <2>2. Become(done)
    BY <1>1 DEF SetBlockData
  <2> HIDE DEF g, ok, front
  <2>3. done \in SafeStates
    <3>1. CASE front \in Blocks
      <4>1. g.blk[front] \in BlockState
        BY <2>1, <3>1 DEF SafeStates, AdminState
      <4>2. [g EXCEPT !.blk[front] = Fill(g.blk[front], v, fault)] \in SafeStates
        BY <2>1, <3>1, <4>1, FillType, FillSafe, PutSafe, ValuesInContents
      <4> QED BY <2>1, <4>2
    <3>2. CASE front \notin Blocks
      <4>1. [g EXCEPT !.blk[front] = Fill(@, v, fault)] = g
        BY <2>1, <3>2 DEF SafeStates, AdminState
      <4> QED BY <2>1, <4>1
    <3> QED BY <3>1, <3>2
  <2> HIDE DEF done
  <2> QED BY <2>2, <2>3, BecomeSafe
<1>2. ASSUME NEW u \in Users, NEW b \in Blocks, NEW creation \in Creations,
             NEW fault \in FaultChoice, BlockAsMemory(u, b, creation, fault)
      PROVE  BlocksSafe'
  <2> DEFINE g == IF allInMemory THEN Admin ELSE Updated(b, creation, fault)
             ok == allInMemory \/ (UpdateOk(b, fault) /\ ~UpdateThrows(b, fault))
             found == CASE allInMemory -> b
                        [] ~allInMemory /\ b < Len(g.cache) -> g.cache[b + 1]
                        [] OTHER -> Wild
             done == IF ok /\ found # Wild THEN At(g, found, fault) ELSE g
  <2>1. g \in SafeStates
    BY UpdatedSafe, AdminSafe
  <2>2. found \in Blocks \cup {Wild}
    <3>1. b < Len(g.cache) => g.cache[b + 1] \in Blocks
      <4>1. g.cache \in Seq(Blocks) /\ b \in Nat
        BY <2>1 DEF SafeStates, AdminState, Blocks
      <4> HIDE DEF g
      <4> QED BY <4>1
    <3> QED BY <3>1
  <2>3. Become(done)
    BY <1>2 DEF BlockAsMemory
  <2> HIDE DEF g, ok, found
  <2>4. done \in SafeStates
    BY <2>1, <2>2, AtSafe
  <2> HIDE DEF done
  <2> QED BY <2>3, <2>4, BecomeSafe
<1> QED BY <1>1, <1>2 DEF ConnectorFill, ConnectorMemory

LEMMA FreshSafe ==
  /\ SafeBlock(Fresh)
  /\ \A c : SafeBlock([Fresh EXCEPT !.initialized = TRUE, !.data = c])
BY ShortIsNoContent DEF Fresh, SafeBlock

LEMMA ResizeKeepsSafe ==
  ASSUME Safe, NEW u \in Users, ResizeNext(u)
  PROVE  BlocksSafe'
<1>1. ASSUME NEW n, NEW k, Prepare(u, n, k)
      PROVE  BlocksSafe'
  BY <1>1, FreshSafe DEF Prepare, BlocksSafe
<1>2. ASSUME NEW n, SetBandProperties(u, n)
      PROVE  BlocksSafe'
  BY <1>2 DEF SetBandProperties, Safe, BlocksSafe
<1> QED BY <1>1, <1>2 DEF ResizeNext

LEMMA UnloadKeepsSafe ==
  ASSUME Safe, NEW u \in Users, UnloadNext(u)
  PROVE  BlocksSafe'
BY AdminSafe, UnloadAllSafe, BecomeSafe DEF UnloadNext, Unload

LEMMA CloneKeepsSafe ==
  ASSUME Safe, NEW u \in Users, CloneNext(u)
  PROVE  BlocksSafe'
<1>1. CASE CloneStart(u) \/ CloneDone(u)
  BY <1>1 DEF CloneStart, CloneDone, Safe, BlocksSafe
<1>2. ASSUME NEW fault \in FaultChoice, CloneBlock(u, fault)
      PROVE  BlocksSafe'
  <2> DEFINE b == cloning[u]
             g == CASE ~blk[b].inMemory -> Load(Admin, b, fault)
                    [] blk[b].inMemory /\ ~blk[b].initialized -> NeedData(Admin, b, fault)
                    [] OTHER -> Admin
  <2>1. b \in Blocks
    BY <1>2, BoundsAssumption DEF CloneBlock, Live, Safe, TypeOK, Blocks
  <2>2. g \in SafeStates
    BY <2>1, AdminSafe, LoadSafe, NeedDataSafe
  <2>3. Become(g)
    BY <1>2 DEF CloneBlock
  <2> HIDE DEF g
  <2> QED BY <2>2, <2>3, BecomeSafe
<1>3. ASSUME NEW fits, UseClone(u, fits)
      PROVE  BlocksSafe'
  BY <1>3, FreshSafe DEF UseClone, BlocksSafe
<1> QED BY <1>1, <1>2, <1>3 DEF CloneNext

(* Whatever happens to the swap files, a block whose memory was given back *)
(* is in its file as a whole, or was never used: for any number of users,  *)
(* with connectors that fill blocks and take their memory (save2Cache()).  *)
THEOREM NothingIsHalfSaved == OnlyFiles => (Spec => []NothingHalfSaved)
<1> SUFFICES ASSUME OnlyFiles PROVE Spec => []NothingHalfSaved
  OBVIOUS
<1>1. Init => BlocksSafe
  BY FreshSafe DEF Init, BlocksSafe
<1>2. TypeOK /\ BlocksSafe /\ [Next]_vars => BlocksSafe'
  <2> SUFFICES ASSUME TypeOK, BlocksSafe, [Next]_vars PROVE BlocksSafe'
    OBVIOUS
  <2>1. Safe
    BY DEF Safe
  <2>2. CASE UsersNext
    BY <2>1, <2>2, AccessKeepsSafe, ResizeKeepsSafe, UnloadKeepsSafe, CloneKeepsSafe
       DEF UsersNext, UserNext
  <2>3. CASE ConnectorFill \/ ConnectorMemory
    BY <2>1, <2>3, ConnectorKeepsSafe
  <2>4. CASE UNCHANGED vars
    BY <2>4 DEF vars, BlocksSafe
  <2> QED BY <2>2, <2>3, <2>4 DEF Next
<1>3. BlocksSafe => NothingHalfSaved
  BY DEF BlocksSafe, SafeBlock, NothingHalfSaved
<1> QED BY <1>1, <1>2, <1>3, TypeCorrect, PTL DEF Spec
==============================================================================
