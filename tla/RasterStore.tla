----------------------------- MODULE RasterStore -----------------------------
(***************************************************************************)
(* What a Grid (core/ilwisobjects/coverage/grid.h) promises to the code    *)
(* that uses a raster: a block of cells is a piece of memory.  It holds    *)
(* what was last written to it, whatever the grid does behind the scenes   *)
(* with swap files, lazy loading and its list of recently used blocks.     *)
(*                                                                         *)
(* All cells of a block are treated alike, so that one value stands for    *)
(* the contents of a block.                                                *)
(***************************************************************************)
EXTENDS Integers

CONSTANTS Blocks,    \* the block numbers of the raster
          NoBlock,
          Users,     \* code that reads and writes cells
          Values,    \* what can be written to a block
          Contents,  \* what a block can hold
          Initial,   \* [Blocks -> Contents]: what the blocks hold at first
          Empty,     \* [Blocks -> Contents]: blocks without any data
          Uncopied   \* stands for a block that was not cloned

VARIABLES content,   \* content[b]: what block b holds
          asked,     \* asked[u]: the block u asked for last
          seen,      \* seen[u]: what user u read last
          copied     \* copied[b]: what the clone of the raster holds

vars == <<content, asked, seen, copied>>

Init == /\ content = Initial
        /\ asked = [u \in Users |-> NoBlock]
        /\ seen \in [Users -> Contents]
        /\ copied = [b \in Blocks |-> Uncopied]

Ask(u, b) == /\ asked' = [asked EXCEPT ![u] = b]
             /\ UNCHANGED <<content, seen, copied>>

Write(u, b, v) == /\ asked' = [asked EXCEPT ![u] = b]
                  /\ content' = [content EXCEPT ![b] = v]
                  /\ UNCHANGED <<seen, copied>>

Read(u, b) == /\ asked' = [asked EXCEPT ![u] = b]
              /\ seen' = [seen EXCEPT ![u] = content[b]]
              /\ UNCHANGED <<content, copied>>

(* A clone is made block by block; it can take the place of the raster.    *)
CloneStart == /\ copied' = [b \in Blocks |-> Uncopied]
              /\ UNCHANGED <<content, asked, seen>>

CloneBlock(b) == /\ copied' = [copied EXCEPT ![b] = content[b]]
                 /\ UNCHANGED <<content, asked, seen>>

UseClone == /\ content' = [b \in Blocks |-> IF copied[b] = Uncopied THEN Empty[b]
                                            ELSE copied[b]]
            /\ UNCHANGED <<asked, seen, copied>>

(* The raster gets a new size: every block starts anew.                    *)
Reset == /\ content' \in {Initial, Empty}
         /\ UNCHANGED <<asked, seen, copied>>

Next == \/ \E u \in Users, b \in Blocks :
              \/ Ask(u, b)
              \/ Read(u, b)
              \/ \E v \in Values : Write(u, b, v)
        \/ CloneStart
        \/ \E b \in Blocks : CloneBlock(b)
        \/ UseClone
        \/ Reset

Spec == Init /\ [][Next]_vars
==============================================================================
