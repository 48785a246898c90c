----------------------------- MODULE MCGridCache -----------------------------
(* Small instances of GridCache for TLC.                                   *)
EXTENDS GridCache

CONSTANTS u1, v1

(* What the connector loads differs from block to block.                   *)
BlockSource == [b \in Blocks |-> <<"source0", "source1", "source2", "source3">>[b + 1]]
==============================================================================
