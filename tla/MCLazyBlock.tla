----------------------------- MODULE MCLazyBlock -----------------------------
(* Two or three threads that use one block.                                *)
EXTENDS LazyBlock

CONSTANTS t1, t2, t3, v1, source
==============================================================================
