---------------------------- MODULE MCCatalogDump ----------------------------
(* Two files and two internal resources, in sessions without an end.       *)
EXTENDS CatalogDump

CONSTANTS f1, f2, n1, n2
==============================================================================
