--------------------------- MODULE MCCatalogTables ---------------------------
(* CatalogTables on small instances.                                       *)
EXTENDS CatalogTables, TLC

CONSTANTS u1, u2, p1, p2

TwoUrls == {u1, u2}
TwoPlaces == {p1, p2}

SameUrls == Permutations(Urls) \cup Permutations(Places)

(* Bound: once every url is touched nothing is claimed any more.            *)
MCNext == touched # Urls /\ Next
MCSpec == Init /\ [][MCNext]_vars
=============================================================================
