---------------------------- MODULE MCSnapshots ----------------------------
(* Snapshots of a region of two pages and one of a page.  The addresses lie  *)
(* above the sizes of all regions.                                           *)
EXTENDS Snapshots

CONSTANTS C1, C2

MCPage == 3 .. 5
MCMaps == {[page |-> 3, size |-> 2, ptr |-> FALSE, wr |-> TRUE],
           [page |-> 5, size |-> 1, ptr |-> FALSE, wr |-> FALSE]}
MCUnmaps == {<<3, 2>>, <<4, 1>>, <<5, 1>>}
MCWrites == {<<3, 0, 1>>, <<3, 1, 2>>, <<4, 1, 1>>, <<5, 0, 1>>}
=============================================================================
