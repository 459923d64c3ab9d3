---------------------------- MODULE MCPlacement ----------------------------
(* Two to five machines, and a key   for each of the ten groups of five.   *)
EXTENDS Placement

MCClusterSizes == 2 .. 5
MCKeys == 0 .. 10
=============================================================================
