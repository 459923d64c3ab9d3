--------------------------- MODULE MCEHashtable ---------------------------
(***************************************************************************)
(* Instances of EHashtable for TLC: two buckets, of which one is shared by *)
(* three keys, two of them with the same 8-bit hash.                       *)
(***************************************************************************)
EXTENDS EHashtable

MCHash == [k \in Keys |-> IF k = 4 THEN 1 ELSE 0]
MCKeyHash == [k \in Keys |-> IF k = 3 THEN 1 ELSE 0]
=============================================================================
