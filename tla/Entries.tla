------------------------------ MODULE Entries ------------------------------
(***************************************************************************)
(* What a machine's store holds for a key, and what one put does to it:    *)
(* the effect of KV_store::put and KV_store::get (memtables/memtable.cpp)  *)
(* taken as one step each.  MemTable shows that the lock-free code behaves *)
(* so; ABD builds on it.                                                   *)
(***************************************************************************)
EXTENDS Lamport

CONSTANT NoValue        \* no value: an absent key

\* KV_store::get of a key that is not in the skip list.
Absent == [clock |-> MinClock, val |-> NoValue]

\* Variant with a fault: the first put of a key wins.
Newer_FirstWins(old, c) == old.val = NoValue

\* Variant with a fault: whatever comes last wins.
Newer_LastWins(old, c) == TRUE

\* A put replaces an absent entry, or one with a smaller clock.
Newer(old, c) == old.val = NoValue \/ Less(old.clock, c)

Put(old, c, v) == IF Newer(old, c) THEN [clock |-> c, val |-> v] ELSE old
=============================================================================
