------------------------------ MODULE Lamport ------------------------------
(***************************************************************************)
(* The logical clocks of the store (src/include/protocol/abd/lamport.h): a *)
(* counter and the id of the machine that stamped the write, compared as   *)
(* one unsigned integer.  The code has 32 bits for each part; here the     *)
(* two widths are the parameters CountMod and MIdMod, so that TLC reaches  *)
(* the wrap-around of the counter.                                         *)
(***************************************************************************)
EXTENDS Integers

CONSTANTS CountMod,     \* 2^32 in the code: the counter is a uint32_t
          MIdMod        \* 2^32 in the code: so is the machine id

ASSUME WidthAssumption == CountMod \in Nat \ {0} /\ MIdMod \in Nat \ {0}

Count == 0 .. CountMod - 1
MachineId == 0 .. MIdMod - 1
Clock == [count : Count, m_id : MachineId]

\* Lamport::min(), which is also the clock kv.get returns for an absent key.
MinClock == [count |-> 0, m_id |-> 0]

\* The counter in the high half of the integer, the machine id in the low half.
to_int(l) == l.count * MIdMod + l.m_id

\* The relational operators of the class, all defined through to_int.
Less(a, b) == to_int(a) < to_int(b)
Leq(a, b) == to_int(a) =< to_int(b)
Later(a, b) == IF Less(a, b) THEN b ELSE a

\* Variant with a fault: a counter without the wrap of its type.
Stamp_NoWrap(max, id) == [count |-> max + 1, m_id |-> id]

\* The stamp of a new write: max + 1 in Count_t, which wraps, and our own id.
Stamp(max, id) == [count |-> (max + 1) % CountMod, m_id |-> id]
=============================================================================
