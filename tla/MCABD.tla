------------------------------- MODULE MCABD -------------------------------
(***************************************************************************)
(* Instances of ABD for TLC: three machines (four where a key must have a  *)
(* machine outside its group), NThreads threads each, and small traces.    *)
(***************************************************************************)
EXTENDS ABD

CONSTANTS NNodes, NThreads, NOps, NIds

MCNode == 1 .. NNodes
MCThread == MCNode \X (0 .. NThreads - 1)
MCNodeOf == [t \in MCThread |-> t[1]]
MCPeer == [t \in MCThread |-> [n \in MCNode |-> <<n, t[2]>>]]
MCMId == [n \in MCNode |-> ((n - 1) % NIds) + 1]
MCOp == 1 .. NOps
MCKey == {"k"}
MCGroup == [k \in MCKey |-> 1 .. 3]

Bench(n, i, kind) == [thread |-> <<n, i>>, kind |-> kind, key |-> "k", client |-> FALSE]
Client(n, i, kind) == [thread |-> <<n, i>>, kind |-> kind, key |-> "k", client |-> TRUE]

\* Two puts of one machine, or of two; a put against a get; and a machine that
\* is not in the group and skips.
PairTraces ==
  {<<Bench(1, 0, "put"), Bench(n, 0, "put")>> : n \in {1, 2}}
    \cup {<<Bench(1, 0, "put"), Bench(2, 0, "get")>>}
    \cup {<<Bench(4, 0, "get"), Bench(4, 0, "put")>>}

\* A put and a get of one machine, and a get of another whose write-back the
\* first one's get may meet; or two puts with a get between them, whose
\* write-back of the first may arrive after the second.
PutGetTraces ==
  {<<Bench(1, 0, "put"), Bench(2, 0, "get"), Bench(1, 0, "get")>>,
   <<Bench(1, 0, "put"), Bench(1, 0, "get"), Bench(1, 0, "put")>>}

\* Two threads of machine 1, or one thread of it with two puts under way or
\* with a continuation inside another, or two machines, of which 1 and 3 have
\* the same id, or machine 4, which is not in the group; clients call too.
ThreadTraces ==
  {<<Bench(1, 0, "put"), Bench(1, 1, kind)>> : kind \in {"put", "get"}}
    \cup {<<Bench(1, 0, "put"), Bench(n, 0, "put")>> : n \in 1 .. 3}
    \cup {<<Client(1, 0, "put"), Client(1, 0, kind)>> : kind \in {"put", "get"}}
    \cup {<<Bench(4, 0, "put"), Client(4, 0, "get")>>}
=============================================================================
