----------------------------- MODULE MCBuffers -----------------------------
(***************************************************************************)
(* Instances of Buffers for TLC: a thread with NOps operations of which    *)
(* MaxRequest are under way at a time, and two replicas.                   *)
(***************************************************************************)
EXTENDS Buffers

CONSTANT NOps

MCOp == 1 .. NOps
MCReplica == {1, 2}

\* Puts and gets, the last operation possibly the DONE command.
MCKinds == {k \in [MCOp -> Kind] : \A o \in MCOp : k[o] = "cmd" => o = NOps}
=============================================================================
