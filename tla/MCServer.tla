------------------------------ MODULE MCServer ------------------------------
(***************************************************************************)
(* Instances of Server for TLC: three machines that share every key.  The  *)
(* octets are consecutive; only those below NThread make a difference.     *)
(***************************************************************************)
EXTENDS Server

CONSTANT FirstOctet

MCOctet == [m \in Machine |-> FirstOctet + m - 1]

Put(g) == [kind |-> "put", group |-> g]
Get(g) == [kind |-> "get", group |-> g]

\* One command each: a put, a get and a put.
ThreeTraces == <<<<Put(1 .. 3)>>, <<Get(1 .. 3)>>, <<Put(1 .. 3)>>>>

\* Two commands each, for two threads.
PutsAndGets == [m \in Machine |-> <<Put(1 .. 3), Get(1 .. 3)>>]
=============================================================================
