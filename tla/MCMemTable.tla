----------------------------- MODULE MCMemTable -----------------------------
(***************************************************************************)
(* Instances of MemTable for TLC: three puts and a get, or two of each, on *)
(* one key, with clocks in every order and with ties.                      *)
(***************************************************************************)
EXTENDS MemTable

MCKey == {"k"}
MCOp == 1 .. 4

PutCall(c) == [kind |-> "put", key |-> "k", clock |-> [count |-> c, m_id |-> 1]]
GetCall == [kind |-> "get", key |-> "k", clock |-> MinClock]

\* The initial states choose the clocks: every order of them, and ties.
MCCalls ==
  {<<PutCall(a), PutCall(b), PutCall(c), GetCall>> : a, b, c \in 1 .. 3}
    \cup {<<PutCall(a), PutCall(b), GetCall, GetCall>> : a, b \in 1 .. 2}
=============================================================================
