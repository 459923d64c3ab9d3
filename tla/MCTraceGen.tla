---------------------------- MODULE MCTraceGen ----------------------------
(***************************************************************************)
(* Instances of TraceGen for TLC: one command out of up to seven keys, to  *)
(* try every draw, and up to five commands for up to three threads.        *)
(***************************************************************************)
EXTENDS TraceGen

MCSetups ==
  [n_keys : 1 .. 7, n_cmds : {1}, n_thread : {1}]
    \cup {s \in [n_keys : {2}, n_cmds : 2 .. 5, n_thread : 2 .. 3] : s.n_cmds >= s.n_thread}
MCReadPermille == {0, 500, 1000}
\* Any key number of the instance, and one beyond.
MCGarbage == {1, 8}
=============================================================================
