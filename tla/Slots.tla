------------------------------- MODULE Slots -------------------------------
(***************************************************************************)
(* What RateLimit (server.cpp) promises the threads of a machine: a number *)
(* of slots that operations take and give back one at a time, whatever the *)
(* atomic accesses to its counter look like in between.                    *)
(***************************************************************************)
EXTENDS Integers

CONSTANTS Op,           \* the operations
          max_request   \* the slots

VARIABLES free,         \* the slots nobody has
          held,         \* the operations that have one
          over          \* those that gave it back

vars == <<free, held, over>>

Init == free = max_request /\ held = {} /\ over = {}

\* aquire returns.
Take(o) ==
  /\ o \notin held \cup over
  /\ free > 0 /\ free' = free - 1
  /\ held' = held \cup {o}
  /\ UNCHANGED over

\* release, once for every operation.
GiveBack(o) ==
  /\ o \in held
  /\ free' = free + 1
  /\ held' = held \ {o}
  /\ over' = over \cup {o}

Next == \E o \in Op : Take(o) \/ GiveBack(o)

Spec == Init /\ [][Next]_vars
=============================================================================
