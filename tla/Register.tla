------------------------------ MODULE Register ------------------------------
(***************************************************************************)
(* What the operations of ABD (protocol.h) promise about the clocks of the *)
(* keys, without machines, messages or stores: a regular register.  A put  *)
(* gets a stamp above every put of its key that had returned when it       *)
(* started, a get returns the clock of some put that was stamped, or of    *)
(* none, and never one below a put that had returned when it started.      *)
(***************************************************************************)
EXTENDS Lamport

CONSTANTS Op, Key

VARIABLES trace,        \* the operation's kind and key
          status,       \* idle, running, stamped, over or skipped
          stamp,        \* the clock of a put, or the one a get returns
          acked,        \* the newest put of a key that returned
          floor         \* its value when an operation started

vars == <<trace, status, stamp, acked, floor>>

Init == /\ status = [o \in Op |-> "idle"]
        /\ stamp = [o \in Op |-> MinClock]
        /\ acked = [k \in Key |-> MinClock]
        /\ floor = [o \in Op |-> MinClock]

To(o, s) == status' = [status EXCEPT ![o] = s]

\* An operation starts, or is not for this machine.
Start(o) ==
  /\ status[o] = "idle"
  /\ To(o, "running") \/ To(o, "skipped")
  /\ floor' = [floor EXCEPT ![o] = acked[trace[o].key]]
  /\ UNCHANGED <<trace, stamp, acked>>

\* A put takes its stamp; a counter that wrapped to 0 excuses it.
StampPut(o) ==
  /\ status[o] = "running" /\ trace[o].kind = "put"
  /\ \E c \in Clock : /\ c.count = 0 \/ Less(floor[o], c)
                      /\ stamp' = [stamp EXCEPT ![o] = c]
  /\ To(o, "stamped")
  /\ UNCHANGED <<trace, acked, floor>>

ReturnPut(o) ==
  /\ status[o] = "stamped" /\ trace[o].kind = "put"
  /\ acked' = [acked EXCEPT ![trace[o].key] = Later(@, stamp[o])]
  /\ To(o, "over")
  /\ UNCHANGED <<trace, stamp, floor>>

\* The stamps of the puts of a key, returned or not.
Stamps(k) == {stamp[p] : p \in {p \in Op : /\ trace[p].kind = "put" /\ trace[p].key = k
                                           /\ status[p] \in {"stamped", "over"}}}

\* A get decides on a clock, and may return later than that.
Read(o) ==
  /\ status[o] = "running" /\ trace[o].kind = "get"
  /\ \E c \in Stamps(trace[o].key) \cup {MinClock} :
       /\ Leq(floor[o], c)
       /\ stamp' = [stamp EXCEPT ![o] = c]
  /\ To(o, "stamped") \/ To(o, "over")
  /\ UNCHANGED <<trace, acked, floor>>

ReturnGet(o) ==
  /\ status[o] = "stamped" /\ trace[o].kind = "get"
  /\ To(o, "over")
  /\ UNCHANGED <<trace, stamp, acked, floor>>

Next == \E o \in Op : \/ Start(o) \/ StampPut(o) \/ ReturnPut(o)
                      \/ Read(o) \/ ReturnGet(o)

Spec == Init /\ [][Next]_vars
=============================================================================
