------------------------------- MODULE Store -------------------------------
(***************************************************************************)
(* What KV_store (include/memtable/memtable.h) promises the protocol: calls*)
(* of any number of threads overlap, but each takes effect in one step     *)
(* between its invocation and its return.  A put replaces an older entry   *)
(* and says whether it did; a get returns the entry.                       *)
(***************************************************************************)
EXTENDS Entries

CONSTANTS Key,
          Op,           \* the calls; a put's value is named after its call
          Calls         \* what the calls may be: kind, key, clock

VARIABLES call,         \* the arguments of each call
          kv,           \* the entry of each key
          status,       \* how far each call is
          ret           \* its result

vars == <<call, kv, status, ret>>

NoResult == [ok |-> FALSE, entry |-> Absent]

Init == /\ call \in Calls
        /\ kv = [k \in Key |-> Absent]
        /\ status = [o \in Op |-> "idle"]
        /\ ret = [o \in Op |-> NoResult]

Invoke(o) ==
  /\ status[o] = "idle"
  /\ status' = [status EXCEPT ![o] = "called"]
  /\ UNCHANGED <<call, kv, ret>>

\* KV_store::put(node): true if the entry was absent or had a smaller clock.
PutEffect(o) ==
  LET k == call[o].key
      c == call[o].clock
  IN /\ status[o] = "called" /\ call[o].kind = "put"
     /\ status' = [status EXCEPT ![o] = "effect"]
     /\ ret' = [ret EXCEPT ![o] = [ok |-> Newer(kv[k], c), entry |-> Absent]]
     /\ kv' = [kv EXCEPT ![k] = Put(@, c, o)]
     /\ UNCHANGED call

\* KV_store::get: the entry, with its value decrypted.
GetEffect(o) ==
  /\ status[o] = "called" /\ call[o].kind = "get"
  /\ status' = [status EXCEPT ![o] = "effect"]
  /\ ret' = [ret EXCEPT ![o] = [ok |-> TRUE, entry |-> kv[call[o].key]]]
  /\ UNCHANGED <<call, kv>>

Return(o) ==
  /\ status[o] = "effect"
  /\ status' = [status EXCEPT ![o] = "returned"]
  /\ UNCHANGED <<call, kv, ret>>

Next == \E o \in Op : Invoke(o) \/ PutEffect(o) \/ GetEffect(o) \/ Return(o)

Spec == Init /\ [][Next]_vars
=============================================================================
