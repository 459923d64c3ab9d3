------------------------------ MODULE MemTable ------------------------------
(***************************************************************************)
(* KV_store as it is written (memtables/memtable.cpp): a concurrent skip   *)
(* list of keys whose nodes point to immutable MetaData (clock and value). *)
(* A put adds the node, or replaces the pointer with compare-and-swap while*)
(* the clock it finds there is smaller.  Threads interleave between any two*)
(* accesses to shared memory.                                              *)
(*                                                                         *)
(* The skip list (folly::ConcurrentSkipList) and the atomic operations on  *)
(* shared_ptr are external: addOrGetData, find, load and compare-exchange  *)
(* are one step each, and the weak exchange may fail for no reason.  A     *)
(* MetaData is named after the put that made it; old_meta holds a reference*)
(* to what it points to, so an address cannot be reused meanwhile.         *)
(***************************************************************************)
EXTENDS Entries, FiniteSets

CONSTANTS Key, Op, Calls,
          None          \* no node for the key

Call == [kind : {"put", "get"}, key : Key, clock : Clock]

ASSUME CallAssumption == /\ Calls \subseteq [Op -> Call]
                         /\ None \notin Op
                         /\ NoValue \notin Op

VARIABLES call,         \* the arguments of each call
          meta,         \* per key, the MetaData its node points to
          pc,           \* the next shared access of each call
          old_meta,     \* the pointer a call loaded
          ret           \* its result

vars == <<call, meta, pc, old_meta, ret>>

KeyOf(o) == call[o].key
ClockOf(o) == call[o].clock
EntryOf(o) == [clock |-> call[o].clock, val |-> o]
NoResult == [ok |-> FALSE, entry |-> Absent]

GoTo(o, l) == pc' = [pc EXCEPT ![o] = l]
Give(o, ok, entry) == ret' = [ret EXCEPT ![o] = [ok |-> ok, entry |-> entry]]

Invoke(o) ==
  /\ pc[o] = "idle"
  /\ GoTo(o, IF call[o].kind = "put" THEN "addOrGetData" ELSE "find")
  /\ UNCHANGED <<call, meta, old_meta, ret>>

\* put: a key without a node gets ours.
AddData(o) ==
  /\ pc[o] = "addOrGetData" /\ meta[KeyOf(o)] = None
  /\ meta' = [meta EXCEPT ![KeyOf(o)] = o]
  /\ Give(o, TRUE, Absent)
  /\ GoTo(o, "return")
  /\ UNCHANGED <<call, old_meta>>

\* put: otherwise we get the node that is there.
GetData(o) ==
  /\ pc[o] = "addOrGetData" /\ meta[KeyOf(o)] # None
  /\ GoTo(o, "load")
  /\ UNCHANGED <<call, meta, old_meta, ret>>

Load(o) ==
  /\ pc[o] = "load"
  /\ old_meta' = [old_meta EXCEPT ![o] = meta[KeyOf(o)]]
  /\ GoTo(o, "exchange")
  /\ UNCHANGED <<call, meta, ret>>

\* Variant with a fault: a tie counts as older.
Older_OrEqual(o) == Leq(ClockOf(old_meta[o]), ClockOf(o))

\* The loop's condition, and what put returns.
Older(o) == Less(ClockOf(old_meta[o]), ClockOf(o))

\* Variant with a fault: a plain store instead of the exchange.
Exchange_Blind(o) ==
  /\ pc[o] = "exchange" /\ Older(o)
  /\ meta' = [meta EXCEPT ![KeyOf(o)] = o]
  /\ Give(o, TRUE, Absent)
  /\ GoTo(o, "return")
  /\ UNCHANGED <<call, old_meta>>

\* put: the exchange succeeds; old_meta keeps the pointer it replaced.
Exchange(o) ==
  /\ pc[o] = "exchange" /\ Older(o)
  /\ meta[KeyOf(o)] = old_meta[o]
  /\ meta' = [meta EXCEPT ![KeyOf(o)] = o]
  /\ Give(o, TRUE, Absent)
  /\ GoTo(o, "return")
  /\ UNCHANGED <<call, old_meta>>

\* put: it fails, for a reason or not, and loads the pointer that is there.
ExchangeFails(o) ==
  /\ pc[o] = "exchange" /\ Older(o)
  /\ old_meta' = [old_meta EXCEPT ![o] = meta[KeyOf(o)]]
  /\ UNCHANGED <<call, meta, pc, ret>>

\* Variant with a fault: the call spins on an entry it may not replace.
GiveUp_Never(o) ==
  /\ pc[o] = "exchange" /\ ~Older(o)
  /\ old_meta' = [old_meta EXCEPT ![o] = meta[KeyOf(o)]]
  /\ UNCHANGED <<call, meta, pc, ret>>

\* put: what is there is not older.
GiveUp(o) ==
  /\ pc[o] = "exchange" /\ ~Older(o)
  /\ Give(o, FALSE, Absent)
  /\ GoTo(o, "return")
  /\ UNCHANGED <<call, meta, old_meta>>

\* get: there is no node for the key.
FindNothing(o) ==
  /\ pc[o] = "find" /\ meta[KeyOf(o)] = None
  /\ Give(o, TRUE, Absent)
  /\ GoTo(o, "return")
  /\ UNCHANGED <<call, meta, old_meta>>

Find(o) ==
  /\ pc[o] = "find" /\ meta[KeyOf(o)] # None
  /\ GoTo(o, "decrypt_node")
  /\ UNCHANGED <<call, meta, old_meta, ret>>

\* get: decrypt_node loads the pointer once and reads clock and value from what
\* it points to.
DecryptNode(o) ==
  /\ pc[o] = "decrypt_node"
  /\ Give(o, TRUE, EntryOf(meta[KeyOf(o)]))
  /\ GoTo(o, "return")
  /\ UNCHANGED <<call, meta, old_meta>>

Return(o) ==
  /\ pc[o] = "return"
  /\ GoTo(o, "returned")
  /\ UNCHANGED <<call, meta, old_meta, ret>>

Init == /\ call \in Calls
        /\ meta = [k \in Key |-> None]
        /\ pc = [o \in Op |-> "idle"]
        /\ old_meta = [o \in Op |-> None]
        /\ ret = [o \in Op |-> NoResult]

PutStep(o) == \/ AddData(o) \/ GetData(o) \/ Load(o)
              \/ Exchange(o) \/ GiveUp(o)

GetStep(o) == FindNothing(o) \/ Find(o) \/ DecryptNode(o)

Next == \E o \in Op : \/ Invoke(o) \/ PutStep(o) \/ ExchangeFails(o)
                      \/ GetStep(o) \/ Return(o)

Spec == Init /\ [][Next]_vars

\* A thread inside a call goes on, and the weak exchange does not fail for ever
\* on a pointer that nobody else moves.
Fairness == /\ \A o \in Op : WF_vars(PutStep(o) \/ GetStep(o) \/ Return(o))
            /\ \A o \in Op : WF_vars(ExchangeFails(o) /\ meta[KeyOf(o)] # old_meta[o])

FairSpec == Spec /\ Fairness

----------------------------------------------------------------------------
(* Properties.                                                             *)

Label == {"idle", "addOrGetData", "load", "exchange", "find", "decrypt_node",
          "return", "returned"}
Result == [ok : BOOLEAN, entry : [clock : Clock, val : Op \cup {NoValue}]]

TypeOK == /\ call \in Calls
          /\ meta \in [Key -> Op \cup {None}]
          /\ pc \in [Op -> Label]
          /\ old_meta \in [Op -> Op \cup {None}]
          /\ ret \in [Op -> Result]

\* The point at which a call takes effect.  A put that will give up did nothing
\* from the load on that found an entry that is not older.
kvBar == [k \in Key |-> IF meta[k] = None THEN Absent ELSE EntryOf(meta[k])]

statusBar ==
  [o \in Op |-> CASE pc[o] = "idle" -> "idle"
                  [] pc[o] \in {"addOrGetData", "load", "find", "decrypt_node"} -> "called"
                  [] pc[o] = "exchange" -> IF Older(o) THEN "called" ELSE "effect"
                  [] pc[o] = "return" -> "effect"
                  [] pc[o] = "returned" -> "returned"]

AtomicStore == INSTANCE Store WITH kv <- kvBar, status <- statusBar

\* The skip list and the exchange loop behave like a store in which every call
\* takes effect at once: no put is lost under a concurrent one, none undoes a
\* later clock, and each reports whether it was installed.
ImplementsStore == AtomicStore!Spec

\* The largest clock survives: whatever the calls overlapped with, the entry of
\* a key is not older than any put of the key that returned, installed or not.
ReturnedPutsCovered ==
  \A o \in Op : pc[o] = "returned" /\ call[o].kind = "put" =>
    meta[KeyOf(o)] # None /\ Leq(ClockOf(o), ClockOf(meta[KeyOf(o)]))

\* A call that was made returns: an exchange that keeps failing does so because
\* other puts succeed, and clocks are bounded by the puts there are.
CallsReturn == \A o \in Op : pc[o] # "idle" ~> pc[o] = "returned"
=============================================================================
