----------------------------- MODULE RateLimit -----------------------------
(***************************************************************************)
(* struct RateLimit (server.cpp): how many benchmark operations of one     *)
(* machine are under way.  All its server threads share the counter and    *)
(* change it with atomic operations; a thread that finds no slot runs its  *)
(* event loop, whose callbacks (put_ret, get_ret, skip_ret) release slots. *)
(*                                                                         *)
(* An operation is a command of a thread's trace; "held" is one that was   *)
(* sent and has not returned.  The statistics n_aquire and n_release have  *)
(* no effect and are left out.                                             *)
(***************************************************************************)
EXTENDS Integers, FiniteSets

CONSTANTS Op,           \* the commands, numbered in the order of the trace
          Thread,
          ThreadOf,     \* the thread whose part of the trace a command is in
          max_request,
          SizeMod       \* 2^64 in the code: the counter is a size_t

ASSUME OpAssumption == /\ Op \subseteq Nat /\ IsFiniteSet(Op)
                       /\ ThreadOf \in [Op -> Thread]
ASSUME LimitAssumption == /\ max_request \in Nat \ {0} /\ SizeMod \in Nat
                          /\ max_request < SizeMod

VARIABLES request,      \* the counter
          pc,           \* where the thread is with a command
          r             \* the local variable of aquire

vars == <<request, pc, r>>

Label == {"new", "load", "exchange", "poll", "held", "released"}
Inside == {"load", "exchange", "poll"}

GoTo(o, l) == pc' = [pc EXCEPT ![o] = l]

\* The loop over the trace calls aquire for the next command of the thread.
Aquire(o) ==
  /\ pc[o] = "new"
  /\ \A p \in Op : ThreadOf[p] = ThreadOf[o] =>
       pc[p] \notin Inside /\ (p < o => pc[p] # "new")
  /\ GoTo(o, "load")
  /\ UNCHANGED <<request, r>>

Load(o) ==
  /\ pc[o] = "load"
  /\ r' = [r EXCEPT ![o] = request]
  /\ GoTo(o, "exchange")
  /\ UNCHANGED request

\* Variant with a fault: a plain store of r + 1.
Exchange_Store(o) ==
  /\ pc[o] = "exchange" /\ r[o] < max_request
  /\ request' = (r[o] + 1) % SizeMod
  /\ GoTo(o, "held")
  /\ UNCHANGED r

\* compare_exchange_weak succeeds, aquire returns and the command is sent.
Exchange(o) ==
  /\ pc[o] = "exchange" /\ r[o] < max_request
  /\ request = r[o]
  /\ request' = (r[o] + 1) % SizeMod
  /\ GoTo(o, "held")
  /\ UNCHANGED r

\* Variant with a fault: aquire returns after one exchange, whatever came of it.
ExchangeFails_Returns(o) ==
  /\ pc[o] = "exchange" /\ r[o] < max_request
  /\ r' = [r EXCEPT ![o] = request]
  /\ GoTo(o, "held")
  /\ UNCHANGED request

\* It fails, perhaps for no reason, and r becomes what is there.
ExchangeFails(o) ==
  /\ pc[o] = "exchange" /\ r[o] < max_request
  /\ r' = [r EXCEPT ![o] = request]
  /\ UNCHANGED <<request, pc>>

\* No slot: f() runs the event loop once, then the counter is loaded again.
Full(o) ==
  /\ pc[o] = "exchange" /\ ~(r[o] < max_request)
  /\ GoTo(o, "poll")
  /\ UNCHANGED <<request, r>>

Polled(o) ==
  /\ pc[o] = "poll"
  /\ GoTo(o, "load")
  /\ UNCHANGED <<request, r>>

\* Variant with a fault: a thread that waits for a slot runs no callback.
Release_Blocked(o) ==
  /\ pc[o] = "held"
  /\ \A p \in Op : ThreadOf[p] = ThreadOf[o] => pc[p] \notin Inside
  /\ request' = (request - 1) % SizeMod
  /\ GoTo(o, "released")
  /\ UNCHANGED r

\* release(), from the event loop of the thread: between two commands, or
\* inside aquire.
Release(o) ==
  /\ pc[o] = "held"
  /\ \A p \in Op : ThreadOf[p] = ThreadOf[o] => pc[p] \notin {"load", "exchange"}
  /\ request' = (request - 1) % SizeMod
  /\ GoTo(o, "released")
  /\ UNCHANGED r

Init == /\ request = 0
        /\ pc = [o \in Op |-> "new"]
        /\ r = [o \in Op |-> 0]

Step(o) == Aquire(o) \/ Load(o) \/ Exchange(o) \/ Full(o) \/ Polled(o)

Next == \E o \in Op : Step(o) \/ ExchangeFails(o) \/ Release(o)

Spec == Init /\ [][Next]_vars

\* Threads run; the exchange does not fail for ever without a reason; and an
\* operation under way returns whenever its thread keeps polling, which it does
\* between two passes of aquire.
Fairness ==
  /\ \A o \in Op : WF_vars(Step(o)) /\ SF_vars(Release(o))
  /\ \A o \in Op : WF_vars(ExchangeFails(o) /\ request # r[o])

FairSpec == Spec /\ Fairness

----------------------------------------------------------------------------
(* Properties.                                                             *)

TypeOK == /\ request \in 0 .. SizeMod - 1
          /\ pc \in [Op -> Label]
          /\ r \in [Op -> 0 .. SizeMod - 1]

Held == {o \in Op : pc[o] = "held"}

\* The counter is the number of operations under way, and that number never
\* exceeds the limit: no slot is taken twice or lost, and the counter does not
\* fall below 0, whatever loads, exchanges and releases of the threads overlap.
SlotsCounted == request = Cardinality(Held) /\ Cardinality(Held) =< max_request

\* The limiter behaves as a set of slots that are taken and given back in one
\* step each: the step of aquire that takes a slot is its successful exchange,
\* and at that point a slot is really free, although the counter was read
\* earlier and other threads took and released slots since.
AsSlots == INSTANCE Slots WITH free <- max_request - request, held <- Held,
                               over <- {o \in Op : pc[o] = "released"}
ImplementsSlots == AsSlots!Spec

\* Every command of the trace gets a slot: threads that all wait at the limit
\* release each other's slots and their own.
EveryCommandAdmitted == \A o \in Op : <>(pc[o] \in {"held", "released"})
=============================================================================
