# A verification project for Avocado

Avocado is a replicated in-memory key-value store: server processes on several
machines keep encrypted values in a concurrent skip list and replicate them with a
register protocol in the style of ABD over eRPC. This directory holds TLA+ modules
translated from its source, TLC configurations that check them on small instances,
and proofs that TLAPS checks for every value of the constants. Paths below are
relative to the repository's `src/` directory; `protocol.h`, `lamport.h`,
`replica_context.h`, `rpc_context.h`, `msg.h` are in `src/include/protocol/abd/`.

The build that is modelled is the one the source asks for: `protocol.h:24-25` defines
`BENCHMARKING` as 1 (the servers execute a trace themselves) and `SCALA` as 1 (every
key has a group of three machines). The code of the other settings is not compiled.

## 1. Inventory

| Component | State | Operations | Talks to |
|---|---|---|---|
| Lamport clocks (`lamport.h`) | a 32-bit counter and a machine id | order through `to_int`, `max + 1` | protocol, store |
| Protocol (`protocol.h`) | per operation two contexts; `current_traces`; sessions and groups | `benchmark_put/get`; handlers `Put`, `Get`, `GetTimeStamp`, `GetValueTimeStamp`, `PutReplica`, `Cmd`; continuations `GetTime`, `AckPutTime`, `RetValue`, `RetGetPutUpdate`, `CmdRet` | eRPC, store, callbacks of the server |
| Contexts and buffers (`replica_context.h`, `rpc_context.h`, `msg.h`) | responses counted, a flag, the cached responses, the eRPC buffers | send, receive, reduce, free; `alloc_msg_buffer` runs the event loop while it waits | protocol, eRPC |
| Store (`src/memtables/memtable.cpp`) | a skip list of keys; each node points to clock and value | lock-free `put`, `get` | all threads of a machine |
| Placement (`server.cpp: permutations`, `ABD::replica_ordering`, `get_idx`) | the groups of three and the two sessions of each | which machines a request goes to | protocol |
| Rate limiter (`server.cpp: RateLimit`) | one counter per machine | `aquire`, `release` | event loop, callbacks |
| Server threads (`server.cpp`) | position in the trace, `other_finished`, `others_ack` | create, connect, issue, drain, DONE/ACK, leave | all of the above |
| Encrypted hash table (`include/store.h`, `list.h`) | buckets, each a list and a hash over its MACs | `put`, `get` | nobody: the server does not use it |
| Trace generation (`generate_traces.cpp`) | a vector of commands | uniform or Zipf | server |
| Encryption and allocator (`include/crypt/`, `create_allocator.cpp`) | the layout of a packet, the size of an element | encrypt, decrypt, allocate | protocol, store |
| Statistics, scripts | - | printing, starting processes | - |

What is hard to get right, and hard to test: a thread handles requests and
continuations of its peers in any order, and *inside* a continuation that waits for
a buffer; the second answer of every round is late by construction; the local copy
of a value is written after the messages that announce it were sent; all threads of
a machine share store, rate limiter and machine id; a machine may stop; the end of
a run is a distributed barrier. `PROJECT.json` lists these as hazards at their lines,
with the property that would catch each.

## 2. Modules

| Module | Models |
|---|---|
| `Lamport` | clocks, their order, the stamp of a put; the widths are parameters |
| `Entries` | what one put does to an entry of a store |
| `ABD` (`MCABD`) | the protocol between machines; implements `Register` |
| `Register` | what the operations promise: a regular register in the order of clocks |
| `Wire` (`MCWire`) | how many bytes the messages and values of `ABD` take, and the buffers and elements they are written into |
| `Store` | what `KV_store` promises: each call takes effect at one instant |
| `MemTable` (`MCMemTable`) | `KV_store` one shared access at a time; implements `Store` |
| `Placement` (`MCPlacement`) | groups of three and the choice by key |
| `RateLimit` (`MCRateLimit`) | the rate limiter one atomic access at a time; implements `Slots` |
| `Slots` | what the rate limiter promises: a semaphore |
| `Server` (`MCServer`) | start, work and end of the threads of all machines |
| `Buffers` (`MCBuffers`) | the contexts and eRPC buffers of one thread, and the pool at its limit |
| `TraceGen` (`MCTraceGen`) | the Zipf trace generator over integers, and the commands dealt to threads |
| `EHashtable` (`MCEHashtable`) | the hash table with encrypted buckets, one lock at a time |
| `ABDProofs` | the theorems about `Lamport`, `ABD`, `Register` and `Wire` |
| `MemTableProofs`, `RateLimitProofs`, `BuffersProofs`, `ServerProofs`, `PlacementProofs`, `TraceGenProofs`, `EHashtableProofs` | the theorems about the module of that name and what it implements |

`MC*` modules only give values to constants. `ABD` uses the store as one atomic
step per access; that this is justified is what `MemTable` shows. `Server` uses an
operation as rounds that end with the first answer; that is what `ABD` makes of it.

### ABD: state and actions

An *operation* `o` is a command of the trace. `st[o]` says how far it is: `query`
(first round under way), `reduced` (the continuation has read the store and the
answers and has yet to send), `sent` (PutReplica sent, local copy not yet written),
`update` (waiting for an ACK), `ret`. `kv` are the stores, `reqs` and `resps` the
messages, `n_resp`, `done`, `cache` the fields of the two `ReplicaContext`s of an
operation. `busy[t]` is the stack of continuations thread `t` is inside of:
`RpcContext::alloc_msg_buffer` runs the event loop until a buffer is free, so another
handler or continuation may run on top of one in state `reduced`.

| Action | Code |
|---|---|
| `Benchmark`, `ClientCall` | `run_event_loop` + `benchmark_put/get`; `req_handlers<Put/Get>` |
| `GetTimeStamp`, `GetValueTimeStamp`, `PutReplica` | the handlers of the same name |
| `TooEarlyOrLate` | the early returns of `req_conts` |
| `GetTime`, `SendPutReplica`, `LocalPut` | `req_conts_impl<GetTime>`, cut at its accesses to shared state |
| `AckPutTime` | `req_conts_impl<AckPutTime>` and `put_ret` |
| `RetValue`, `WriteBackAndReturn` | `req_conts_impl<RetValue>` and `get_ret` |
| `RetGetPutUpdate` | the empty continuation of a write-back |
| `Stop` | external: a machine stops for good (nothing restarts; stores are volatile) |

Values are the operation that put them. `KeyBytes` stands for what
`Msg::get_key()` points to: `RetValue` keeps that pointer where the value would be
`get_value()` (`protocol.h:528`), and the model does what the code does.
`acked` and `floor` are history: the newest put that returned, and its value when an
operation started.

### Register and Wire

`Register` has no machines: a put takes a stamp above every put of its key that had
returned when it started, a get returns the clock of some stamped put or of none, not
below one that had returned when it started. `AsRegister` in `ABD` maps `st` to the
status of an operation: a put is stamped when its continuation computed the stamp,
a get has read when it chose its answer. A write-back, a late response or a stop is
a stutter.

`Wire` adds no step to `ABD`. It says how many bytes each answer and each value takes
(message header, key, clock, value, and the IV and MAC of `PacketSsl`) and what the
code allocated for it: `max_package_size`, the response buffers, `RetValue`'s copy,
and slab elements. `--value_size`, `--max-value-size` and the size of keys are
constants; a value is as large as the put that brought it, or as a key and a clock
where `RetValue` wrote key bytes back.

### MemTable and Store

`MemTable` follows `KV_store::put` and `KV_store::get`: `addOrGetData`, the load, the
comparison, `compare_exchange_weak` (which may fail for no reason), and the second
comparison after a failure. A MetaData is named after the put that made it.
`Store` has three steps per call: invocation, effect, return. The refinement mapping
maps `meta` to the entries and the label of a call to its status; a put that is
refused takes effect when it *loads* the newer clock, one that succeeds at its
exchange, a get when it finds its node.

### Placement, RateLimit, Server

`Placement` lets machines compute `permutations` from their own list in any order and
then look a key up; without groups the lookup divides by zero. Machines are numbered in the order of their addresses.
`RateLimit` separates the load of `request` from the exchange and includes the
`run_event_loop_once` of a thread that finds the limiter full, in which its own
operations may end. It implements `Slots`, with the free slots what the counter leaves
of the limit. `Server` has the phases of `server_thread`: `none`, `init`
(`ABD::init` connects one session after the other), `bench`, `barrier` (DONE sent),
`left`.

### Buffers, TraceGen, EHashtable

`Buffers` is the thread of `ABD` seen from its memory. `req`, `resp`, `cache` and
`parent` are the fields of a `ReplicaContext` and its nodes, `stack` the calls that
wait in `alloc_msg_buffer`, `free` what the endpoint can still hand out. `Alloc` and
`AllocFails` are one turn of the loop in `alloc_msg_buffer`; `Send` is the rest of
`send_and_encrypt_msg` and of the continuation that called it; `Advance`, `Return`
and `Late` are `req_conts` by what its continuation does; `Remove` is
`NodeReplicaContext::remove` with the destructor of the context; `Serve`, `Respond`
and `FreeAnswer` are an answer too large for the preallocated buffer.

`TraceGen` replaces the probabilities of `generate_traces.cpp` by integers over a
common denominator; the binary search is the code's, one comparison at a time. When
the trace is full, `CreateThreads` deals it: `step_size` commands to each thread, which
`RunCommand` runs.
`EHashtable` has the shared and the exclusive lock of a bucket, and the list
operations of `list.h` as they are called.

## 3. Runs

| Run | Checks | Bounds |
|---|---|---|
| `abd_pairs` | `TypeOK`, `AckedOnMajority`, `ReplicaAgreement`, `CountersMatch`, `WrapIsFinal`, `EveryOpReturns` | 4 machines of which one may stop at any time, two operations on one key, a counter of one bit, one slot |
| `abd_reads` | `RealTimeOrder`, `AckedOnMajority`, `StoredWasPut`, `AnswersFit`, `ElementsFit` | a put and a get of one machine and a get of another, or two puts with a get between them, and the gets' write-backs; keys of 8 bytes with the least `value_size` (12) and `max_value_size` (16) that are enough |
| `abd_threads` | `AckedOnMajority`, `RealTimeOrder`, `OnlyOverlapDiverges`, `CountersMatch`, `ImplementsRegister` | two threads per machine; two puts under way in one thread; two machines with one id; client calls nested one deep, and `size_t` of four bits, which they wrap; a machine outside the group |
| `abd_get_value` | `GetReturnsPutValue`: violated | as `abd_reads` |
| `memtable` | `ReturnedPutsCovered`, `ImplementsStore`, `CallsReturn` | three calls on one key, clocks in every order and equal |
| `placement` | `OneGroupPerKey`, `EveryGroupReachable`, `CrashOnlyBelowThree` | 2 to 5 machines |
| `rate_limit` | `SlotsCounted`, `ImplementsSlots`, `EveryCommandAdmitted` | 3 threads, 2 slots, `size_t` of two bits |
| `server` | `NobodyStranded`, `AllLeave` | 3 machines, a put, a get and a put |
| `server_octet` | `SessionsFollowThreadCount`: violated | 2 threads per machine, an address that ends in .1 |
| `buffers` | `BuffersAccounted`, `ContextsOutliveUse`, `NothingLeaks`, `NoBufferStarvation` | two operations of every kind, one large answer, 13 buffers, one replica may stop |
| `trace_gen` | `InverseOfSums`, `EvenlyDealt`, `TraceIsFinished` | up to 7 keys, `RAND_MAX` 15, every number drawn; the last sum rounded or not; up to 5 commands for 2 or 3 threads |
| `ehashtable` | `FoundIsLatest`, `OneEntryPerKey` | 2 threads, 4 keys in 2 buckets, 4 puts |

Two operations on one key are the smallest conflict; groups of three are all the code
has, and keys do not interact except through the rate limiter and the stack of a
thread, so one key is enough. A third operation is added where a property speaks of
two others (a put and two gets, or a get whose write-back meets a second put). A machine outside the group takes the
skipping path. Deadlock checking is off because every instance is a finite trace
that ends; that it ends as intended is what the liveness properties say.
In `server` the skipping path of `Issue` would need a fourth machine, which is beyond
TLC here; it is covered in `ABD`.

What the runs say of the code:

* A put that returned is on two of three machines. This rests on one thing only: no
  event loop runs between sending PutReplica and the local `kv.put`.
* Puts and gets respect the order of puts that returned before. Reads are *not*
  monotonic across coordinators: a get returns before its write-back arrives and
  does not write to its own store, so a later get elsewhere may return an older clock
  of a put that has not returned. No line of the repository says otherwise.
* `ReplicaAgreement` is checked where at most one put of a machine is between its
  query and its local copy and machine ids differ, and leaves aside the bytes that a
  write-back puts in the place of a value (see `abd_get_value`). With two threads of a
  machine, nested client calls or two addresses that end in the same octet, two puts
  can get the same stamp, and the replicas then keep different values for equal clocks
  for ever. All three happen in `abd_threads`, and `OnlyOverlapDiverges` says how far it
  goes: the two puts have one machine id, and neither had returned when the other
  started, so a put is never confused with one that was over. `ReplicasAgree` proves
  that this and a counter that wraps are the only ways.
* The 32-bit counter of a key wraps after its last value. `WrapIsFinal`: the put that
  wraps is older than what a machine of the group holds and keeps, and once a put with
  the largest counter has returned, every later put of the key is stamped 0, returns and
  is discarded by two of three machines. `AckedOnMajority` counts such a put as
  superseded, and `RealTimeOrder` makes an exception for it; `ShortRunsNeverWrap`
  proves that it takes as many operations as the counter has values.
* `NobodyStranded` needs octets that are not below the number of threads: with an
  address that ends in .1 and two threads per machine, thread 0 of that machine hears
  the DONE of both threads of another, counts two and leaves, while the third machine
  still needs it (simulation of `MCServer` finds such a run).
* A client call is not counted when it starts (`req_handlers<Put/Get>`) but is counted
  off when it returns. `CountersMatch` says what that does: both counters are the
  operations of the trace under way minus the client calls that ended, modulo
  `SizeMod`. Below zero they wrap, and `aquire` and the drain loop wait for ever;
  otherwise each ended call lets one more operation pass the limit. Nothing in the
  repository sends such calls to a benchmark build.
* `step_size` is rounded down (`server.cpp:494`): `EvenlyDealt` shows that no command
  runs twice and that fewer commands than there are threads, at the end of the trace,
  are executed by nobody.
* With two machines, which the usage text allows, there is no group of three and every
  process divides by zero at its first operation (`CrashOnlyBelowThree`).
* `max_package_size` counts neither the header of a message nor its key. Answers fit
  because `create_buffers` adds the cipher's 28 bytes a second time, so 28 bytes have
  to do for a header of 16 and a key: keys of at most 12 bytes, and a `value_size` of
  at least 12 where an 8-byte key with its clock may be written back as a value. The
  default `--value_size` is 0, and the text "if zero take value from -vsz"
  (`server.cpp:111`) has no code behind it (`server.cpp:240`); the run and the
  theorems name the sizes they need.
* `RetValue` copies `get_size()` bytes of a message whose header takes 16 more
  (`protocol.h:527`): with a value shorter than 16 bytes the copy lacks the end of the
  key and clock bytes that it then uses. The clock it compares is read from the
  message itself, so the order of operations does not depend on it.
* `create_allocator` adds `size - remainder`, not `pagesize - remainder`: the size
  nearly doubles and still is no multiple of a page.
* Six buffers per operation under way are the least with which a thread without
  large answers never starves (with 11 for two operations it does), and each large
  answer that eRPC still keeps needs one more. The code never compares the limit of
  the rate limiter with the pool of an endpoint. A replica that stops keeps the
  buffers of what waits for it for ever, so `NoBufferStarvation` speaks of runs in
  which none stops.
* `generate_traces.cpp:110`: `zip_value` is read uninitialised when the search ends
  without a hit: `rand()` is 0, the last sum was rounded below the drawn number, or
  there is one key. Only `n_keys - 1` of the keys can be drawn.
* `EHashtable`: the update of a bucket's *first* entry inserts the new node at
  `before_begin` without linking the rest (`list.h:308`): the keys behind it are lost.
  `FoundIsLatest` says that this is the only way to miss a key that was put.

Findings (violated runs):

* `abd_get_value`: a get answered by another machine returns the key and clock bytes
  of the message instead of the value, and writes them back (`protocol.h:528`).
* `server_octet`: `get_n_threads_from_svr_info` returns the last octet of the
  address, where the usage text promises the thread count.

### Fairness

`ABD`: weak fairness of every start and of every continuation that waits for a buffer,
and, for each thread, of handling *some* request and *some* response: a thread always
returns to `run_event_loop_once`, and eRPC delivers between machines that run. No
message is preferred. `Stop` has no fairness.
`MemTable`: weak fairness of each call's steps, and of the exchange that fails
because the pointer changed; spurious failures have none. `RateLimit`: strong fairness of the release, since a
thread polls infinitely often, but not continuously, while others take slots.
`Server`: weak fairness of every thread and message; after a thread left, what it sent
arrives (it polls for 10 ms more).
`Buffers`: weak fairness of the steps of the thread, of starts and of continuations;
none for `Stop` and for `FreeAnswer`, since eRPC keeps a large answer until the peer
uses the session slot again. `TraceGen`: weak fairness of its steps, which are loops.

## 4. Proofs

| Theorem | States | For |
|---|---|---|
| `ABDProofs!TypeCorrect` | `Spec => []TypeOK` | all constants |
| `ABDProofs!AckedPutsAreOnAMajority` | `Spec => []AckedOnMajority` | all |
| `ABDProofs!StampsRespectRealTime` | `Spec => []RealTimeOrder` | all |
| `ABDProofs!StoredClocksArePuts` | `Spec => []StoredWasPut` | all |
| `ABDProofs!ABDImplementsRegister` | `Spec => ImplementsRegister` | all |
| `ABDProofs!AnswersFitBuffers` | `AnswerRoom => (Spec => []AnswersFit)` | all sizes in `AnswerRoom` |
| `ABDProofs!ValuesFitElements` | `ElementRoom => (Spec => []ElementsFit)` | all sizes in `ElementRoom` |
| `ABDProofs!EveryOpCountedOnce` | `Spec => []CountersMatch` | all |
| `ABDProofs!DivergenceIsOverlap` | `Spec => []OnlyOverlapDiverges` | all |
| `ABDProofs!WrappedKeysAreFinal` | `Spec => []WrapIsFinal` | all |
| `ABDProofs!ReplicasAgree` | `DistinctIds => (Spec /\ []OneWriter /\ []NeverWrapped => []ReplicaAgreement)` | machine ids that differ |
| `ABDProofs!OneThreadIsOneWriter` | `SingleThreaded => (Spec => []OneWriter)` | one thread per machine, no nesting |
| `ABDProofs!ShortRunsNeverWrap` | `Cardinality(Op) < CountMod => (Spec => []NeverWrapped)` | fewer operations than counter values |
| `ABDProofs!SingleThreadedReplicasAgree` | `Spec => []ReplicaAgreement` | the three conditions above |
| `ABDProofs!LessIsBefore`, `ToIntInjective` | `to_int` orders clocks as pairs, and tells them apart | all widths |
| `MemTableProofs!LargestClockSurvives` | `Spec => []ReturnedPutsCovered` | all |
| `MemTableProofs!MemTableImplementsStore` | `Spec => ImplementsStore` | all |
| `RateLimitProofs!LimitHolds` | `Spec => []SlotsCounted` | all |
| `RateLimitProofs!RateLimitImplementsSlots` | `Spec => ImplementsSlots` | all |
| `BuffersProofs!ContextsAreNotFreedEarly` | `Spec => []ContextsOutliveUse` | all |
| `BuffersProofs!BuffersAreGivenBack` | `Spec => []NothingLeaks` | all |
| `BuffersProofs!NoBufferIsLost` | `Spec => []BuffersAccounted` | all |
| `ServerProofs!LeavingStrandsNobody` | `Spread => (Spec => []NobodyStranded)` | octets not below the number of threads |
| `PlacementProofs!MachinesAgreeOnGroups` | `Spec => []OneGroupPerKey` | clusters of any size |
| `PlacementProofs!KeysReachEveryGroup` | `Spec => []EveryGroupReachable` | clusters of any size |
| `PlacementProofs!DivisionNeedsThree` | `Spec => []CrashOnlyBelowThree` | clusters of any size |
| `TraceGenProofs!SearchInvertsSums` | `Spec => []InverseOfSums` | any number of keys, any `RAND_MAX` |
| `TraceGenProofs!TraceDealtEvenly` | `Spec => []EvenlyDealt` | any number of commands and threads |
| `EHashtableProofs!GetFindsTheLastPut` | `Spec => []FoundIsLatest` | all |
| `EHashtableProofs!NoKeyTwice` | `Spec => []OneEntryPerKey` | all |

They assume what the modules' `ASSUME`s say: groups of three machines, a session that
ends in a thread of the machine it is for, machine ids within the width of the id
(they may be equal), positive moduli, a limit of requests that `size_t` can hold, finite sets of
operations, replicas and machines, machines numbered by naturals, and in `TraceGen` a
positive scale that every rank divides. Any number of machines, threads, keys, operations,
nested event loops and stopped machines is covered. Where a theorem has a condition
of its own, the condition is a definition of the proof module and each is met by an
instance of a run.

*Protocol.* `AckedOnMajority` is not inductive: that the coordinator holds the value
when an ACK arrives depends on where its thread is. `IndInv` adds `Frames` (a put in
state `sent` is on top of the stack of its thread, so nothing is polled there),
`AbsentIsMin` (an entry without value has the least clock), `Messages` (a request
carries the stamp of its operation; a response to the update of a put comes from a
machine that has the stamp), `Acked` (the newest returned put of a key is held by two
members) and `OperationOK`, which keeps for every operation two
*witnesses* that held `floor` when it started. Stores only grow in clock order
(`Grows`), so each fact, once true, stays. For a quorum, `QuorumReachesFloor`: the
coordinator and the member that answered first are two of three, so one of them is
a witness. One lemma per action or group of actions preserves `IndInv`.

*Register.* A get may only return the clock of a put, but what it finds may have come
through a store, an answer or another get's write-back. `OriginInv` follows all of
them: with `Written` the set of keys, clocks and values of puts that were sent (and
those of absent keys), stores, update requests, answers and what a get is about to
write back are in `Written`, which only grows. `ChosenWritten` is the point to argue
about: an answer without a value would be turned into key bytes with the least clock,
but does not beat the local entry. With `ReturnedOnce` (the flag of the second context
lets one ACK through) each step maps to one of `Register` or to a stutter; the real-time
conditions come from `IndInv`.

*Counters.* `CountersMatch` is inductive given the invariants above. The set of
operations of the trace under way gains one element when one starts and loses one when
it returns, the set of ended client calls gains one, and `ReturnedOnce` says that each
return happens once. The counters are remainders, so each step is an equation modulo
`SizeMod` (`RemainderUnique`, `StepBeforeRemainder`). The bound on the operations
under way needs that the limiter compares a remainder with the limit: while the
difference is not negative the remainder is the difference itself.

*Agreement.* By `OriginInv` two stores with one clock hold values of puts with that
stamp. A stamped put has the id of its machine (`OwnStamps`) and, unless its counter
wrapped, a stamp above its floor, which gives `OnlyOverlapDiverges` at once. For
`ReplicaAgreement` it is enough that no two puts of a key share a stamp (`StampInv`).
Those of different machines differ in the id (`DistinctIds`). Of one machine, the second
put reads the store after the first has written it (`OneWriter`) and takes a larger
counter, unless it wraps. `OneWriter` follows from one thread without nesting
(`Uninterrupted`: between its read and its write a continuation is alone on its thread);
`NeverWrapped` from `CountBound`: a counter is never above the number of puts that
were stamped.

*Wrapping.* `WrapInv` adds that an answer to a query is never ahead of the store it came
from (`AnswersBehind`), on its way or in a cache. So when `GetTime` adds one to the
largest counter of its quorum, a store of the group still has that counter; and since
the quorum reaches the floor, the counter is above the floor's or comes around to 0.

*Store.* `MemInv`: a put past its exchange, or refused, is covered by the pointer it
saw, and pointers only move to larger clocks. With `NoResultYet` every step maps to
a step of `Store` or to a stutter.

*Rate limiter.* The counter equals the cardinality of the set of operations that hold
a slot, and an exchange succeeds only on the value that was loaded and compared. The
same invariant maps each exchange to a `Take` or `GiveBack` and the rest to stutters.

*Sizes.* A value is one of four sizes (absent, a put's, a client's, a key with its
clock) by `TypeCorrect`; `AnswerRoom` and `ElementRoom` are the inequalities between
the command line's sizes that follow for each; `abd_reads` runs at their limit.

*Contexts.* That a context is alive while a continuation uses it is not inductive:
the node of the continuation could be removed by another response, or be the one of
a second continuation. `LifeInv` adds that the node of each waiting call is in
`parent` but not on the wire (`NodesLive`) and no other call's (`NodesDiffer`); that a
context under construction has a node for each of its buffers, is built by one call
only and used by none (`BuildsApart`); and that a round has no context before its time
(`NotYet`), so that a call never builds over one that is alive.

*Buffers.* `OwnedInv` says which buffers a node has in each phase of its life: its
request buffer until it is removed, its response buffer until the response moves to
the cache, and nothing once its context is gone. `NothingLeaks` follows when no call
waits. `BuffersAccounted` counts sets of owners, so each action adds or removes
known elements, and `OwnedInv` says that an element removed was there and an element
added was not.

*End of a run.* A thread counts DONEs and not senders, so `NobodyStranded` needs that
no sender is counted twice and that all senders are different machines. `EndInv`
relates the count of a thread to the set of machines whose DONE it has heard
(`CountsHeard`); by `Spread` thread *i* talks to thread *i* of each machine only, so a
full count is every other machine (`LeftHeardAll`), and who sent DONE had finished
(`DoneWasSent`) and stays finished (`EndedIsFinished`).

*Placement.* `PlaceInv` says that `permutations` lists the groups of three in the
order of its loops: the other two members, or nothing for a group of others. The rank of a group
in that order is the same seen from each member and is a bijection onto the indices,
which gives agreement, reachability and the number of groups.

*Trace generator.* The sums are a recursive function. That it exists is proved from a
least element in place of induction (`LeastElement`: a set of naturals that is not empty
has one), and so is that the sums rise, whence at most one key has the drawn number in
its share. `SearchInv` keeps that key between `low` and `high`. `DealInv` describes the
parts: `step_size` each, disjoint, and short of the trace by the remainder.

*Hash table.* `TableInv`: a bucket is written by one thread and then read by none
(`Locked`); a position that a put or get has found still names its key (`Positions`);
and every key that was put is in its bucket's list with its latest value, or in
`behind`, the history of keys that an update of a first entry dropped (`Contents`).

Model-checked only: what needs fairness (`EveryOpReturns`, `CallsReturn`,
`EveryCommandAdmitted`, `AllLeave`, `NoBufferStarvation`, `TraceIsFinished`), which the
prover does not handle. Every other property of a passing run is stated by a theorem.

## 5. Not modelled

eRPC, folly's skip list, atomic `shared_ptr` operations and OpenSSL are external: a
message arrives at most once, in any order; skip-list and pointer operations are
atomic; what is encrypted decrypts, and of the ciphers and hashes only the sizes are
modelled. The slab allocator is a submodule that the repository does not contain: what
it does when it has no element left, which `create_node` does not ask, is unknown here.
Statistics and printing influence no decision. Scripts start processes. `client.cpp`
and `hello-server.cpp` are experiments with eRPC. Machine ids are the last octets of
addresses; that they differ, which the code does not check, is a condition of
`ReplicasAgree` only.
Addresses on one host that differ only in the port may be ordered differently by
different machines, because `permutations` compares a uri without suffix with uris
that have one; `Placement` assumes they differ before. Of the hash table the MACs
and the bucket hash are left out (the hash of a new bucket starts invalid and the MAC
is a constant, so a comparison would say nothing), and the build with `PUSH_FRONT`.
The uniform trace generator is not called, and the Python trace generators are not used
by the server.

## 6. Plan

The order followed so far: clocks, protocol, store and its refinement, placement,
rate limiter, server threads, each with its theorems; buffers, trace generator and
hash table; then the abstract specifications `Register` and `Slots`, the sizes of
`Wire`, the dealing of commands and clusters that are too small, and the proof that
`ABD` implements `Register`; last, theorems for the remaining safety properties of the
runs. What is left:

1. A weaker condition than `Spread`: which addresses still give every thread one DONE
   from each machine.
2. Lemmas towards the liveness properties: that an operation which has not returned
   always has a request or a response under way at a machine that runs, unless a
   second machine of its group stopped.
