-------------------------------- MODULE ABD --------------------------------
(***************************************************************************)
(* The replicated register protocol of src/include/protocol/abd/protocol.h *)
(* in its built configuration (BENCHMARKING = 1, SCALA = 1).               *)
(*                                                                         *)
(* Every key belongs to a group of three nodes.  A thread of a member node *)
(* runs a put in two rounds (GetTimeStamp, PutReplica) and a get in one    *)
(* (GetValueTimeStamp) plus a write-back nobody waits for.  A round goes to*)
(* the two other members; the first answer and the node's own store are    *)
(* the quorum.  All the threads of a node share its store and machine id.  *)
(*                                                                         *)
(* One action is one piece of code that no other thread can observe in the *)
(* middle: an RPC handler, a continuation, or the part of a continuation   *)
(* between two accesses to the shared store.  A continuation that has to   *)
(* wait for a message buffer runs the event loop (rpc_context.h:26-28), so *)
(* other handlers of the same thread can run inside it: busy is that stack.*)
(*                                                                         *)
(* eRPC is external: it delivers a request at most once and its response   *)
(* at most once, in any order, and a node that stopped answers nothing.    *)
(***************************************************************************)
EXTENDS Entries, FiniteSets, Sequences

CONSTANTS Node,         \* machines, one server process and one store each
          Thread,       \* server threads, each with its own eRPC endpoint
          NodeOf,       \* the machine a thread runs on
          Peer,         \* Peer[t][n]: the thread of n that t's session ends in
          MId,          \* base_id of a machine, the last octet of its address
          Key,
          Group,        \* the three machines that store a key
          Op,           \* positions in the trace
          Traces,       \* the command lists the benchmark may be given
          SizeMod,      \* 2^64 in the code: counters of type size_t
          MaxRequest,   \* RateLimit::max_request
          MaxNest,      \* bound: event loops running inside a continuation
          MaxDown,      \* bound: machines that stop
          KeyBytes      \* the bytes of the key and its clock, taken for a value

Cmd == [thread : Thread, kind : {"put", "get"}, key : Key, client : BOOLEAN]

ASSUME NodeAssumption == /\ NodeOf \in [Thread -> Node]
                         /\ Peer \in [Thread -> [Node -> Thread]]
                         /\ \A t \in Thread, n \in Node : NodeOf[Peer[t][n]] = n
                         /\ MId \in [Node -> MachineId]

ASSUME GroupAssumption ==
         \A k \in Key : \E a, b, c \in Node : /\ a # b /\ b # c /\ a # c
                                              /\ Group[k] = {a, b, c}

ASSUME OpAssumption == /\ Op \subseteq Nat /\ IsFiniteSet(Op)
                       /\ Traces \subseteq [Op -> Cmd]
                       /\ NoValue \notin Op /\ KeyBytes \notin Op
                       /\ NoValue # KeyBytes

ASSUME BoundAssumption == /\ SizeMod \in Nat \ {0}
                          /\ MaxRequest \in 0 .. SizeMod - 1
                          /\ MaxNest \in Nat
                          /\ MaxDown \in Nat

VARIABLES trace,        \* the commands, fixed before the threads start
          st,           \* how far an operation is
          stamp,        \* the clock a put gives its value, or a get returns
          result,       \* the value a put writes, or a get returns
          kv,           \* the store of each machine
          reqs, resps,  \* requests and responses on their way
          n_resp,       \* per round, the responses the context has had
          cache,        \* the responses to the queries, while they are needed
          done,         \* per round, the context's atomic_flag
          busy,         \* per thread, the continuations it is inside of
          current_traces,       \* ABD::current_traces of each thread
          request,      \* RateLimit::request of each machine
          up,           \* machines that still run
          acked, floor  \* history: the newest put returned; its value when an
                        \* operation started

vars == <<trace, st, stamp, result, kv, reqs, resps, n_resp, cache,
          done, busy, current_traces, request, up, acked, floor>>

Round == {"query", "update"}
Value == Op \cup {NoValue, KeyBytes}
Entry == [clock : Clock, val : Value]
Req == [op : Op, round : Round, to : Node, clock : Clock, val : Value]
Resp == [op : Op, round : Round, from : Node, clock : Clock, val : Value]
Status == {"new", "skip", "query", "reduced", "sent", "update", "ret"}

ThreadOf(o) == trace[o].thread
Home(o) == NodeOf[trace[o].thread]
KeyOf(o) == trace[o].key
Started(o) == st[o] \notin {"new", "skip"}
Returned(o) == st[o] \in {"ret", "skip"}

----------------------------------------------------------------------------
(* Contexts and threads.                                                   *)

\* replicas[get_idx(key)]: the other members, or none on a foreign machine.
Replicas(o) ==
  IF Home(o) \in Group[KeyOf(o)] THEN Group[KeyOf(o)] \ {Home(o)} ELSE {}

\* enqueue_request to every replica of the key, with one payload.
Requests(o, round, c, v) ==
  {[op |-> o, round |-> round, to |-> n, clock |-> c, val |-> v] :
     n \in Replicas(o)}

Response(m, c, v) ==
  [op |-> m.op, round |-> m.round, from |-> m.to, clock |-> c, val |-> v]

\* Variant with a fault: wait for every replica.
Quorate_All(n, n_msgs) == n >= n_msgs

\* req_conts: "if (2 * n_resp + 1 < n_msgs) return".
Quorate(n, n_msgs) == ~(2 * n + 1 < n_msgs)

\* The continuation a thread is inside of, when it is inside of one.
Top(t) == busy[t][Len(busy[t])]

\* Variant with a fault: the event loop also runs between send and local put.
Polling_Anywhere(t) == NodeOf[t] \in up

\* A thread is in its event loop, or in the one alloc_msg_buffer runs while
\* the continuation on top of the stack waits for a buffer to send with.
Polling(t) == /\ NodeOf[t] \in up
              /\ busy[t] # <<>> => /\ Len(busy[t]) =< MaxNest
                                   /\ st[Top(t)] = "reduced"

Enter(o) == busy' = [busy EXCEPT ![ThreadOf(o)] = Append(@, o)]
Leave(o) == busy' = [busy EXCEPT ![ThreadOf(o)] = SubSeq(@, 1, Len(@) - 1)]

\* put_ret, get_ret and skip_ret after decrement_traces: a trace and a slot of
\* the rate limiter are given back, in size_t arithmetic.
Finish(o) ==
  /\ current_traces' = [current_traces EXCEPT ![ThreadOf(o)] = (@ - 1) % SizeMod]
  /\ request' = [request EXCEPT ![Home(o)] = (@ - 1) % SizeMod]

----------------------------------------------------------------------------
(* Starting an operation.                                                  *)

\* send_and_encrypt_msg for the first round of o: the queries go out, or the
\* operation is skipped because the machine is not in the key's group.
SendQuery(o) ==
  /\ st' = [st EXCEPT ![o] = IF Replicas(o) = {} THEN "skip" ELSE "query"]
  /\ reqs' = reqs \cup Requests(o, "query", MinClock, NoValue)
  /\ floor' = [floor EXCEPT ![o] = acked[KeyOf(o)]]
  /\ UNCHANGED <<trace, stamp, result, kv, resps, n_resp, cache, done, busy, up, acked>>

\* run_event_loop's body: rate.aquire, then benchmark_put or benchmark_get for
\* the next command of the thread's part of the trace.
Benchmark(o) ==
  LET t == ThreadOf(o)
      n == Home(o)
  IN /\ st[o] = "new" /\ ~trace[o].client
     /\ n \in up /\ busy[t] = <<>>
     /\ \A p \in Op : p < o /\ ThreadOf(p) = t /\ ~trace[p].client => st[p] # "new"
     /\ request[n] < MaxRequest
     /\ SendQuery(o)
     /\ IF Replicas(o) = {}
        THEN UNCHANGED <<current_traces, request>>      \* given back at once
        ELSE /\ current_traces' = [current_traces EXCEPT ![t] = (@ + 1) % SizeMod]
             /\ request' = [request EXCEPT ![n] = (@ + 1) % SizeMod]

\* req_handlers<Put> and req_handlers<Get>: a client's call, neither counted
\* as a trace nor rate limited.
ClientCall(o) ==
  /\ st[o] = "new" /\ trace[o].client
  /\ Polling(ThreadOf(o))
  /\ SendQuery(o)
  /\ IF Replicas(o) = {} THEN Finish(o) ELSE UNCHANGED <<current_traces, request>>

----------------------------------------------------------------------------
(* Request handlers of a replica.                                          *)

\* eRPC hands a request to the thread the session ends in; the handler answers
\* with encrypt_and_resp.
Handle(m, c, v) ==
  /\ m \in reqs
  /\ Polling(Peer[ThreadOf(m.op)][m.to])
  /\ reqs' = reqs \ {m}
  /\ resps' = resps \cup {Response(m, c, v)}
  /\ UNCHANGED <<trace, st, stamp, result, n_resp, cache, done, busy,
                 current_traces, request, up, acked, floor>>

\* req_handlers<GetTimeStamp>: the clock of our entry.
GetTimeStamp(m) ==
  /\ m.round = "query" /\ trace[m.op].kind = "put"
  /\ Handle(m, kv[m.to][KeyOf(m.op)].clock, NoValue)
  /\ UNCHANGED kv

\* req_handlers<GetValueTimeStamp>: the clock and the value of our entry.
GetValueTimeStamp(m) ==
  /\ m.round = "query" /\ trace[m.op].kind = "get"
  /\ Handle(m, kv[m.to][KeyOf(m.op)].clock, kv[m.to][KeyOf(m.op)].val)
  /\ UNCHANGED kv

\* req_handlers<PutReplica>: an ACK whether or not the store took the value.
PutReplica(m) ==
  /\ m.round = "update"
  /\ kv' = [kv EXCEPT ![m.to][KeyOf(m.op)] = Put(@, m.clock, m.val)]
  /\ Handle(m, MinClock, NoValue)

----------------------------------------------------------------------------
(* Continuations of the coordinating thread.                               *)

\* req_conts: the response is counted, and goes to the cache (Cached).
Receive(m) ==
  /\ m \in resps
  /\ Polling(ThreadOf(m.op))
  /\ resps' = resps \ {m}
  /\ n_resp' = [n_resp EXCEPT ![m.op][m.round] = @ + 1]

Cached(m) == cache[m.op] \cup {m}

\* Variant with a fault: the context's flag is not tested.
Through_NoFlag(m) == Quorate(n_resp[m.op][m.round] + 1, Cardinality(Replicas(m.op)))

\* The early returns of req_conts let only one response of a round through.
Through(m) ==
  /\ Quorate(n_resp[m.op][m.round] + 1, Cardinality(Replicas(m.op)))
  /\ ~done[m.op][m.round]

\* The response that is let through.  It is the last one to use the cache: the
\* buffers stay in it until the context dies, but nobody looks at them again.
Complete(m) ==
  /\ Receive(m)
  /\ Through(m)
  /\ done' = [done EXCEPT ![m.op][m.round] = TRUE]
  /\ cache' = [cache EXCEPT ![m.op] = {}]

TooEarlyOrLate(m) ==
  /\ Receive(m)
  /\ ~Through(m)
  /\ cache' = IF m.round = "query" /\ ~done[m.op][m.round]
              THEN [cache EXCEPT ![m.op] = Cached(m)]
              ELSE cache
  /\ UNCHANGED <<trace, st, stamp, result, kv, reqs, done, busy,
                 current_traces, request, up, acked, floor>>

\* Variant with a fault: our own entry is left out of the reduction.
Counts_RemoteOnly(o, answers) == {r.clock.count : r \in answers}

\* The counters GetTime reduces over: our own entry's and the cached ones.
Counts(o, answers) ==
  {kv[Home(o)][KeyOf(o)].clock.count} \cup {r.clock.count : r \in answers}

\* req_conts_impl<GetTime> up to the PutReplica message: read our own store,
\* take the largest counter and make the stamp.
GetTime(m) ==
  LET o == m.op
  IN /\ m.round = "query" /\ trace[o].kind = "put"
     /\ Complete(m)
     /\ \E max \in Counts(o, Cached(m)) :
          /\ \A c \in Counts(o, Cached(m)) : c =< max
          /\ stamp' = [stamp EXCEPT ![o] = Stamp(max, MId[Home(o)])]
     /\ result' = [result EXCEPT ![o] = o]
     /\ st' = [st EXCEPT ![o] = "reduced"]
     /\ Enter(o)
     /\ UNCHANGED <<trace, kv, reqs, current_traces, request, up, acked, floor>>

\* The continuation o resumes: it is the innermost one of its thread.
Resumed(o) ==
  /\ Home(o) \in up
  /\ busy[ThreadOf(o)] # <<>>
  /\ Top(ThreadOf(o)) = o

\* req_conts_impl<GetTime>: the PutReplica messages leave.
SendPutReplica(o) ==
  /\ Resumed(o) /\ st[o] = "reduced" /\ trace[o].kind = "put"
  /\ reqs' = reqs \cup Requests(o, "update", stamp[o], result[o])
  /\ st' = [st EXCEPT ![o] = "sent"]
  /\ UNCHANGED <<trace, stamp, result, kv, resps, n_resp, cache, done, busy,
                 current_traces, request, up, acked, floor>>

\* Variant with a fault: the node keeps the clock it was created with.
LocalPut_StaleClock(o) ==
  /\ Resumed(o) /\ st[o] = "sent"
  /\ kv' = [kv EXCEPT ![Home(o)][KeyOf(o)] = Put(@, MinClock, result[o])]
  /\ st' = [st EXCEPT ![o] = "update"]
  /\ Leave(o)
  /\ UNCHANGED <<trace, stamp, result, reqs, resps, n_resp, cache, done,
                 current_traces, request, up, acked, floor>>

\* req_conts_impl<GetTime>: kv.put of our own copy, after the messages left.
LocalPut(o) ==
  /\ Resumed(o) /\ st[o] = "sent"
  /\ kv' = [kv EXCEPT ![Home(o)][KeyOf(o)] = Put(@, stamp[o], result[o])]
  /\ st' = [st EXCEPT ![o] = "update"]
  /\ Leave(o)
  /\ UNCHANGED <<trace, stamp, result, reqs, resps, n_resp, cache, done,
                 current_traces, request, up, acked, floor>>

\* req_conts_impl<AckPutTime>: the put is over.
AckPutTime(m) ==
  LET o == m.op
  IN /\ m.round = "update" /\ trace[o].kind = "put"
     /\ Complete(m)
     /\ st' = [st EXCEPT ![o] = "ret"]
     /\ acked' = [acked EXCEPT ![KeyOf(o)] = Later(@, stamp[o])]
     /\ Finish(o)
     /\ UNCHANGED <<trace, stamp, result, kv, reqs, busy, up, floor>>

\* What RetValue's reduction can end with: our own entry, or a cached answer,
\* of which it keeps get_key() of the copied message and not get_value().
Candidates(local, answers) ==
  {local} \cup {[clock |-> r.clock, val |-> KeyBytes] : r \in answers}

\* Variant with a fault: the reduction starts from nothing instead of our entry.
Chosen_AnswersOnly(local, answers) ==
  {c \in Candidates(local, answers) \ {local} :
     \A d \in Candidates(local, answers) \ {local} : Leq(d.clock, c.clock)}

\* The greatest clock; a cached one replaces ours only if it is greater.
Chosen(local, answers) ==
  {c \in Candidates(local, answers) :
     /\ \A d \in Candidates(local, answers) : Leq(d.clock, c.clock)
     /\ c.clock = local.clock => c = local}

\* More than half of the messages brought one clock (ours is not counted).
Consens(answers, n_msgs) ==
  \E r \in answers : Cardinality({q \in answers : q.clock = r.clock}) > n_msgs \div 2

\* req_conts_impl<RetValue>: with consensus or nothing to write back the get
\* returns; otherwise it first has to get buffers for the write-back.
RetValue(m) ==
  LET o == m.op
  IN /\ m.round = "query" /\ trace[o].kind = "get"
     /\ Complete(m)
     /\ \E chosen \in Chosen(kv[Home(o)][KeyOf(o)], Cached(m)) :
          /\ stamp' = [stamp EXCEPT ![o] = chosen.clock]
          /\ result' = [result EXCEPT ![o] = chosen.val]
          /\ IF Consens(Cached(m), Cardinality(Replicas(o))) \/ chosen.val = NoValue
             THEN /\ st' = [st EXCEPT ![o] = "ret"]
                  /\ Finish(o)
                  /\ UNCHANGED busy
             ELSE /\ st' = [st EXCEPT ![o] = "reduced"]
                  /\ Enter(o)
                  /\ UNCHANGED <<current_traces, request>>
     /\ UNCHANGED <<trace, kv, reqs, up, acked, floor>>

\* The rest of RetValue: the write-back leaves for the other members, not for
\* our own store, and the get returns without waiting for it.
WriteBackAndReturn(o) ==
  /\ Resumed(o) /\ st[o] = "reduced" /\ trace[o].kind = "get"
  /\ reqs' = reqs \cup Requests(o, "update", stamp[o], result[o])
  /\ st' = [st EXCEPT ![o] = "ret"]
  /\ Finish(o)
  /\ Leave(o)
  /\ UNCHANGED <<trace, stamp, result, kv, resps, n_resp, cache, done, up, acked, floor>>

\* req_conts_impl<RetGetPutUpdate> is empty.
RetGetPutUpdate(m) ==
  /\ m.round = "update" /\ trace[m.op].kind = "get"
  /\ Complete(m)
  /\ UNCHANGED <<trace, st, stamp, result, kv, reqs, busy,
                 current_traces, request, up, acked, floor>>

----------------------------------------------------------------------------
\* A machine stops for good: stores are in memory and nothing restarts.
Stop(n) ==
  /\ Cardinality(Node \ up) < MaxDown
  /\ up' = up \ {n}
  /\ n \in up
  /\ UNCHANGED <<trace, st, stamp, result, kv, reqs, resps, n_resp, cache, done, busy,
                 current_traces, request, acked, floor>>

Init ==
  /\ trace \in Traces
  /\ st = [o \in Op |-> "new"]
  /\ stamp = [o \in Op |-> MinClock]
  /\ result = [o \in Op |-> NoValue]
  /\ kv = [n \in Node |-> [k \in Key |-> Absent]]
  /\ reqs = {} /\ resps = {}
  /\ n_resp = [o \in Op |-> [r \in Round |-> 0]]
  /\ cache = [o \in Op |-> {}]
  /\ done = [o \in Op |-> [r \in Round |-> FALSE]]
  /\ busy = [t \in Thread |-> <<>>]
  /\ current_traces = [t \in Thread |-> 0]
  /\ request = [n \in Node |-> 0]
  /\ up = Node
  /\ acked = [k \in Key |-> MinClock]
  /\ floor = [o \in Op |-> MinClock]

Handler(m) == GetTimeStamp(m) \/ GetValueTimeStamp(m) \/ PutReplica(m)

Continuation(m) == \/ TooEarlyOrLate(m) \/ GetTime(m) \/ AckPutTime(m)
                   \/ RetValue(m) \/ RetGetPutUpdate(m)

Start(o) == Benchmark(o) \/ ClientCall(o)
Resume(o) == SendPutReplica(o) \/ LocalPut(o) \/ WriteBackAndReturn(o)

Next ==
  \/ \E o \in Op : Start(o) \/ Resume(o)
  \/ \E m \in reqs : Handler(m)
  \/ \E m \in resps : Continuation(m)
  \/ \E n \in Node : Stop(n)

Spec == Init /\ [][Next]_vars

\* Every thread keeps polling its event loop, which handles some request and
\* some response that is there, and a continuation that waits for a buffer gets
\* one; nothing is assumed of Stop.
Fairness ==
  /\ \A o \in Op : WF_vars(Start(o)) /\ WF_vars(Resume(o))
  /\ \A t \in Thread :
       /\ WF_vars(\E m \in reqs : Peer[ThreadOf(m.op)][m.to] = t /\ Handler(m))
       /\ WF_vars(\E m \in resps : ThreadOf(m.op) = t /\ Continuation(m))

FairSpec == Spec /\ Fairness

----------------------------------------------------------------------------
(* Properties.                                                             *)

TypeOK ==
  /\ trace \in Traces
  /\ st \in [Op -> Status]
  /\ stamp \in [Op -> Clock]
  /\ result \in [Op -> Value]
  /\ kv \in [Node -> [Key -> Entry]]
  /\ reqs \subseteq Req
  /\ resps \subseteq Resp
  /\ n_resp \in [Op -> [Round -> Nat]]
  /\ cache \in [Op -> SUBSET Resp]
  /\ done \in [Op -> [Round -> BOOLEAN]]
  /\ busy \in [Thread -> Seq(Op)]
  /\ current_traces \in [Thread -> 0 .. SizeMod - 1]
  /\ request \in [Node -> 0 .. SizeMod - 1]
  /\ up \subseteq Node
  /\ acked \in [Key -> Clock]
  /\ floor \in [Op -> Clock]

HasClock(n, k, c) == Leq(c, kv[n][k].clock)

HeldByMajority(k, c) ==
  \E a, b \in Group[k] : a # b /\ HasClock(a, k, c) /\ HasClock(b, k, c)

\* A put that returned is held, or superseded, by two of the three machines of
\* its group, so that it survives the stop of any one of them.  AckPutTime
\* returns on the first ACK: the second holder is the coordinator, whose own
\* kv.put comes only after its messages left.
AckedOnMajority ==
  \A o \in Op : trace[o].kind = "put" /\ st[o] = "ret" => HeldByMajority(KeyOf(o), stamp[o])

\* The order in which operations happen: a put is stamped above every put that
\* had returned before it started (unless the 32-bit counter wrapped to 0), and
\* a get returns at least the clock of every such put.  GetTime and RetValue
\* look at two of three stores only.
RealTimeOrder ==
  \A o \in Op :
    /\ trace[o].kind = "put" /\ st[o] \in {"reduced", "sent", "update", "ret"}
         => stamp[o].count = 0 \/ Less(floor[o], stamp[o])
    /\ trace[o].kind = "get" /\ st[o] \in {"reduced", "ret"} => Leq(floor[o], stamp[o])

\* Every entry of a store goes back to a put of that key: the clock is the
\* stamp of one and the value is what it wrote, or the key bytes RetValue
\* writes back in its place.
StoredWasPut ==
  \A n \in Node, k \in Key :
    kv[n][k] # Absent =>
      \E o \in Op : /\ trace[o].kind = "put" /\ KeyOf(o) = k
                    /\ st[o] \in {"sent", "update", "ret"}
                    /\ kv[n][k].clock = stamp[o]
                    /\ kv[n][k].val \in {result[o], KeyBytes}

\* Two stores with the same clock for a key hold the same value: replicas that
\* compare clocks only (KV_store::put keeps the old value on a tie) never
\* diverge.  Key bytes that a get wrote back are the subject of
\* GetReturnsPutValue and left aside here.
ReplicaAgreement ==
  \A m, n \in Node, k \in Key :
    /\ kv[m][k].clock = kv[n][k].clock
    /\ KeyBytes \notin {kv[m][k].val, kv[n][k].val}
    => kv[m][k].val = kv[n][k].val

\* What is left of agreement when stamps can be equal, because threads and
\* nested continuations of a machine share its id and do not reserve the
\* counter, or because two addresses end in the same octet: stores that hold
\* different values under one clock hold puts with one id, and neither of the
\* two had returned when the other started.
OnlyOverlapDiverges ==
  \A m, n \in Node, k \in Key :
    LET p == kv[m][k].val
        q == kv[n][k].val
    IN /\ kv[m][k].clock = kv[n][k].clock /\ kv[m][k].clock.count # 0
       /\ p \in Op /\ q \in Op /\ p # q
       => /\ MId[Home(p)] = MId[Home(q)]
          /\ Less(floor[p], stamp[q]) /\ Less(floor[q], stamp[p])

\* What becomes of a key when a put's counter wraps to 0 in Count_t.  It wraps
\* only where a machine of the group holds the largest counter, and that entry
\* stays, so the put is discarded there.  Once a put with the largest counter
\* has returned, every later put of the key is stamped 0, returns, and is
\* older than what two machines hold: the value of the key is final.
WrapIsFinal ==
  \A o \in Op : trace[o].kind = "put" /\ st[o] \in {"reduced", "sent", "update", "ret"} =>
    /\ stamp[o].count = 0 => \E n \in Group[KeyOf(o)] : kv[n][KeyOf(o)].clock.count = CountMod - 1
    /\ floor[o].count = CountMod - 1 => stamp[o].count = 0

Running(o) == ~trace[o].client /\ Started(o) /\ ~Returned(o)
ClientEnded(o) == trace[o].client /\ Returned(o)

\* The counters a thread polls for its end and the rate limiter count the
\* operations of the trace that are under way: each is given back once, however
\* many responses of however many rounds arrive late.  A client's call is
\* given back but was never taken, so each one that ended is missing from both
\* counters, in size_t arithmetic, and lets one more operation pass the limit.
CountersMatch ==
  /\ \A t \in Thread :
       current_traces[t] = (Cardinality({o \in Op : Running(o) /\ ThreadOf(o) = t})
         - Cardinality({o \in Op : ClientEnded(o) /\ ThreadOf(o) = t})) % SizeMod
  /\ \A n \in Node :
       LET running == Cardinality({o \in Op : Running(o) /\ Home(o) = n})
           ended == Cardinality({o \in Op : ClientEnded(o) /\ Home(o) = n})
       IN request[n] = (running - ended) % SizeMod /\ running =< MaxRequest + ended

\* What a get returns for a key was written to that key by a put.
GetReturnsPutValue ==
  \A o \in Op : trace[o].kind = "get" /\ st[o] = "ret" =>
    \/ result[o] = NoValue
    \/ \E p \in Op : trace[p].kind = "put" /\ KeyOf(p) = KeyOf(o) /\ result[o] = p

\* How far an operation is for its caller.
AbstractStatus(s) ==
  CASE s = "new" -> "idle"
    [] s = "skip" -> "skipped"
    [] s = "query" -> "running"
    [] s \in {"reduced", "sent", "update"} -> "stamped"
    [] s = "ret" -> "over"

\* The two-round protocol with its quorums, nested event loops, late answers and
\* write-backs implements a regular register in the order of the clocks: it is
\* in particular never a clock of no put that a get returns, also when what it
\* found came from another get's write-back.
AsRegister == INSTANCE Register WITH status <- [o \in Op |-> AbstractStatus(st[o])]
ImplementsRegister == AsRegister!Spec

\* Every operation of the trace is started and returns, or its machine has
\* stopped, and both stay so: one stopped machine blocks nobody else, nor does
\* the rate limiter.
EveryOpReturns == <>(\A o \in Op : Returned(o) \/ Home(o) \notin up)
=============================================================================
