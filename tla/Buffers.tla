------------------------------ MODULE Buffers ------------------------------
(***************************************************************************)
(* The message buffers of one server thread and the contexts that own them *)
(* (replica_context.h, rpc_context.h).  A round of an operation has a      *)
(* ReplicaContext with one node per replica, and a node a request and a    *)
(* response buffer from the thread's eRPC endpoint.  Each node holds a     *)
(* shared_ptr to its context, which owns the nodes: the context lives until*)
(* the last response was handled.  Responses stay in its cache until then. *)
(*                                                                         *)
(* A thread that gets no buffer runs its event loop until it gets one, in  *)
(* the middle of whatever it was doing: stack holds the calls that wait,   *)
(* each building a context (or an answer that is too large for the         *)
(* preallocated buffer) and, in a continuation, the node it runs for.      *)
(*                                                                         *)
(* eRPC is external: it hands out and takes back buffers, delivers each    *)
(* response once, in any order, and frees the buffer of a large answer some*)
(* time after it was sent.                                                 *)
(***************************************************************************)
EXTENDS Integers, Sequences, FiniteSets, FiniteSetsExt

CONSTANTS Op,           \* integers: the operations of the thread, in order
          Kinds,        \* the kinds they may have
          Replica,      \* integers: the replicas a request goes to
          Incoming,     \* large answers the thread gives to others
          Pool,         \* buffers of the thread's endpoint
          MaxRequest,   \* RateLimit::max_request
          MaxDown       \* bound: replicas that stop

Kind == {"put", "get", "cmd"}
Round == {"query", "update"}
Context == Op \X Round
NoNode == <<>>

ASSUME OpAssumption == /\ Op \subseteq Nat /\ IsFiniteSet(Op)
                       /\ Kinds \subseteq [Op -> Kind]
                       /\ Replica \subseteq Nat /\ Replica # {} /\ IsFiniteSet(Replica)
                       /\ IsFiniteSet(Incoming)
ASSUME PoolAssumption == Pool \in Nat /\ MaxRequest \in Nat /\ MaxDown \in Nat

VARIABLES kind,         \* of each operation
          st,           \* of each operation: new, running, ret
          req, resp,    \* per context, the nodes whose buffer is not null
          parent,       \* per context, the nodes that keep it alive
          cache,        \* per context, the nodes whose response it keeps
          wire,         \* per context, the nodes whose response is not here yet
          done,         \* the contexts whose flag is set
          answer,       \* per large answer: none, waiting, held, freed
          stack,        \* the calls of the thread that wait for buffers
          free,         \* buffers the endpoint can still hand out
          up            \* replicas that still run

vars == <<kind, st, req, resp, parent, cache, wire, done, answer, stack, free, up>>

Top == stack[Len(stack)]
Push(b, node) == stack' = Append(stack, [builds |-> b, node |-> node, polling |-> FALSE])
Pop == stack' = SubSeq(stack, 1, Len(stack) - 1)

\* Variant with a fault: alloc_msg_buffer waits without running the event loop.
Polling_Bottom == stack = <<>>

\* The event loop of the thread, or the one in alloc_msg_buffer.
Polling == stack # <<>> => Top.polling

BuildsContext == stack # <<>> /\ Top.builds[2] \in Round
Built(c) == resp[c] = Replica

----------------------------------------------------------------------------
(* alloc_msg_buffer.                                                       *)

\* create_buffers: the request buffer of the next node, then its response
\* buffer.
Alloc ==
  /\ BuildsContext /\ ~Built(Top.builds)
  /\ free > 0
  /\ free' = free - 1
  /\ LET c == Top.builds
         n == Min(Replica \ resp[c])
     IN IF n \in req[c]
        THEN /\ resp' = [resp EXCEPT ![c] = @ \cup {n}]
             /\ UNCHANGED <<req, parent>>
        ELSE /\ req' = [req EXCEPT ![c] = @ \cup {n}]
             /\ parent' = [parent EXCEPT ![c] = @ \cup {n}]
             /\ UNCHANGED resp
  /\ stack' = [stack EXCEPT ![Len(stack)].polling = FALSE]
  /\ UNCHANGED <<kind, st, cache, wire, done, answer, up>>

\* No buffer: the event loop runs until one is free.
AllocFails ==
  /\ stack # <<>> /\ ~Top.polling /\ free = 0
  /\ BuildsContext => ~Built(Top.builds)
  /\ stack' = [stack EXCEPT ![Len(stack)].polling = TRUE]
  /\ UNCHANGED <<kind, st, req, resp, parent, cache, wire, done, answer, free, up>>

----------------------------------------------------------------------------
(* The end of a node.                                                      *)

\* Variant with a fault: the destructor of the context forgets the cache.
Remove_KeepsCache(c, n, left, held) ==
  /\ req' = [req EXCEPT ![c] = @ \ {n}]
  /\ resp' = [resp EXCEPT ![c] = left \ {n}]
  /\ cache' = [cache EXCEPT ![c] = held]
  /\ parent' = [parent EXCEPT ![c] = @ \ {n}]
  /\ free' = free + Cardinality(req[c] \cap {n}) + Cardinality(left \cap {n})

\* NodeReplicaContext::remove for node n of c, whose response buffers and cache
\* are now left and held: the request buffer, and the response buffer if it is
\* still there, are freed; the last node takes the context and its cache along.
Remove(c, n, left, held) ==
  LET last == parent[c] = {n}
      cached == IF last THEN Cardinality(held) ELSE 0
  IN /\ req' = [req EXCEPT ![c] = @ \ {n}]
     /\ resp' = [resp EXCEPT ![c] = left \ {n}]
     /\ cache' = [cache EXCEPT ![c] = IF last THEN {} ELSE held]
     /\ parent' = [parent EXCEPT ![c] = @ \ {n}]
     /\ free' = free + Cardinality(req[c] \cap {n}) + Cardinality(left \cap {n}) + cached

\* Variant with a fault: the node keeps the pointer to the cached buffer.
AddToCache_Shared(c, n) == resp[c]

\* add_to_cache moves the response buffer of n into the cache: what is left.
AddToCache(c, n) == resp[c] \ {n}

----------------------------------------------------------------------------
(* Operations.                                                             *)

Running == {o \in Op : st[o] = "running"}

\* benchmark_put, benchmark_get, or send_cmd after the drain.
Start(o) ==
  /\ st[o] = "new" /\ stack = <<>>
  /\ \A p \in Op : p < o => st[p] # "new"
  /\ IF kind[o] = "cmd" THEN Running = {} ELSE Cardinality(Running) < MaxRequest
  /\ st' = [st EXCEPT ![o] = "running"]
  /\ Push(<<o, "query">>, NoNode)
  /\ UNCHANGED <<kind, req, resp, parent, cache, wire, done, answer, free, up>>

\* The rest of send_and_encrypt_msg, and of the continuation it was called
\* from: a get returns now; then the node of the continuation is removed.
Send ==
  /\ BuildsContext /\ Built(Top.builds)
  /\ wire' = [wire EXCEPT ![Top.builds] = Replica]
  /\ Pop
  /\ IF Top.node = NoNode
     THEN UNCHANGED <<st, req, resp, cache, parent, free>>
     ELSE LET c == Top.node[1]
              n == Top.node[2]
          IN /\ Remove(c, n, resp[c], cache[c])
             /\ st' = IF kind[c[1]] = "get" THEN [st EXCEPT ![c[1]] = "ret"] ELSE st
  /\ UNCHANGED <<kind, done, answer, up>>

\* req_conts: the response of replica n to a request of context c.
Receive(c, n) ==
  /\ n \in wire[c] /\ n \in up /\ Polling
  /\ wire' = [wire EXCEPT ![c] = @ \ {n}]

\* Variant with a fault: the node is removed before its continuation runs.
Advance_RemoveFirst(c, n) ==
  /\ Receive(c, n)
  /\ c \notin done /\ c[2] = "query" /\ kind[c[1]] # "cmd"
  /\ done' = done \cup {c}
  /\ Push(<<c[1], "update">>, <<c, n>>)
  /\ Remove(c, n, AddToCache(c, n), cache[c] \cup {n})
  /\ UNCHANGED <<kind, st, answer, up>>

\* GetTime, or RetValue with a value to write back: the second round's context
\* is built while the first one's is still in use.
Advance(c, n) ==
  /\ Receive(c, n)
  /\ c \notin done /\ c[2] = "query" /\ kind[c[1]] # "cmd"
  /\ done' = done \cup {c}
  /\ Push(<<c[1], "update">>, <<c, n>>)
  /\ resp' = [resp EXCEPT ![c] = AddToCache(c, n)]
  /\ cache' = [cache EXCEPT ![c] = @ \cup {n}]
  /\ UNCHANGED <<kind, st, req, parent, answer, free, up>>

\* AckPutTime, or RetValue with nothing to write back.
Return(c, n) ==
  /\ Receive(c, n)
  /\ c \notin done
  /\ <<kind[c[1]], c[2]>> \in {<<"put", "update">>, <<"get", "query">>}
  /\ done' = done \cup {c}
  /\ st' = [st EXCEPT ![c[1]] = "ret"]
  /\ Remove(c, n, AddToCache(c, n), cache[c] \cup {n})
  /\ UNCHANGED <<kind, answer, stack, up>>

\* A late response, that of a write-back, or CmdRet.
Late(c, n) ==
  /\ Receive(c, n)
  /\ \/ c \in done \/ kind[c[1]] = "cmd"
     \/ kind[c[1]] = "get" /\ c[2] = "update"
  /\ st' = IF kind[c[1]] = "cmd" /\ wire[c] = {n} THEN [st EXCEPT ![c[1]] = "ret"] ELSE st
  /\ Remove(c, n, AddToCache(c, n), cache[c] \cup {n})
  /\ UNCHANGED <<kind, done, answer, stack, up>>

----------------------------------------------------------------------------
(* Answers too large for pre_resp_msgbuf.                                  *)

\* A GetValueTimeStamp handler starts to answer.
Serve(h) ==
  /\ answer[h] = "none" /\ Polling
  /\ answer' = [answer EXCEPT ![h] = "waiting"]
  /\ Push(<<h, "answer">>, NoNode)
  /\ UNCHANGED <<kind, st, req, resp, parent, cache, wire, done, free, up>>

\* encrypt_and_resp has its dyn_resp_msgbuf.
Respond ==
  /\ stack # <<>> /\ Top.builds[2] = "answer" /\ free > 0
  /\ answer' = [answer EXCEPT ![Top.builds[1]] = "held"]
  /\ free' = free - 1
  /\ Pop
  /\ UNCHANGED <<kind, st, req, resp, parent, cache, wire, done, up>>

\* eRPC frees it when the session slot is used again.
FreeAnswer(h) ==
  /\ answer[h] = "held"
  /\ answer' = [answer EXCEPT ![h] = "freed"]
  /\ free' = free + 1
  /\ UNCHANGED <<kind, st, req, resp, parent, cache, wire, done, stack, up>>

Stop(n) ==
  /\ n \in up /\ Cardinality(Replica \ up) < MaxDown
  /\ up' = up \ {n}
  /\ UNCHANGED <<kind, st, req, resp, parent, cache, wire, done, answer, stack, free>>

----------------------------------------------------------------------------

Init ==
  /\ kind \in Kinds
  /\ st = [o \in Op |-> "new"]
  /\ req = [c \in Context |-> {}] /\ resp = [c \in Context |-> {}]
  /\ parent = [c \in Context |-> {}] /\ cache = [c \in Context |-> {}]
  /\ wire = [c \in Context |-> {}]
  /\ done = {}
  /\ answer = [h \in Incoming |-> "none"]
  /\ stack = <<>>
  /\ free = Pool
  /\ up = Replica

Continuation(c, n) == Advance(c, n) \/ Return(c, n) \/ Late(c, n)

Next ==
  \/ Alloc \/ AllocFails \/ Send \/ Respond
  \/ \E o \in Op : Start(o)
  \/ \E c \in Context, n \in Replica : Continuation(c, n)
  \/ \E h \in Incoming : Serve(h) \/ FreeAnswer(h)
  \/ \E n \in Replica : Stop(n)

Spec == Init /\ [][Next]_vars

\* The thread runs, and responses of running replicas arrive.  When eRPC frees
\* the buffer of an answer is up to others.
Fairness ==
  /\ WF_vars(Alloc \/ AllocFails \/ Send \/ Respond)
  /\ \A o \in Op : WF_vars(Start(o))
  /\ \A c \in Context, n \in Replica : WF_vars(Continuation(c, n))

FairSpec == Spec /\ Fairness

----------------------------------------------------------------------------
(* Properties.                                                             *)

Holding(c) == Cardinality(req[c]) + Cardinality(resp[c]) + Cardinality(cache[c])

\* The nodes with a buffer in req, resp or cache.
Owners(buffers) == {x \in Context \X Replica : x[2] \in buffers[x[1]]}
Answering == {h \in Incoming : answer[h] = "held"}

\* No buffer is lost or freed twice, whoever owns it and in whatever order the
\* responses of the rounds come: each is free, in a node, in a cache, or in an
\* answer under way.
BuffersAccounted ==
  free + Cardinality(Owners(req)) + Cardinality(Owners(resp)) + Cardinality(Owners(cache))
    + Cardinality(Answering) = Pool

\* A context is alive while anybody can still use it: the continuation that
\* waits for buffers of the next round, though all other responses of its own
\* may be handled meanwhile, and eRPC, which holds the node of every request.
ContextsOutliveUse ==
  /\ \A i \in DOMAIN stack : stack[i].node # NoNode =>
       parent[stack[i].node[1]] # {}
  /\ \A c \in Context : wire[c] \subseteq parent[c]

\* And not longer: once its responses are handled a context and its buffers are
\* gone, and what a stopped replica leaves behind is a request and the
\* responses of its context.
NothingLeaks ==
  stack = <<>> => \A c \in Context :
    /\ wire[c] = {} => parent[c] = {} /\ Holding(c) = 0
    /\ wire[c] # {} => Holding(c) =< Cardinality(Replica) + Cardinality(wire[c])

\* With the pool as large as it is here, no operation waits for ever for a
\* buffer that only another waiting operation of the thread, or an answer
\* that eRPC keeps, could give back, unless a replica stopped: what waits for
\* it keeps its buffers.
NoBufferStarvation == \A o \in Op : <>(st[o] = "ret" \/ up # Replica)
=============================================================================
