--------------------------- MODULE BuffersProofs ---------------------------
(***************************************************************************)
(* Contexts of replica_context.h outlive every use of them, for any number *)
(* of operations, replicas, answers and buffers, and whatever is nested in *)
(* the event loop of a thread that waits for a buffer.                     *)
(***************************************************************************)
EXTENDS Buffers, FiniteSetTheorems, TLAPS

Frame == [builds : Context \cup (Incoming \X {"answer"}),
          node : (Context \X Replica) \cup {NoNode},
          polling : BOOLEAN]

Types ==
  /\ st \in [Op -> {"new", "running", "ret"}]
  /\ req \in [Context -> SUBSET Replica] /\ resp \in [Context -> SUBSET Replica]
  /\ parent \in [Context -> SUBSET Replica] /\ wire \in [Context -> SUBSET Replica]
  /\ stack \in Seq(Frame)

\* eRPC holds nodes of live contexts only.
WireLives == \A c \in Context : wire[c] \subseteq parent[c]

\* The node of a continuation that waits is one of a query, has been received
\* and has not been removed.
NodesLive ==
  \A i \in DOMAIN stack : stack[i].node # NoNode =>
    /\ stack[i].node[1][2] = "query"
    /\ stack[i].node[2] \in parent[stack[i].node[1]] \ wire[stack[i].node[1]]

\* No two continuations run for the same node.
NodesDiffer ==
  \A i, j \in DOMAIN stack : i # j /\ stack[i].node # NoNode => stack[i].node # stack[j].node

\* A context is built by one call, with a node for each buffer it has so far,
\* and nothing of it is in use yet.
BuildsApart ==
  \A i \in DOMAIN stack : stack[i].builds \in Context =>
    /\ req[stack[i].builds] \subseteq parent[stack[i].builds]
    /\ resp[stack[i].builds] \subseteq parent[stack[i].builds]
    /\ wire[stack[i].builds] = {}
    /\ \A j \in DOMAIN stack :
         /\ j # i => stack[j].builds # stack[i].builds
         /\ stack[j].node # NoNode => stack[j].node[1] # stack[i].builds

\* A round has no context before its time.
Untouched(c) ==
  /\ req[c] = {} /\ resp[c] = {} /\ parent[c] = {} /\ wire[c] = {}
  /\ \A i \in DOMAIN stack : stack[i].builds # c

NotYet ==
  \A o \in Op : /\ st[o] = "new" => Untouched(<<o, "query">>)
                /\ <<o, "query">> \notin done => Untouched(<<o, "update">>)

LifeInv ==
  /\ Types /\ WireLives /\ NodesLive /\ NodesDiffer /\ BuildsApart /\ NotYet

----------------------------------------------------------------------------
(* The stack.                                                              *)

\* A call that starts is the new top; the others stay.
LEMMA Pushed ==
  ASSUME stack \in Seq(Frame), NEW f \in Frame, stack' = Append(stack, f)
  PROVE  /\ stack' \in Seq(Frame)
         /\ DOMAIN stack' = DOMAIN stack \cup {Len(stack) + 1}
         /\ Len(stack) + 1 \notin DOMAIN stack
         /\ stack'[Len(stack) + 1] = f
         /\ \A i \in DOMAIN stack : stack'[i] = stack[i]
  OBVIOUS

\* A call that ends leaves the others.
LEMMA Popped ==
  ASSUME stack \in Seq(Frame), stack # <<>>, Pop
  PROVE  /\ stack' \in Seq(Frame)
         /\ Len(stack) \in DOMAIN stack
         /\ DOMAIN stack' = DOMAIN stack \ {Len(stack)}
         /\ \A i \in DOMAIN stack' : stack'[i] = stack[i]
<1>1. Len(stack) \in Nat \ {0}
  OBVIOUS
<1>2. stack' = SubSeq(stack, 1, Len(stack) - 1)
  BY DEF Pop
<1> QED
  BY <1>1, <1>2

\* Whether a call polls changes neither what it builds nor its node.
LEMMA Polls ==
  ASSUME stack \in Seq(Frame), stack # <<>>, NEW p \in BOOLEAN,
         stack' = [stack EXCEPT ![Len(stack)].polling = p]
  PROVE  /\ stack' \in Seq(Frame)
         /\ DOMAIN stack' = DOMAIN stack
         /\ \A i \in DOMAIN stack : /\ stack'[i].builds = stack[i].builds
                                    /\ stack'[i].node = stack[i].node
<1>1. Len(stack) \in DOMAIN stack /\ stack[Len(stack)] \in Frame
  OBVIOUS
<1>2. [stack[Len(stack)] EXCEPT !.polling = p] \in Frame
  BY <1>1 DEF Frame
<1> QED
  BY <1>1, <1>2 DEF Frame

\* create_buffers fills nodes that exist: the next one is a replica.
LEMMA SmallestIsIn ==
  ASSUME NEW S \in SUBSET Replica, S # {}
  PROVE  Min(S) \in S
<1>1. S \subseteq Nat
  BY OpAssumption
<1>2. PICK R : R = {p \in Nat \X Nat : p[1] < p[2]}
  OBVIOUS
<1>3. IsWellFoundedOn(R, Nat)
  BY <1>2, NatLessThanWellFounded, Zenon DEF OpToRel
<1>4. PICK x \in S : \A y \in S : ~ (<<y, x>> \in R)
  BY <1>1, <1>3, WFMin
<1>5. ASSUME NEW y \in S, y < x PROVE <<y, x>> \in R
  <2>1. <<y, x>> \in Nat \X Nat /\ <<y, x>>[1] < <<y, x>>[2]
    BY <1>1, <1>5
  <2> QED
    BY <1>2, <2>1, Zenon
<1>6. \A y \in S : x =< y
  <2> SUFFICES ASSUME NEW y \in S PROVE x =< y
    OBVIOUS
  <2>1. x \in Nat /\ y \in Nat
    BY <1>1
  <2>2. ~(y < x)
    BY <1>4, <1>5
  <2> QED
    BY <2>1, <2>2
<1> QED
  BY <1>6 DEF Min

----------------------------------------------------------------------------
(* One lemma per action.                                                   *)

\* The node of a continuation is not the absence of one.
LEMMA NodeIsNode == ASSUME NEW c, NEW n PROVE <<c, n>> # NoNode
BY SMT DEF NoNode

\* An answer to another machine builds no context.
LEMMA AnswerIsNoContext == ASSUME NEW h PROVE <<h, "answer">> \notin Context
<1> SUFFICES ASSUME <<h, "answer">> \in Context PROVE FALSE
  OBVIOUS
<1>1. <<h, "answer">>[2] \in Round
  BY DEF Context
<1> QED
  BY <1>1 DEF Round

\* What the types say of a call that waits.
LEMMA Frames ==
  ASSUME Types, NEW i \in DOMAIN stack
  PROVE  /\ stack[i] \in Frame
         /\ stack[i].builds[2] \in Round => stack[i].builds \in Context
         /\ stack[i].node # NoNode =>
              /\ stack[i].node[1] \in Context /\ stack[i].node[2] \in Replica
              /\ stack[i].node = <<stack[i].node[1], stack[i].node[2]>>
<1>1. stack[i] \in Frame
  BY DEF Types
<1>2. stack[i].builds \in Context \/ stack[i].builds \in Incoming \X {"answer"}
  BY <1>1 DEF Frame
<1>3. stack[i].builds \in Incoming \X {"answer"} => stack[i].builds[2] \notin Round
  BY DEF Round
<1>4. stack[i].node # NoNode => stack[i].node \in Context \X Replica
  BY <1>1 DEF Frame
<1> QED
  BY <1>1, <1>2, <1>3, <1>4

\* benchmark_put, benchmark_get and send_cmd start with an untouched round.
LEMMA StartLife ==
  ASSUME LifeInv, NEW o \in Op, Start(o) PROVE LifeInv'
<1> DEFINE f == [builds |-> <<o, "query">>, node |-> NoNode, polling |-> FALSE]
<1>1. f \in Frame /\ f.builds = <<o, "query">> /\ f.builds \in Context
  BY DEF Frame, Context, Round
<1>2. stack' = Append(stack, f) /\ stack = <<>> /\ stack \in Seq(Frame)
  BY DEF Start, Push, LifeInv, Types
<1> HIDE DEF f
<1>3. stack' \in Seq(Frame) /\ DOMAIN stack' = {1} /\ stack'[1] = f
  BY <1>1, <1>2
<1>4. f.node = NoNode
  BY DEF f
<1>5. UNCHANGED <<req, resp, parent, wire, done>> /\ st' = [st EXCEPT ![o] = "running"]
  BY DEF Start
<1>6. Untouched(<<o, "query">>)
  BY DEF Start, LifeInv, NotYet
<1>7. Types'
  BY <1>3, <1>5 DEF LifeInv, Types
<1>8. WireLives' /\ NodesLive' /\ NodesDiffer'
  BY <1>3, <1>4, <1>5 DEF LifeInv, WireLives, NodesLive, NodesDiffer
<1>9. BuildsApart'
  BY <1>1, <1>3, <1>4, <1>5, <1>6 DEF BuildsApart, Untouched
<1>10. NotYet'
  <2> SUFFICES ASSUME NEW p \in Op
               PROVE  /\ st'[p] = "new" => Untouched(<<p, "query">>)'
                      /\ <<p, "query">> \notin done' => Untouched(<<p, "update">>)'
    BY DEF NotYet
  <2>1. st'[p] = "new" => p # o /\ st[p] = "new"
    BY <1>5 DEF LifeInv, Types
  <2>2. f.builds # <<p, "update">> /\ (p # o => f.builds # <<p, "query">>)
    BY <1>1
  <2>3. \A d : Untouched(d) /\ f.builds # d => Untouched(d)'
    BY <1>3, <1>5 DEF Untouched
  <2> QED
    BY <2>1, <2>2, <2>3, <1>5 DEF LifeInv, NotYet
<1> QED
  BY <1>7, <1>8, <1>9, <1>10 DEF LifeInv

\* A buffer goes to a node that keeps its context alive from the first one on.
LEMMA AllocLife ==
  ASSUME LifeInv, Alloc PROVE LifeInv'
<1> DEFINE c == Top.builds
           n == Min(Replica \ resp[c])
<1>1. stack # <<>> /\ stack \in Seq(Frame) /\ Len(stack) \in DOMAIN stack /\ Top = stack[Len(stack)]
  BY DEF Alloc, BuildsContext, LifeInv, Types, Top
<1>2. c \in Context
  BY <1>1, Frames DEF Alloc, BuildsContext, LifeInv
<1>3. n \in Replica \ resp[c]
  <2>1. Replica \ resp[c] # {}
    BY <1>2 DEF Alloc, Built, LifeInv, Types
  <2> QED
    BY <2>1, SmallestIsIn
<1>4. /\ stack' \in Seq(Frame)
      /\ DOMAIN stack' = DOMAIN stack
      /\ \A i \in DOMAIN stack : /\ stack'[i].builds = stack[i].builds
                                 /\ stack'[i].node = stack[i].node
  BY <1>1, Polls DEF Alloc
<1>5. UNCHANGED <<st, wire, done>>
  BY DEF Alloc
<1>6. \/ /\ n \in req[c] /\ resp' = [resp EXCEPT ![c] = @ \cup {n}]
         /\ UNCHANGED <<req, parent>>
      \/ /\ req' = [req EXCEPT ![c] = @ \cup {n}]
         /\ parent' = [parent EXCEPT ![c] = @ \cup {n}]
         /\ UNCHANGED resp
  BY DEF Alloc
<1>7. c = stack[Len(stack)].builds
  BY <1>1
<1> HIDE DEF c, n
<1>8. Types'
  BY <1>2, <1>3, <1>4, <1>5, <1>6 DEF LifeInv, Types
<1>9. \A d \in Context : parent[d] \subseteq parent'[d]
  BY <1>2, <1>6 DEF LifeInv, Types
<1>10. \A i \in DOMAIN stack : stack[i].node # NoNode => stack[i].node[1] \in Context
  BY Frames DEF LifeInv
<1>11. WireLives' /\ NodesLive' /\ NodesDiffer'
  BY <1>4, <1>5, <1>9, <1>10 DEF LifeInv, WireLives, NodesLive, NodesDiffer
<1>12. BuildsApart'
  <2> SUFFICES ASSUME NEW i \in DOMAIN stack', stack'[i].builds \in Context
               PROVE  /\ req'[stack'[i].builds] \subseteq parent'[stack'[i].builds]
                      /\ resp'[stack'[i].builds] \subseteq parent'[stack'[i].builds]
                      /\ wire'[stack'[i].builds] = {}
                      /\ \A j \in DOMAIN stack' :
                           /\ j # i => stack'[j].builds # stack'[i].builds
                           /\ stack'[j].node # NoNode => stack'[j].node[1] # stack'[i].builds
    BY DEF BuildsApart
  <2>4. i \in DOMAIN stack /\ stack'[i].builds = stack[i].builds /\ stack[i].builds \in Context
    BY <1>4
  <2>3. wire'[stack[i].builds] = {} /\ \A j \in DOMAIN stack :
           /\ j # i => stack[j].builds # stack[i].builds
           /\ stack[j].node # NoNode => stack[j].node[1] # stack[i].builds
    BY <2>4, <1>5 DEF LifeInv, BuildsApart
  <2>1. /\ req[stack[i].builds] \subseteq parent[stack[i].builds]
        /\ resp[stack[i].builds] \subseteq parent[stack[i].builds]
    BY <2>4 DEF LifeInv, BuildsApart
  <2>2. /\ req'[stack[i].builds] \subseteq parent'[stack[i].builds]
        /\ resp'[stack[i].builds] \subseteq parent'[stack[i].builds]
    BY <2>1, <2>4, <1>2, <1>6 DEF LifeInv, Types
  <2> QED
    BY <2>2, <2>3, <2>4, <1>4
<1>13. NotYet'
  <2>1. ASSUME NEW d \in Context, Untouched(d) PROVE Untouched(d)'
    <3>1. d # c
      BY <2>1, <1>1, <1>7 DEF Untouched
    <3> QED
      BY <2>1, <3>1, <1>2, <1>4, <1>5, <1>6 DEF Untouched, LifeInv, Types
  <2>2. \A o \in Op : <<o, "query">> \in Context /\ <<o, "update">> \in Context
    BY DEF Context, Round
  <2> QED
    BY <2>1, <2>2, <1>5 DEF LifeInv, NotYet
<1> QED
  BY <1>8, <1>11, <1>12, <1>13 DEF LifeInv

\* A step that ends calls and leaves the contexts alone.
LEMMA FewerFrames ==
  ASSUME LifeInv, stack' \in Seq(Frame), DOMAIN stack' \subseteq DOMAIN stack,
         \A i \in DOMAIN stack' : /\ stack'[i].builds = stack[i].builds
                                  /\ stack'[i].node = stack[i].node,
         UNCHANGED <<st, req, resp, parent, wire, done>>
  PROVE  LifeInv'
<1>1. Types' /\ WireLives'
  BY DEF LifeInv, Types, WireLives
<1>2. NodesLive' /\ NodesDiffer'
  BY DEF LifeInv, NodesLive, NodesDiffer
<1>3. BuildsApart'
  <2> SUFFICES ASSUME NEW i \in DOMAIN stack', stack'[i].builds \in Context
               PROVE  /\ req'[stack'[i].builds] \subseteq parent'[stack'[i].builds]
                      /\ resp'[stack'[i].builds] \subseteq parent'[stack'[i].builds]
                      /\ wire'[stack'[i].builds] = {}
                      /\ \A j \in DOMAIN stack' :
                           /\ j # i => stack'[j].builds # stack'[i].builds
                           /\ stack'[j].node # NoNode => stack'[j].node[1] # stack'[i].builds
    BY DEF BuildsApart
  <2>1. i \in DOMAIN stack /\ stack'[i].builds = stack[i].builds /\ stack[i].builds \in Context
    OBVIOUS
  <2>2. /\ req[stack[i].builds] \subseteq parent[stack[i].builds]
        /\ resp[stack[i].builds] \subseteq parent[stack[i].builds]
        /\ wire[stack[i].builds] = {}
        /\ \A j \in DOMAIN stack :
             /\ j # i => stack[j].builds # stack[i].builds
             /\ stack[j].node # NoNode => stack[j].node[1] # stack[i].builds
    BY <2>1 DEF LifeInv, BuildsApart
  <2> QED
    BY <2>1, <2>2
<1>4. NotYet'
  <2>1. \A d : Untouched(d) => Untouched(d)'
    BY DEF Untouched
  <2> QED
    BY <2>1 DEF LifeInv, NotYet
<1> QED
  BY <1>1, <1>2, <1>3, <1>4 DEF LifeInv

\* Waiting, answering and stopping change no context.
LEMMA QuietLife ==
  ASSUME LifeInv,
         \/ AllocFails \/ Respond
         \/ \E h \in Incoming : FreeAnswer(h)
         \/ \E n \in Replica : Stop(n)
         \/ UNCHANGED vars
  PROVE  LifeInv'
<1>1. stack \in Seq(Frame)
  BY DEF LifeInv, Types
<1>2. UNCHANGED <<st, req, resp, parent, wire, done>>
  BY DEF AllocFails, Respond, FreeAnswer, Stop, vars
<1>3. CASE AllocFails
  <2>1. /\ stack' \in Seq(Frame) /\ DOMAIN stack' = DOMAIN stack
        /\ \A i \in DOMAIN stack : /\ stack'[i].builds = stack[i].builds
                                   /\ stack'[i].node = stack[i].node
    BY <1>1, <1>3, Polls DEF AllocFails
  <2> QED
    BY <2>1, <1>2, FewerFrames
<1>4. CASE Respond
  <2>1. /\ stack' \in Seq(Frame) /\ DOMAIN stack' \subseteq DOMAIN stack
        /\ \A i \in DOMAIN stack' : stack'[i] = stack[i]
    BY <1>1, <1>4, Popped DEF Respond
  <2> QED
    BY <2>1, <1>2, FewerFrames
<1>5. CASE UNCHANGED stack
  BY <1>1, <1>2, <1>5, FewerFrames
<1> QED
  BY <1>3, <1>4, <1>5 DEF FreeAnswer, Stop, vars

\* A handler that runs inside a waiting call touches none of its contexts.
LEMMA ServeLife ==
  ASSUME LifeInv, NEW h \in Incoming, Serve(h) PROVE LifeInv'
<1> DEFINE f == [builds |-> <<h, "answer">>, node |-> NoNode, polling |-> FALSE]
           k == Len(stack) + 1
<1>1. f \in Frame /\ f.builds \notin Context /\ f.node = NoNode
  BY AnswerIsNoContext DEF Frame
<1>2. stack' = Append(stack, f) /\ stack \in Seq(Frame)
  BY DEF Serve, Push, LifeInv, Types
<1> HIDE DEF f
<1>3. /\ stack' \in Seq(Frame) /\ DOMAIN stack' = DOMAIN stack \cup {k}
      /\ k \notin DOMAIN stack /\ stack'[k] = f
      /\ \A i \in DOMAIN stack : stack'[i] = stack[i]
  BY <1>1, <1>2, Pushed
<1> HIDE DEF k
<1>4. UNCHANGED <<st, req, resp, parent, wire, done>>
  BY DEF Serve
<1>5. Types' /\ WireLives'
  BY <1>3, <1>4 DEF LifeInv, Types, WireLives
<1>6. NodesLive' /\ NodesDiffer'
  BY <1>1, <1>3, <1>4 DEF LifeInv, NodesLive, NodesDiffer
<1>7. BuildsApart'
  <2> SUFFICES ASSUME NEW i \in DOMAIN stack', stack'[i].builds \in Context
               PROVE  /\ req'[stack'[i].builds] \subseteq parent'[stack'[i].builds]
                      /\ resp'[stack'[i].builds] \subseteq parent'[stack'[i].builds]
                      /\ wire'[stack'[i].builds] = {}
                      /\ \A j \in DOMAIN stack' :
                           /\ j # i => stack'[j].builds # stack'[i].builds
                           /\ stack'[j].node # NoNode => stack'[j].node[1] # stack'[i].builds
    BY DEF BuildsApart
  <2>1. i \in DOMAIN stack /\ stack'[i].builds = stack[i].builds /\ stack[i].builds \in Context
    BY <1>1, <1>3
  <2>2. /\ req[stack[i].builds] \subseteq parent[stack[i].builds]
        /\ resp[stack[i].builds] \subseteq parent[stack[i].builds]
        /\ wire[stack[i].builds] = {}
        /\ \A j \in DOMAIN stack :
             /\ j # i => stack[j].builds # stack[i].builds
             /\ stack[j].node # NoNode => stack[j].node[1] # stack[i].builds
    BY <2>1 DEF LifeInv, BuildsApart
  <2>3. \A j \in DOMAIN stack' : j \in DOMAIN stack \/ stack'[j] = f
    BY <1>3
  <2>4. f.builds # stack[i].builds
    BY <2>1, <1>1
  <2> QED
    BY <2>1, <2>2, <2>3, <2>4, <1>1, <1>3, <1>4
<1>8. NotYet'
  <2>1. \A d \in Context : Untouched(d) => Untouched(d)'
    BY <1>1, <1>3, <1>4 DEF Untouched
  <2>2. \A o \in Op : <<o, "query">> \in Context /\ <<o, "update">> \in Context
    BY DEF Context, Round
  <2> QED
    BY <2>1, <2>2, <1>4 DEF LifeInv, NotYet
<1> QED
  BY <1>5, <1>6, <1>7, <1>8 DEF LifeInv

\* A response was handled, and its node removed.
LEMMA HandledLife ==
  ASSUME LifeInv, NEW c \in Context, NEW n \in Replica, Receive(c, n),
         NEW held, Remove(c, n, AddToCache(c, n), held),
         UNCHANGED stack, st' \in [Op -> {"new", "running", "ret"}],
         \A o \in Op : st'[o] = "new" => st[o] = "new", done \subseteq done'
  PROVE  LifeInv'
<1>1. /\ req' = [req EXCEPT ![c] = @ \ {n}]
      /\ resp' = [resp EXCEPT ![c] = (resp[c] \ {n}) \ {n}]
      /\ parent' = [parent EXCEPT ![c] = @ \ {n}]
  BY DEF Remove, AddToCache
<1>2. n \in wire[c] /\ wire' = [wire EXCEPT ![c] = @ \ {n}]
  BY DEF Receive
<1>3. Types'
  BY <1>1, <1>2 DEF LifeInv, Types
<1>4. WireLives'
  BY <1>1, <1>2 DEF LifeInv, Types, WireLives
<1>5. NodesLive' /\ NodesDiffer'
  <2>1. ASSUME NEW i \in DOMAIN stack, stack[i].node # NoNode
        PROVE  /\ stack[i].node[1][2] = "query"
               /\ stack[i].node[2] \in parent'[stack[i].node[1]] \ wire'[stack[i].node[1]]
    <3>1. /\ stack[i].node[1] \in Context
          /\ stack[i].node[1][2] = "query"
          /\ stack[i].node[2] \in parent[stack[i].node[1]] \ wire[stack[i].node[1]]
      BY <2>1, Frames DEF LifeInv, NodesLive
    <3> QED
      BY <3>1, <1>1, <1>2 DEF LifeInv, Types
  <2> QED
    BY <2>1 DEF LifeInv, NodesLive, NodesDiffer
<1>6. BuildsApart'
  <2> SUFFICES ASSUME NEW i \in DOMAIN stack, stack[i].builds \in Context
               PROVE  /\ req'[stack[i].builds] \subseteq parent'[stack[i].builds]
                      /\ resp'[stack[i].builds] \subseteq parent'[stack[i].builds]
                      /\ wire'[stack[i].builds] = {}
    BY DEF LifeInv, BuildsApart
  <2>1. /\ req[stack[i].builds] \subseteq parent[stack[i].builds]
        /\ resp[stack[i].builds] \subseteq parent[stack[i].builds]
        /\ wire[stack[i].builds] = {}
    BY DEF LifeInv, BuildsApart
  <2> QED
    BY <2>1, <1>1, <1>2 DEF LifeInv, Types
<1>7. NotYet'
  <2>1. ASSUME NEW d \in Context, Untouched(d) PROVE Untouched(d)'
    <3>1. d # c
      BY <2>1, <1>2 DEF Untouched
    <3> QED
      BY <2>1, <3>1, <1>1, <1>2 DEF Untouched, LifeInv, Types
  <2>2. \A o \in Op : <<o, "query">> \in Context /\ <<o, "update">> \in Context
    BY DEF Context, Round
  <2> QED
    BY <2>1, <2>2 DEF LifeInv, NotYet
<1> QED
  BY <1>3, <1>4, <1>5, <1>6, <1>7 DEF LifeInv

\* Continuations that end their round, and late responses.
LEMMA ReturnLife ==
  ASSUME LifeInv, NEW c \in Context, NEW n \in Replica, Return(c, n) \/ Late(c, n)
  PROVE  LifeInv'
<1>1. c[1] \in Op
  BY DEF Context
<1>2. /\ st' \in [Op -> {"new", "running", "ret"}]
      /\ \A o \in Op : st'[o] = "new" => st[o] = "new"
  BY <1>1 DEF Return, Late, LifeInv, Types
<1>3. Receive(c, n) /\ Remove(c, n, AddToCache(c, n), cache[c] \cup {n})
  BY DEF Return, Late
<1>4. done \subseteq done' /\ UNCHANGED stack
  BY DEF Return, Late
<1> QED
  BY <1>2, <1>3, <1>4, HandledLife

\* A continuation that builds the next round keeps its own node.
LEMMA AdvanceLife ==
  ASSUME LifeInv, NEW c \in Context, NEW n \in Replica, Advance(c, n) PROVE LifeInv'
<1> DEFINE u == <<c[1], "update">>
           f == [builds |-> u, node |-> <<c, n>>, polling |-> FALSE]
           k == Len(stack) + 1
<1>1. c[1] \in Op /\ c = <<c[1], "query">> /\ u \in Context /\ u # c
  BY DEF Advance, Context, Round
<1>2. f \in Frame /\ f.builds = u /\ f.node = <<c, n>> /\ f.node # NoNode
  BY <1>1, NodeIsNode DEF Frame
<1>3. f.node[1] = c /\ f.node[2] = n
  BY <1>2
<1>4. stack' = Append(stack, f) /\ stack \in Seq(Frame)
  BY DEF Advance, Push, LifeInv, Types
<1>5. Untouched(u)
  BY <1>1 DEF Advance, LifeInv, NotYet
<1>6. \A p \in Op : /\ <<p, "query">> # u
                    /\ <<p, "query">> \notin done' => <<p, "query">> \notin done /\ <<p, "update">> # u
  BY <1>1 DEF Advance
<1>7. u[2] = "update"
  OBVIOUS
<1> HIDE DEF f, u
<1>8. /\ stack' \in Seq(Frame) /\ DOMAIN stack' = DOMAIN stack \cup {k}
      /\ k \notin DOMAIN stack /\ stack'[k] = f
      /\ \A i \in DOMAIN stack : stack'[i] = stack[i]
  BY <1>2, <1>4, Pushed
<1> HIDE DEF k
<1>9. /\ n \in wire[c] /\ wire' = [wire EXCEPT ![c] = @ \ {n}]
      /\ resp' = [resp EXCEPT ![c] = resp[c] \ {n}]
      /\ UNCHANGED <<st, req, parent>>
  BY DEF Advance, Receive, AddToCache
<1>10. Types' /\ WireLives'
  BY <1>8, <1>9 DEF LifeInv, Types, WireLives
<1>11. \A i \in DOMAIN stack : stack[i].node # NoNode =>
         /\ stack[i].node[1] \in Context
         /\ stack[i].node[1][2] = "query"
         /\ stack[i].node[2] \in parent[stack[i].node[1]] \ wire[stack[i].node[1]]
  BY Frames DEF LifeInv, NodesLive
<1>12. NodesLive'
  <2> SUFFICES ASSUME NEW i \in DOMAIN stack', stack'[i].node # NoNode
               PROVE  /\ stack'[i].node[1][2] = "query"
                      /\ stack'[i].node[2] \in parent'[stack'[i].node[1]] \ wire'[stack'[i].node[1]]
    BY DEF NodesLive
  <2>1. CASE i = k
    <3>1. n \in parent[c] /\ n \notin wire'[c]
      BY <1>9 DEF LifeInv, Types, WireLives
    <3> QED
      BY <2>1, <3>1, <1>1, <1>3, <1>8, <1>9
  <2>2. CASE i \in DOMAIN stack
    BY <2>2, <1>8, <1>9, <1>11 DEF LifeInv, Types
  <2> QED
    BY <2>1, <2>2, <1>8
<1>13. NodesDiffer'
  <2>1. \A i \in DOMAIN stack : stack[i].node # f.node
    BY <1>2, <1>3, <1>9, <1>11
  <2> QED
    BY <2>1, <1>8 DEF LifeInv, NodesDiffer
<1>14. BuildsApart'
  <2> SUFFICES ASSUME NEW i \in DOMAIN stack', stack'[i].builds \in Context
               PROVE  /\ req'[stack'[i].builds] \subseteq parent'[stack'[i].builds]
                      /\ resp'[stack'[i].builds] \subseteq parent'[stack'[i].builds]
                      /\ wire'[stack'[i].builds] = {}
                      /\ \A j \in DOMAIN stack' :
                           /\ j # i => stack'[j].builds # stack'[i].builds
                           /\ stack'[j].node # NoNode => stack'[j].node[1] # stack'[i].builds
    BY DEF BuildsApart
  <2>1. CASE i = k
    <3>1. stack'[i].builds = u
      BY <2>1, <1>2, <1>8
    <3>2. req'[u] = {} /\ resp'[u] = {} /\ wire'[u] = {}
      BY <1>1, <1>5, <1>9 DEF Untouched, LifeInv, Types
    <3>3. \A j \in DOMAIN stack : /\ stack[j].builds # u
                                  /\ stack[j].node # NoNode => stack[j].node[1] # u
      BY <1>5, <1>7, <1>11 DEF Untouched
    <3> QED
      BY <2>1, <3>1, <3>2, <3>3, <1>1, <1>3, <1>8
  <2>2. CASE i \in DOMAIN stack
    <3>1. stack'[i].builds = stack[i].builds /\ stack[i].builds \in Context
      BY <2>2, <1>8
    <3>2. /\ req[stack[i].builds] \subseteq parent[stack[i].builds]
          /\ resp[stack[i].builds] \subseteq parent[stack[i].builds]
          /\ wire[stack[i].builds] = {}
          /\ \A j \in DOMAIN stack :
               /\ j # i => stack[j].builds # stack[i].builds
               /\ stack[j].node # NoNode => stack[j].node[1] # stack[i].builds
      BY <2>2, <3>1 DEF LifeInv, BuildsApart
    <3>3. stack[i].builds # c /\ stack[i].builds # u
      BY <2>2, <3>2, <1>5, <1>9 DEF Untouched
    <3>4. /\ req'[stack[i].builds] \subseteq parent'[stack[i].builds]
          /\ resp'[stack[i].builds] \subseteq parent'[stack[i].builds]
          /\ wire'[stack[i].builds] = {}
      BY <3>1, <3>2, <3>3, <1>9 DEF LifeInv, Types
    <3>5. /\ f.builds # stack[i].builds
          /\ f.node[1] # stack[i].builds
      BY <3>3, <1>2, <1>3
    <3> QED
      BY <3>1, <3>2, <3>4, <3>5, <1>8
  <2> QED
    BY <2>1, <2>2, <1>8
<1>15. NotYet'
  <2>1. ASSUME NEW d \in Context, d # u, Untouched(d) PROVE Untouched(d)'
    <3>1. d # c
      BY <2>1, <1>9 DEF Untouched
    <3>2. req'[d] = {} /\ resp'[d] = {} /\ parent'[d] = {} /\ wire'[d] = {}
      BY <2>1, <3>1, <1>9 DEF Untouched, LifeInv, Types
    <3>3. \A i \in DOMAIN stack' : stack'[i].builds # d
      BY <2>1, <1>2, <1>8 DEF Untouched
    <3> QED
      BY <3>2, <3>3 DEF Untouched
  <2>2. \A o \in Op : <<o, "query">> \in Context /\ <<o, "update">> \in Context
    BY DEF Context, Round
  <2> QED
    BY <2>1, <2>2, <1>6, <1>9 DEF LifeInv, NotYet
<1> QED
  BY <1>10, <1>12, <1>13, <1>14, <1>15 DEF LifeInv

\* Requests are sent for nodes that are alive; only then does the node of the
\* continuation end.
LEMMA SendLife ==
  ASSUME LifeInv, Send PROVE LifeInv'
<1> DEFINE k == Len(stack)
           b == stack[k].builds
           c == stack[k].node[1]
           n == stack[k].node[2]
<1>1. stack # <<>> /\ stack \in Seq(Frame) /\ k \in DOMAIN stack /\ Top = stack[k]
  BY DEF Send, BuildsContext, LifeInv, Types, Top
<1>2. b \in Context
  BY <1>1, Frames DEF Send, BuildsContext, LifeInv
<1>3. /\ stack' \in Seq(Frame) /\ DOMAIN stack' = DOMAIN stack \ {k}
      /\ \A i \in DOMAIN stack' : stack'[i] = stack[i]
  BY <1>1, Popped DEF Send
<1>4. resp[b] = Replica /\ wire' = [wire EXCEPT ![b] = Replica] /\ done' = done
  BY <1>1 DEF Send, Built
<1>5. /\ req[b] \subseteq parent[b] /\ resp[b] \subseteq parent[b] /\ wire[b] = {}
      /\ \A j \in DOMAIN stack :
           /\ j # k => stack[j].builds # b
           /\ stack[j].node # NoNode => stack[j].node[1] # b
  BY <1>1, <1>2 DEF LifeInv, BuildsApart
<1>6. \/ stack[k].node = NoNode /\ UNCHANGED <<st, req, resp, parent>>
      \/ /\ stack[k].node # NoNode
         /\ req' = [req EXCEPT ![c] = @ \ {n}]
         /\ resp' = [resp EXCEPT ![c] = resp[c] \ {n}]
         /\ parent' = [parent EXCEPT ![c] = @ \ {n}]
         /\ st' = IF kind[c[1]] = "get" THEN [st EXCEPT ![c[1]] = "ret"] ELSE st
  BY <1>1 DEF Send, Remove
<1>7. \A i \in DOMAIN stack : stack[i].node # NoNode =>
         /\ stack[i].node[1] \in Context
         /\ stack[i].node = <<stack[i].node[1], stack[i].node[2]>>
         /\ stack[i].node[1][2] = "query"
         /\ stack[i].node[2] \in parent[stack[i].node[1]] \ wire[stack[i].node[1]]
         /\ stack[i].node[1] # b
  BY <1>5, Frames DEF LifeInv, NodesLive
<1>8. stack[k].node # NoNode =>
         /\ c \in Context /\ c # b /\ n \in parent[c] /\ n \notin wire[c] /\ c[1] \in Op
  BY <1>1, <1>7 DEF Context
<1>9. \A i \in DOMAIN stack' : /\ stack'[i].builds # b
                               /\ stack'[i].node # NoNode => stack'[i].node # stack[k].node
  BY <1>1, <1>3, <1>5 DEF LifeInv, NodesDiffer
<1> HIDE DEF k, b, c, n
<1>10. Types'
  BY <1>2, <1>3, <1>4, <1>6, <1>8 DEF LifeInv, Types
<1>11. WireLives'
  <2> SUFFICES ASSUME NEW d \in Context PROVE wire'[d] \subseteq parent'[d]
    BY DEF WireLives
  <2>1. wire[d] \subseteq parent[d]
    BY DEF LifeInv, WireLives
  <2>2. CASE d = b
    BY <2>2, <1>2, <1>4, <1>5, <1>6, <1>8 DEF LifeInv, Types
  <2>3. CASE d # b
    BY <2>1, <2>3, <1>2, <1>4, <1>6, <1>8 DEF LifeInv, Types
  <2> QED
    BY <2>2, <2>3
<1>12. NodesLive'
  <2> SUFFICES ASSUME NEW i \in DOMAIN stack', stack'[i].node # NoNode
               PROVE  /\ stack'[i].node[1][2] = "query"
                      /\ stack'[i].node[2] \in parent'[stack'[i].node[1]] \ wire'[stack'[i].node[1]]
    BY DEF NodesLive
  <2> DEFINE d == stack[i].node[1]
             m == stack[i].node[2]
  <2>1. /\ stack'[i] = stack[i] /\ stack[i].node = <<d, m>> /\ d \in Context /\ d[2] = "query"
        /\ m \in parent[d] \ wire[d] /\ d # b
    BY <1>3, <1>7
  <2>2. stack[k].node # NoNode => stack[k].node = <<c, n>>
    BY <1>1, <1>7 DEF c, n
  <2>3. stack[k].node # NoNode => ~(d = c /\ m = n)
    BY <2>1, <2>2, <1>9
  <2> HIDE DEF d, m
  <2>4. m \in parent'[d] \ wire'[d]
    BY <2>1, <2>3, <1>2, <1>4, <1>6, <1>8 DEF LifeInv, Types
  <2> QED
    BY <2>1, <2>4 DEF d, m
<1>13. NodesDiffer'
  BY <1>3 DEF LifeInv, NodesDiffer
<1>14. BuildsApart'
  <2> SUFFICES ASSUME NEW i \in DOMAIN stack', stack'[i].builds \in Context
               PROVE  /\ req'[stack'[i].builds] \subseteq parent'[stack'[i].builds]
                      /\ resp'[stack'[i].builds] \subseteq parent'[stack'[i].builds]
                      /\ wire'[stack'[i].builds] = {}
                      /\ \A j \in DOMAIN stack' :
                           /\ j # i => stack'[j].builds # stack'[i].builds
                           /\ stack'[j].node # NoNode => stack'[j].node[1] # stack'[i].builds
    BY DEF BuildsApart
  <2>1. i \in DOMAIN stack /\ stack'[i] = stack[i] /\ stack[i].builds \in Context /\ stack[i].builds # b
    BY <1>3, <1>9
  <2>2. /\ req[stack[i].builds] \subseteq parent[stack[i].builds]
        /\ resp[stack[i].builds] \subseteq parent[stack[i].builds]
        /\ wire[stack[i].builds] = {}
        /\ \A j \in DOMAIN stack :
             /\ j # i => stack[j].builds # stack[i].builds
             /\ stack[j].node # NoNode => stack[j].node[1] # stack[i].builds
    BY <2>1 DEF LifeInv, BuildsApart
  <2>3. stack[k].node # NoNode => c # stack[i].builds
    BY <2>2, <1>1 DEF c
  <2>4. /\ req'[stack[i].builds] \subseteq parent'[stack[i].builds]
        /\ resp'[stack[i].builds] \subseteq parent'[stack[i].builds]
        /\ wire'[stack[i].builds] = {}
    BY <2>1, <2>2, <2>3, <1>2, <1>4, <1>6, <1>8 DEF LifeInv, Types
  <2> QED
    BY <2>1, <2>2, <2>4, <1>3
<1>15. NotYet'
  <2>1. ASSUME NEW d \in Context, Untouched(d) PROVE Untouched(d)'
    <3>1. d # b /\ (stack[k].node # NoNode => d # c)
      BY <2>1, <1>1, <1>8 DEF Untouched, b
    <3>2. req'[d] = {} /\ resp'[d] = {} /\ parent'[d] = {} /\ wire'[d] = {}
      BY <2>1, <3>1, <1>2, <1>4, <1>6, <1>8 DEF Untouched, LifeInv, Types
    <3>3. \A i \in DOMAIN stack' : stack'[i].builds # d
      BY <2>1, <1>3 DEF Untouched
    <3> QED
      BY <3>2, <3>3 DEF Untouched
  <2>2. \A o \in Op : <<o, "query">> \in Context /\ <<o, "update">> \in Context
    BY DEF Context, Round
  <2>3. \A o \in Op : st'[o] = "new" => st[o] = "new"
    BY <1>6, <1>8 DEF LifeInv, Types
  <2> QED
    BY <2>1, <2>2, <2>3, <1>4 DEF LifeInv, NotYet
<1> QED
  BY <1>10, <1>11, <1>12, <1>13, <1>14, <1>15 DEF LifeInv

----------------------------------------------------------------------------
(* Early ends.                                                             *)

LEMMA LifeInit == Init => LifeInv
<1> SUFFICES ASSUME Init PROVE LifeInv
  OBVIOUS
<1>1. stack \in Seq(Frame) /\ DOMAIN stack = {}
  BY DEF Init
<1> QED
  BY <1>1 DEF Init, LifeInv, Types, WireLives, NodesLive, NodesDiffer, BuildsApart,
              NotYet, Untouched, Context, Round

LEMMA LifeNext == LifeInv /\ [Next]_vars => LifeInv'
BY StartLife, AllocLife, QuietLife, ServeLife, ReturnLife, AdvanceLife, SendLife
   DEF Next, Continuation

\* A context of replica_context.h is alive while a continuation that waits for
\* buffers runs for one of its nodes, and while eRPC holds one of its requests.
THEOREM ContextsAreNotFreedEarly == Spec => []ContextsOutliveUse
<1>1. LifeInv => ContextsOutliveUse
  BY DEF LifeInv, WireLives, NodesLive, ContextsOutliveUse
<1> QED
  BY <1>1, LifeInit, LifeNext, PTL DEF Spec

----------------------------------------------------------------------------
(* Late ends: who owns the buffers of a context.                           *)

Building(c) == \E i \in DOMAIN stack : stack[i].builds = c
Waits(c, n) == \E i \in DOMAIN stack : stack[i].node = <<c, n>>

\* Every node has its request buffer until it ends.  Once sent, a node ends with
\* its response or with the continuation that waits, and has a response buffer
\* until the response is in the cache, which ends with the last node.
Owned(c) ==
  /\ req[c] = parent[c]
  /\ cache[c] \cap wire[c] = {}
  /\ parent[c] = {} \/ Building(c) => cache[c] = {}
  /\ ~Building(c) => /\ resp[c] = wire[c]
                     /\ \A n \in parent[c] : n \in wire[c] \/ Waits(c, n)

\* A call that answers another machine runs for no node.
AnswersAlone ==
  \A i \in DOMAIN stack : stack[i].builds \notin Context => stack[i].node = NoNode

OwnedInv == /\ cache \in [Context -> SUBSET Replica]
            /\ AnswersAlone
            /\ \A c \in Context : Owned(c)

\* Contexts that a step leaves alone.
LEMMA OwnedKept ==
  ASSUME NEW c \in Context, Owned(c),
         req'[c] = req[c], resp'[c] = resp[c], parent'[c] = parent[c],
         cache'[c] = cache[c], wire'[c] = wire[c],
         Building(c)' <=> Building(c),
         \A n \in parent[c] : Waits(c, n) => Waits(c, n)'
  PROVE  Owned(c)'
BY DEF Owned

\* Calls that wait, answer or stop own nothing of a context.
LEMMA QuietOwned ==
  ASSUME LifeInv, OwnedInv,
         \/ AllocFails \/ Respond
         \/ \E h \in Incoming : Serve(h) \/ FreeAnswer(h)
         \/ \E n \in Replica : Stop(n)
         \/ UNCHANGED vars
  PROVE  OwnedInv'
<1>1. stack \in Seq(Frame)
  BY DEF LifeInv, Types
<1>2. UNCHANGED <<req, resp, parent, cache, wire>>
  BY DEF AllocFails, Respond, Serve, FreeAnswer, Stop, vars
<1>3. SUFFICES /\ AnswersAlone'
               /\ \A c \in Context :
                    /\ Building(c)' <=> Building(c)
                    /\ \A n \in parent[c] : Waits(c, n) => Waits(c, n)'
  BY <1>2, OwnedKept DEF OwnedInv
<1>4. CASE AllocFails
  <2>1. /\ DOMAIN stack' = DOMAIN stack
        /\ \A i \in DOMAIN stack : /\ stack'[i].builds = stack[i].builds
                                   /\ stack'[i].node = stack[i].node
    BY <1>1, <1>4, Polls DEF AllocFails
  <2> QED
    BY <2>1 DEF OwnedInv, AnswersAlone, Building, Waits
<1>5. CASE Respond
  <2> DEFINE k == Len(stack)
  <2>1. /\ k \in DOMAIN stack /\ DOMAIN stack' = DOMAIN stack \ {k}
        /\ \A i \in DOMAIN stack' : stack'[i] = stack[i]
    BY <1>1, <1>5, Popped DEF Respond
  <2>2. stack[k].builds \notin Context
    <3>1. stack[k].builds[2] = "answer"
      BY <1>5 DEF Respond, Top
    <3> QED
      BY <3>1 DEF Context, Round
  <2>3. stack[k].node = NoNode
    BY <2>1, <2>2 DEF OwnedInv, AnswersAlone
  <2> HIDE DEF k
  <2>4. \A c, n : <<c, n>> # stack[k].node
    BY <2>3, NodeIsNode
  <2> QED
    BY <2>1, <2>2, <2>4 DEF OwnedInv, AnswersAlone, Building, Waits
<1>6. ASSUME NEW h \in Incoming, Serve(h) PROVE <1>3!1
  <2> DEFINE f == [builds |-> <<h, "answer">>, node |-> NoNode, polling |-> FALSE]
             k == Len(stack) + 1
  <2>1. f \in Frame /\ f.builds \notin Context /\ f.node = NoNode
    BY AnswerIsNoContext DEF Frame
  <2>2. stack' = Append(stack, f)
    BY <1>6 DEF Serve, Push
  <2> HIDE DEF f
  <2>3. /\ DOMAIN stack' = DOMAIN stack \cup {k}
        /\ stack'[k] = f
        /\ \A i \in DOMAIN stack : stack'[i] = stack[i]
    BY <1>1, <2>1, <2>2, Pushed
  <2> QED
    BY <2>1, <2>3 DEF OwnedInv, AnswersAlone, Building, Waits
<1>7. CASE UNCHANGED stack
  BY <1>7 DEF OwnedInv, AnswersAlone, Building, Waits
<1> QED
  BY <1>4, <1>5, <1>6, <1>7 DEF FreeAnswer, Stop, vars

\* The first round is built from nothing.
LEMMA StartOwned ==
  ASSUME LifeInv, OwnedInv, NEW o \in Op, Start(o) PROVE OwnedInv'
<1> DEFINE q == <<o, "query">>
           f == [builds |-> q, node |-> NoNode, polling |-> FALSE]
<1>1. f \in Frame /\ f.builds = q /\ q \in Context
  BY DEF Frame, Context, Round
<1>2. stack' = Append(stack, f) /\ stack = <<>>
  BY DEF Start, Push
<1>3. Untouched(q)
  BY DEF Start, LifeInv, NotYet
<1> HIDE DEF f, q
<1>4. DOMAIN stack = {} /\ DOMAIN stack' = {1} /\ stack'[1] = f
  BY <1>2
<1>5. UNCHANGED <<req, resp, parent, cache, wire>>
  BY DEF Start
<1>6. cache \in [Context -> SUBSET Replica] /\ \A c \in Context : Owned(c)
  BY DEF OwnedInv
<1>7. AnswersAlone'
  BY <1>1, <1>4 DEF AnswersAlone
<1>8. Owned(q)'
  BY <1>1, <1>3, <1>4, <1>5, <1>6 DEF Owned, Building, Untouched
<1>9. ASSUME NEW c \in Context, c # q PROVE Owned(c)'
  <2>1. Building(c)' <=> Building(c)
    BY <1>1, <1>4, <1>9 DEF Building
  <2>2. \A n : ~Waits(c, n)
    BY <1>4 DEF Waits
  <2> QED
    BY <2>1, <2>2, <1>5, <1>6, OwnedKept
<1> QED
  BY <1>5, <1>6, <1>7, <1>8, <1>9 DEF OwnedInv

\* A node comes with its request buffer.
LEMMA AllocOwned ==
  ASSUME LifeInv, OwnedInv, Alloc PROVE OwnedInv'
<1>0. PICK b, n : b = Top.builds /\ n = Min(Replica \ resp[b])
  OBVIOUS
<1>1. stack # <<>> /\ stack \in Seq(Frame) /\ Len(stack) \in DOMAIN stack /\ Top = stack[Len(stack)]
  BY DEF Alloc, BuildsContext, LifeInv, Types, Top
<1>2. b \in Context
  BY <1>0, <1>1, Frames DEF Alloc, BuildsContext, LifeInv
<1>3. /\ DOMAIN stack' = DOMAIN stack
      /\ \A i \in DOMAIN stack : /\ stack'[i].builds = stack[i].builds
                                 /\ stack'[i].node = stack[i].node
  BY <1>1, Polls DEF Alloc
<1>4. UNCHANGED <<cache, wire>>
  BY DEF Alloc
<1>5. \/ /\ resp' = [resp EXCEPT ![b] = @ \cup {n}]
         /\ UNCHANGED <<req, parent>>
      \/ /\ req' = [req EXCEPT ![b] = @ \cup {n}]
         /\ parent' = [parent EXCEPT ![b] = @ \cup {n}]
         /\ UNCHANGED resp
  BY <1>0 DEF Alloc
<1>6. Building(b)
  BY <1>0, <1>1 DEF Building
<1>7. \A c, m : (Building(c)' <=> Building(c)) /\ (Waits(c, m)' <=> Waits(c, m))
  BY <1>3 DEF Building, Waits
<1>8. AnswersAlone'
  BY <1>3 DEF OwnedInv, AnswersAlone
<1>9. Owned(b)'
  <2>0. req[b] = parent[b] /\ cache[b] = {}
    BY <1>2, <1>6 DEF OwnedInv, Owned
  <2>1. req'[b] = parent'[b] /\ wire'[b] = wire[b] /\ cache'[b] = {}
    BY <2>0, <1>2, <1>4, <1>5 DEF LifeInv, Types
  <2> QED
    BY <2>1, <1>6, <1>7 DEF Owned
<1>10. ASSUME NEW c \in Context, c # b PROVE Owned(c)'
  <2>1. req'[c] = req[c] /\ resp'[c] = resp[c] /\ parent'[c] = parent[c]
    BY <1>2, <1>5, <1>10 DEF LifeInv, Types
  <2> QED
    BY <2>1, <1>4, <1>7, OwnedKept DEF OwnedInv
<1> QED
  BY <1>4, <1>8, <1>9, <1>10 DEF OwnedInv

\* A response was handled: the cache has it while the context lives.
LEMMA ReturnOwned ==
  ASSUME LifeInv, OwnedInv, NEW c \in Context, NEW n \in Replica, Return(c, n) \/ Late(c, n)
  PROVE  OwnedInv'
<1>1. /\ req' = [req EXCEPT ![c] = @ \ {n}]
      /\ resp' = [resp EXCEPT ![c] = (resp[c] \ {n}) \ {n}]
      /\ parent' = [parent EXCEPT ![c] = @ \ {n}]
      /\ cache' = [cache EXCEPT ![c] = IF parent[c] = {n} THEN {} ELSE cache[c] \cup {n}]
  BY DEF Return, Late, Remove, AddToCache
<1>2. n \in wire[c] /\ wire' = [wire EXCEPT ![c] = @ \ {n}] /\ UNCHANGED stack
  BY DEF Return, Late, Receive
<1>3. \A d, m : (Building(d)' <=> Building(d)) /\ (Waits(d, m)' <=> Waits(d, m))
  BY <1>2 DEF Building, Waits
<1>4. ~Building(c) /\ n \in parent[c]
  BY <1>2 DEF Building, LifeInv, BuildsApart, WireLives
<1>5. cache' \in [Context -> SUBSET Replica] /\ AnswersAlone'
  BY <1>1, <1>2 DEF OwnedInv, AnswersAlone
<1>6. Owned(c)'
  <2>1. /\ req'[c] = req[c] \ {n} /\ resp'[c] = resp[c] \ {n}
        /\ parent'[c] = parent[c] \ {n} /\ wire'[c] = wire[c] \ {n}
        /\ cache'[c] = IF parent[c] = {n} THEN {} ELSE cache[c] \cup {n}
    BY <1>1, <1>2 DEF LifeInv, Types, OwnedInv
  <2>2. Owned(c)
    BY DEF OwnedInv
  <2> QED
    BY <2>1, <2>2, <1>3, <1>4 DEF Owned
<1>7. ASSUME NEW d \in Context, d # c PROVE Owned(d)'
  <2>1. /\ req'[d] = req[d] /\ resp'[d] = resp[d] /\ parent'[d] = parent[d]
        /\ wire'[d] = wire[d] /\ cache'[d] = cache[d]
    BY <1>1, <1>2, <1>7 DEF LifeInv, Types, OwnedInv
  <2> QED
    BY <2>1, <1>3, OwnedKept DEF OwnedInv
<1> QED
  BY <1>5, <1>6, <1>7 DEF OwnedInv

\* The node of a continuation that builds the next round is left to that call.
LEMMA AdvanceOwned ==
  ASSUME LifeInv, OwnedInv, NEW c \in Context, NEW n \in Replica, Advance(c, n) PROVE OwnedInv'
<1>0. PICK u, f, k : /\ u = <<c[1], "update">>
                     /\ f = [builds |-> u, node |-> <<c, n>>, polling |-> FALSE]
                     /\ k = Len(stack) + 1
  OBVIOUS
<1>1. c[1] \in Op /\ c = <<c[1], "query">> /\ u \in Context /\ u # c
  BY <1>0 DEF Advance, Context, Round
<1>2. f \in Frame /\ f.builds = u /\ f.node = <<c, n>>
  BY <1>0, <1>1 DEF Frame
<1>3. stack' = Append(stack, f) /\ stack \in Seq(Frame)
  BY <1>0 DEF Advance, Push, LifeInv, Types
<1>4. Untouched(u)
  BY <1>0, <1>1 DEF Advance, LifeInv, NotYet
<1>5. /\ DOMAIN stack' = DOMAIN stack \cup {k}
      /\ k \notin DOMAIN stack /\ stack'[k] = f
      /\ \A i \in DOMAIN stack : stack'[i] = stack[i]
  BY <1>0, <1>2, <1>3, Pushed
<1>6. /\ n \in wire[c] /\ wire' = [wire EXCEPT ![c] = @ \ {n}]
      /\ resp' = [resp EXCEPT ![c] = resp[c] \ {n}]
      /\ cache' = [cache EXCEPT ![c] = @ \cup {n}]
      /\ UNCHANGED <<req, parent>>
  BY DEF Advance, Receive, AddToCache
<1>7. /\ Building(u)' /\ Waits(c, n)'
      /\ \A d : d # u => (Building(d)' <=> Building(d))
      /\ \A d, m : Waits(d, m) => Waits(d, m)'
  BY <1>2, <1>5 DEF Building, Waits
<1>8. ~Building(c) /\ n \in parent[c]
  BY <1>6 DEF Building, LifeInv, BuildsApart, WireLives
<1>9. cache' \in [Context -> SUBSET Replica] /\ AnswersAlone'
  BY <1>1, <1>2, <1>5, <1>6 DEF OwnedInv, AnswersAlone
<1>10. Owned(c)'
  <2>1. /\ req'[c] = req[c] /\ resp'[c] = resp[c] \ {n}
        /\ parent'[c] = parent[c] /\ wire'[c] = wire[c] \ {n}
        /\ cache'[c] = cache[c] \cup {n}
    BY <1>6 DEF LifeInv, Types, OwnedInv
  <2>2. Owned(c)
    BY DEF OwnedInv
  <2> QED
    BY <2>1, <2>2, <1>1, <1>7, <1>8 DEF Owned
<1>11. Owned(u)'
  <2>1. /\ req'[u] = req[u] /\ parent'[u] = parent[u] /\ wire'[u] = wire[u] /\ cache'[u] = cache[u]
    BY <1>1, <1>6 DEF LifeInv, Types, OwnedInv
  <2>2. Owned(u) /\ parent[u] = {}
    BY <1>1, <1>4 DEF OwnedInv, Untouched
  <2> QED
    BY <2>1, <2>2, <1>7 DEF Owned
<1>12. ASSUME NEW d \in Context, d # c, d # u PROVE Owned(d)'
  <2>1. /\ req'[d] = req[d] /\ resp'[d] = resp[d] /\ parent'[d] = parent[d]
        /\ wire'[d] = wire[d] /\ cache'[d] = cache[d]
    BY <1>6, <1>12 DEF LifeInv, Types, OwnedInv
  <2> QED
    BY <2>1, <1>7, <1>12, OwnedKept DEF OwnedInv
<1> QED
  BY <1>9, <1>10, <1>11, <1>12 DEF OwnedInv

\* The context that is sent has all its buffers; the node of the continuation
\* ends, with its context if it was the last.
LEMMA SendOwned ==
  ASSUME LifeInv, OwnedInv, Send PROVE OwnedInv'
<1>0. PICK k, b, c, n : /\ k = Len(stack) /\ b = stack[k].builds
                        /\ c = stack[k].node[1] /\ n = stack[k].node[2]
  OBVIOUS
<1>1. stack # <<>> /\ stack \in Seq(Frame) /\ k \in DOMAIN stack /\ Top = stack[k]
  BY <1>0 DEF Send, BuildsContext, LifeInv, Types, Top
<1>2. b \in Context
  BY <1>0, <1>1, Frames DEF Send, BuildsContext, LifeInv
<1>3. /\ DOMAIN stack' = DOMAIN stack \ {k}
      /\ \A i \in DOMAIN stack' : stack'[i] = stack[i]
  BY <1>0, <1>1, Popped DEF Send
<1>4. resp[b] = Replica /\ wire' = [wire EXCEPT ![b] = Replica]
  BY <1>0, <1>1 DEF Send, Built
<1>5. \A j \in DOMAIN stack :
        /\ j # k => stack[j].builds # b
        /\ stack[j].node # NoNode => stack[j].node[1] # b
  BY <1>0, <1>1, <1>2 DEF LifeInv, BuildsApart
<1>6. \/ stack[k].node = NoNode /\ UNCHANGED <<req, resp, parent, cache>>
      \/ /\ stack[k].node # NoNode
         /\ req' = [req EXCEPT ![c] = @ \ {n}]
         /\ resp' = [resp EXCEPT ![c] = resp[c] \ {n}]
         /\ parent' = [parent EXCEPT ![c] = @ \ {n}]
         /\ cache' = [cache EXCEPT ![c] = IF parent[c] = {n} THEN {} ELSE cache[c]]
  BY <1>0, <1>1 DEF Send, Remove
<1>7. stack[k].node # NoNode =>
         /\ stack[k].node = <<c, n>>
         /\ c \in Context /\ c # b /\ n \in parent[c] \ wire[c]
         /\ ~Building(c)
  BY <1>0, <1>1, <1>5, Frames DEF LifeInv, NodesLive, BuildsApart, Building
<1>8. /\ Building(b) /\ ~Building(b)'
      /\ \A d : d # b => (Building(d)' <=> Building(d))
  BY <1>0, <1>1, <1>3, <1>5 DEF Building
<1>9. \A d, m : Waits(d, m) => Waits(d, m)' \/ stack[k].node = <<d, m>>
  BY <1>3 DEF Waits
<1>10. cache' \in [Context -> SUBSET Replica] /\ AnswersAlone'
  BY <1>3, <1>6, <1>7 DEF OwnedInv, AnswersAlone
<1>11. Owned(b)'
  <2>1. Owned(b) /\ parent[b] \subseteq Replica
    BY <1>2 DEF OwnedInv, LifeInv, Types
  <2>2. /\ req'[b] = req[b] /\ resp'[b] = resp[b] /\ parent'[b] = parent[b]
        /\ wire'[b] = Replica /\ cache'[b] = cache[b]
    BY <1>2, <1>4, <1>6, <1>7 DEF LifeInv, Types, OwnedInv
  <2> QED
    BY <2>1, <2>2, <1>4, <1>8 DEF Owned
<1>12. ASSUME NEW d \in Context, d # b, stack[k].node = NoNode \/ d # c PROVE Owned(d)'
  <2>1. /\ req'[d] = req[d] /\ resp'[d] = resp[d] /\ parent'[d] = parent[d]
        /\ wire'[d] = wire[d] /\ cache'[d] = cache[d]
    BY <1>2, <1>4, <1>6, <1>7, <1>12 DEF LifeInv, Types, OwnedInv
  <2>2. \A m : stack[k].node # <<d, m>>
    BY <1>7, <1>12, NodeIsNode
  <2> QED
    BY <2>1, <2>2, <1>8, <1>9, <1>12, OwnedKept DEF OwnedInv
<1>13. ASSUME stack[k].node # NoNode PROVE Owned(c)'
  <2>1. Owned(c) /\ c \in Context /\ c # b
    BY <1>7, <1>13 DEF OwnedInv
  <2>2. /\ req'[c] = req[c] \ {n} /\ resp'[c] = resp[c] \ {n}
        /\ parent'[c] = parent[c] \ {n} /\ wire'[c] = wire[c]
        /\ cache'[c] = IF parent[c] = {n} THEN {} ELSE cache[c]
    BY <2>1, <1>2, <1>4, <1>6, <1>13 DEF LifeInv, Types, OwnedInv
  <2>3. \A m : m # n /\ Waits(c, m) => Waits(c, m)'
    BY <1>7, <1>9, <1>13
  <2> QED
    BY <2>1, <2>2, <2>3, <1>7, <1>8, <1>13 DEF Owned
<1> QED
  BY <1>10, <1>11, <1>12, <1>13 DEF OwnedInv

LEMMA OwnedInit == Init => OwnedInv
<1> SUFFICES ASSUME Init PROVE OwnedInv
  OBVIOUS
<1>1. DOMAIN stack = {}
  BY DEF Init
<1> QED
  BY <1>1 DEF Init, OwnedInv, AnswersAlone, Owned, Building, Waits

LEMMA OwnedNext == LifeInv /\ OwnedInv /\ [Next]_vars => OwnedInv'
BY StartOwned, AllocOwned, QuietOwned, ReturnOwned, AdvanceOwned, SendOwned
   DEF Next, Continuation

\* The thread's contexts and buffers do not outlive their responses: between
\* two rounds of the event loop a context that waits for nobody is gone, and
\* one that a stopped replica never answers keeps the request and response
\* buffers of the nodes that wait and the responses it had.
THEOREM BuffersAreGivenBack == Spec => []NothingLeaks
<1>1. LifeInv /\ OwnedInv => NothingLeaks
  <2> SUFFICES ASSUME LifeInv, OwnedInv, stack = <<>>, NEW c \in Context
               PROVE  /\ wire[c] = {} => parent[c] = {} /\ Holding(c) = 0
                      /\ wire[c] # {} => Holding(c) =< Cardinality(Replica) + Cardinality(wire[c])
    BY DEF NothingLeaks
  <2>1. /\ ~Building(c) /\ \A n : ~Waits(c, n)
    BY DEF Building, Waits
  <2>2. /\ req[c] = parent[c] /\ resp[c] = wire[c] /\ parent[c] = wire[c]
        /\ cache[c] \cap wire[c] = {}
        /\ parent[c] = {} => cache[c] = {}
    BY <2>1 DEF OwnedInv, Owned, LifeInv, WireLives
  <2>3. wire[c] \subseteq Replica /\ cache[c] \subseteq Replica /\ IsFiniteSet(Replica)
    BY OpAssumption DEF OwnedInv, LifeInv, Types
  <2>4. /\ IsFiniteSet(wire[c]) /\ IsFiniteSet(cache[c])
        /\ Cardinality(wire[c]) \in Nat /\ Cardinality(cache[c]) \in Nat
        /\ Cardinality(Replica) \in Nat
    BY <2>3, FS_Subset, FS_CardinalityType
  <2>5. Cardinality(cache[c]) + Cardinality(wire[c]) =< Cardinality(Replica)
    <3>1. Cardinality(cache[c] \cup wire[c]) =< Cardinality(Replica)
      BY <2>3, FS_Subset
    <3>2. Cardinality(cache[c] \cup wire[c]) =
            Cardinality(cache[c]) + Cardinality(wire[c]) - Cardinality({})
      BY <2>2, <2>4, FS_Union
    <3> QED
      BY <2>4, <3>1, <3>2, FS_EmptySet
  <2>6. Holding(c) = Cardinality(wire[c]) + Cardinality(wire[c]) + Cardinality(cache[c])
    BY <2>2 DEF Holding
  <2> QED
    BY <2>2, <2>4, <2>5, <2>6, FS_EmptySet
<1> QED
  BY <1>1, LifeInit, LifeNext, OwnedInit, OwnedNext, PTL DEF Spec

----------------------------------------------------------------------------
(* Answers.                                                                *)

\* The calls that answer others, one for each answer that waits for a buffer.
AnswersWait ==
  /\ answer \in [Incoming -> {"none", "waiting", "held", "freed"}]
  /\ \A i \in DOMAIN stack : stack[i].builds \notin Context =>
       /\ stack[i].builds[1] \in Incoming /\ stack[i].builds = <<stack[i].builds[1], "answer">>
       /\ answer[stack[i].builds[1]] = "waiting"
       /\ \A j \in DOMAIN stack : j # i => stack[j].builds # stack[i].builds

\* A new answer is one that nobody waits for.
LEMMA ServeWaits ==
  ASSUME LifeInv, AnswersWait, NEW h \in Incoming, Serve(h) PROVE AnswersWait'
<1>1. PICK f, k : f = [builds |-> <<h, "answer">>, node |-> NoNode, polling |-> FALSE]
                  /\ k = Len(stack) + 1
  OBVIOUS
<1>2. f \in Frame /\ f.builds = <<h, "answer">>
  BY <1>1 DEF Frame
<1>3. stack' = Append(stack, f) /\ stack \in Seq(Frame)
  BY <1>1 DEF Serve, Push, LifeInv, Types
<1>4. /\ DOMAIN stack' = DOMAIN stack \cup {k} /\ k \notin DOMAIN stack
      /\ stack'[k] = f
      /\ \A i \in DOMAIN stack : stack'[i] = stack[i]
  BY <1>1, <1>2, <1>3, Pushed
<1>5. answer[h] = "none" /\ answer' = [answer EXCEPT ![h] = "waiting"]
  BY DEF Serve
<1>6. \A i \in DOMAIN stack : stack[i].builds # <<h, "answer">>
  <2> SUFFICES ASSUME NEW i \in DOMAIN stack, stack[i].builds = <<h, "answer">> PROVE FALSE
    OBVIOUS
  <2>1. stack[i].builds \notin Context /\ stack[i].builds[1] = h
    BY AnswerIsNoContext
  <2> QED
    BY <2>1, <1>5 DEF AnswersWait
<1>7. answer' \in [Incoming -> {"none", "waiting", "held", "freed"}]
  BY <1>5 DEF AnswersWait
<1>8. ASSUME NEW i \in DOMAIN stack', stack'[i].builds \notin Context
      PROVE  /\ stack'[i].builds[1] \in Incoming
             /\ stack'[i].builds = <<stack'[i].builds[1], "answer">>
             /\ answer'[stack'[i].builds[1]] = "waiting"
             /\ \A j \in DOMAIN stack' : j # i => stack'[j].builds # stack'[i].builds
  <2>1. CASE i = k
    BY <2>1, <1>2, <1>4, <1>5, <1>6 DEF AnswersWait
  <2>2. CASE i \in DOMAIN stack
    <3>1. /\ stack[i].builds[1] \in Incoming /\ stack[i].builds = <<stack[i].builds[1], "answer">>
          /\ answer[stack[i].builds[1]] = "waiting"
          /\ \A j \in DOMAIN stack : j # i => stack[j].builds # stack[i].builds
      BY <2>2, <1>4, <1>8 DEF AnswersWait
    <3>2. answer'[stack[i].builds[1]] = "waiting"
      BY <3>1, <1>5 DEF AnswersWait
    <3> QED
      BY <2>2, <3>1, <3>2, <1>2, <1>4, <1>6
  <2> QED
    BY <2>1, <2>2, <1>4
<1> QED
  BY <1>7, <1>8 DEF AnswersWait

\* The answer leaves with its call.
LEMMA RespondWaits ==
  ASSUME LifeInv, AnswersWait, Respond
  PROVE  /\ AnswersWait'
         /\ \E h \in Incoming : /\ answer[h] = "waiting"
                               /\ answer' = [answer EXCEPT ![h] = "held"]
<1>1. PICK k, h : k = Len(stack) /\ h = stack[k].builds[1]
  OBVIOUS
<1>2. stack \in Seq(Frame) /\ stack # <<>> /\ stack[k].builds[2] = "answer"
      /\ answer' = [answer EXCEPT ![h] = "held"]
  BY <1>1 DEF Respond, Top, LifeInv, Types
<1>3. /\ k \in DOMAIN stack /\ DOMAIN stack' = DOMAIN stack \ {k}
      /\ \A i \in DOMAIN stack' : stack'[i] = stack[i]
  BY <1>1, <1>2, Popped DEF Respond
<1>4. stack[k].builds \notin Context
  BY <1>2 DEF Context, Round
<1>5. h \in Incoming /\ answer[h] = "waiting" /\ stack[k].builds = <<h, "answer">>
      /\ \A j \in DOMAIN stack : j # k => stack[j].builds # stack[k].builds
  BY <1>1, <1>3, <1>4 DEF AnswersWait
<1>6. AnswersWait'
  BY <1>2, <1>3, <1>5 DEF AnswersWait
<1> QED
  BY <1>2, <1>5, <1>6

\* Everything else is about contexts.
LEMMA ContextWaits ==
  ASSUME LifeInv, AnswersWait, UNCHANGED answer,
         \A i \in DOMAIN stack' : \/ stack'[i].builds \in Context
                                  \/ i \in DOMAIN stack /\ stack'[i].builds = stack[i].builds
  PROVE  AnswersWait'
BY DEF AnswersWait

LEMMA WaitsNext == LifeInv /\ AnswersWait /\ [Next]_vars => AnswersWait'
<1> SUFFICES ASSUME LifeInv, AnswersWait, [Next]_vars PROVE AnswersWait'
  OBVIOUS
<1>0. stack \in Seq(Frame)
  BY DEF LifeInv, Types
<1>1. CASE Alloc \/ AllocFails
  <2>1. stack # <<>> /\ UNCHANGED answer
    BY <1>1 DEF Alloc, BuildsContext, AllocFails
  <2>2. /\ DOMAIN stack' = DOMAIN stack
        /\ \A i \in DOMAIN stack : stack'[i].builds = stack[i].builds
    <3>1. \E p \in BOOLEAN : stack' = [stack EXCEPT ![Len(stack)].polling = p]
      BY <1>1 DEF Alloc, AllocFails
    <3> QED
      BY <2>1, <3>1, <1>0, Polls
  <2> QED
    BY <2>1, <2>2, ContextWaits
<1>2. CASE Send
  <2>1. stack # <<>> /\ UNCHANGED answer
    BY <1>2 DEF Send, BuildsContext
  <2>2. /\ DOMAIN stack' \subseteq DOMAIN stack
        /\ \A i \in DOMAIN stack' : stack'[i] = stack[i]
    BY <2>1, <1>0, <1>2, Popped DEF Send
  <2> QED
    BY <2>1, <2>2, ContextWaits
<1>3. ASSUME NEW b \in Context, NEW node \in (Context \X Replica) \cup {NoNode},
             Push(b, node), UNCHANGED answer
      PROVE  AnswersWait'
  <2>1. PICK f : f = [builds |-> b, node |-> node, polling |-> FALSE]
    OBVIOUS
  <2>2. f \in Frame /\ f.builds = b /\ stack' = Append(stack, f)
    BY <1>3, <2>1 DEF Frame, Push
  <2>3. \A i \in DOMAIN stack' : \/ i \in DOMAIN stack /\ stack'[i] = stack[i]
                                 \/ stack'[i] = f
    BY <2>2, <1>0, Pushed
  <2>4. \A i \in DOMAIN stack' : \/ stack'[i].builds \in Context
                                 \/ i \in DOMAIN stack /\ stack'[i].builds = stack[i].builds
    BY <2>2, <2>3
  <2> QED
    BY <2>4, <1>3, ContextWaits
<1>4. ASSUME NEW o \in Op, Start(o) PROVE AnswersWait'
  <2>1. <<o, "query">> \in Context
    BY DEF Context, Round
  <2> QED
    BY <2>1, <1>3, <1>4 DEF Start
<1>5. ASSUME NEW c \in Context, NEW n \in Replica, Advance(c, n) PROVE AnswersWait'
  <2>1. <<c[1], "update">> \in Context
    BY DEF Context, Round
  <2> QED
    BY <2>1, <1>3, <1>5 DEF Advance
<1>6. ASSUME NEW h \in Incoming, FreeAnswer(h) PROVE AnswersWait'
  BY <1>6 DEF FreeAnswer, AnswersWait
<1>7. CASE UNCHANGED <<answer, stack>>
  BY <1>7, ContextWaits
<1> QED
  BY <1>1, <1>2, <1>4, <1>5, <1>6, <1>7, ServeWaits, RespondWaits
     DEF Next, Continuation, Return, Late, Stop, vars

----------------------------------------------------------------------------
(* The number of buffers.                                                  *)

LEMMA ContextFinite == IsFiniteSet(Context \X Replica) /\ IsFiniteSet(Replica)
<1>1. IsFiniteSet(Round)
  <2>1. Round = ({} \cup {"query"}) \cup {"update"}
    BY DEF Round
  <2> QED
    BY <2>1, FS_EmptySet, FS_AddElement
<1>2. IsFiniteSet(Op) /\ IsFiniteSet(Replica)
  BY OpAssumption
<1> QED
  BY <1>1, <1>2, FS_Product DEF Context

\* One context's buffers change: the number of all of them changes by as much.
LEMMA OwnersChange ==
  ASSUME NEW f \in [Context -> SUBSET Replica], NEW g \in [Context -> SUBSET Replica],
         NEW c \in Context, \A d \in Context \ {c} : g[d] = f[d]
  PROVE  /\ Cardinality(Owners(f)) \in Nat /\ Cardinality(Owners(g)) \in Nat
         /\ Cardinality(f[c]) \in Nat /\ Cardinality(g[c]) \in Nat
         /\ Cardinality(Owners(g)) = Cardinality(Owners(f)) - Cardinality(f[c]) + Cardinality(g[c])
<1>1. PICK B : B = {x \in Owners(f) : x[1] # c}
  OBVIOUS
<1>2. B \in SUBSET (Context \X Replica) /\ \A x \in B : x[1] # c
  BY <1>1 DEF Owners
<1>3. IsFiniteSet(B)
  BY <1>2, ContextFinite, FS_Subset
<1>4. B = {x \in Owners(g) : x[1] # c}
  BY <1>1 DEF Owners
<1>5. ASSUME NEW h \in [Context -> SUBSET Replica], B = {x \in Owners(h) : x[1] # c}
      PROVE  /\ Cardinality(B) \in Nat /\ Cardinality(h[c]) \in Nat
             /\ Cardinality(Owners(h)) = Cardinality(B) + Cardinality(h[c])
  <2>1. PICK P : P = {c} \X h[c]
    OBVIOUS
  <2>2. Owners(h) = B \cup P /\ B \cap P = {}
    BY <2>1, <1>5 DEF Owners
  <2>3. IsFiniteSet(h[c]) /\ IsFiniteSet({c}) /\ Cardinality({c}) = 1
    BY ContextFinite, FS_Subset, FS_Singleton
  <2>4. Cardinality(B) \in Nat /\ Cardinality(h[c]) \in Nat
    BY <2>3, <1>3, FS_CardinalityType
  <2>5. IsFiniteSet(P) /\ Cardinality(P) = 1 * Cardinality(h[c])
    BY <2>1, <2>3, FS_Product
  <2>6. Cardinality(B \cup P) = Cardinality(B) + Cardinality(P) - Cardinality({})
    BY <2>2, <2>5, <1>3, FS_Union
  <2> QED
    BY <2>2, <2>4, <2>5, <2>6, FS_EmptySet
<1>6. /\ Cardinality(B) \in Nat /\ Cardinality(f[c]) \in Nat
      /\ Cardinality(Owners(f)) = Cardinality(B) + Cardinality(f[c])
  BY <1>1, <1>5
<1>7. /\ Cardinality(g[c]) \in Nat
      /\ Cardinality(Owners(g)) = Cardinality(B) + Cardinality(g[c])
  BY <1>4, <1>5
<1> QED
  BY <1>6, <1>7

InNodes == Cardinality(Owners(req)) + Cardinality(Owners(resp)) + Cardinality(Owners(cache))

Accounts == free \in Int /\ BuffersAccounted

\* Counting is in numbers.
LEMMA Counted ==
  /\ \A f \in [Context -> SUBSET Replica] : Cardinality(Owners(f)) \in Nat
  /\ \A S \in SUBSET Incoming : IsFiniteSet(S) /\ Cardinality(S) \in Nat
<1>1. \A f \in [Context -> SUBSET Replica] : Owners(f) \in SUBSET (Context \X Replica)
  BY DEF Owners
<1>2. \A f \in [Context -> SUBSET Replica] : IsFiniteSet(Owners(f))
  BY <1>1, ContextFinite, FS_Subset
<1>3. \A S \in SUBSET Incoming : IsFiniteSet(S)
  BY OpAssumption, FS_Subset
<1> QED
  BY <1>2, <1>3, FS_CardinalityType

LEMMA InNodesType == ASSUME LifeInv, OwnedInv PROVE InNodes \in Nat
<1>1. /\ req \in [Context -> SUBSET Replica] /\ resp \in [Context -> SUBSET Replica]
      /\ cache \in [Context -> SUBSET Replica]
  BY DEF LifeInv, Types, OwnedInv
<1> QED
  BY <1>1, Counted DEF InNodes

\* The equation is kept when what is free, in nodes and in answers is.
LEMMA AccountsKept ==
  ASSUME LifeInv, OwnedInv, Accounts, LifeInv', OwnedInv', free' \in Int,
         free' + InNodes' + Cardinality(Answering') = free + InNodes + Cardinality(Answering)
  PROVE  Accounts'
<1>1. /\ req \in [Context -> SUBSET Replica] /\ req' \in [Context -> SUBSET Replica]
      /\ resp \in [Context -> SUBSET Replica] /\ resp' \in [Context -> SUBSET Replica]
      /\ cache \in [Context -> SUBSET Replica] /\ cache' \in [Context -> SUBSET Replica]
      /\ Answering \in SUBSET Incoming /\ Answering' \in SUBSET Incoming
  BY DEF LifeInv, Types, OwnedInv, Answering
<1>2. /\ Cardinality(Owners(req)) \in Nat /\ Cardinality(Owners(req')) \in Nat
      /\ Cardinality(Owners(resp)) \in Nat /\ Cardinality(Owners(resp')) \in Nat
      /\ Cardinality(Owners(cache)) \in Nat /\ Cardinality(Owners(cache')) \in Nat
      /\ Cardinality(Answering) \in Nat /\ Cardinality(Answering') \in Nat
  BY <1>1, Counted
<1>3. /\ InNodes = Cardinality(Owners(req)) + Cardinality(Owners(resp)) + Cardinality(Owners(cache))
      /\ InNodes' = Cardinality(Owners(req')) + Cardinality(Owners(resp'))
                      + Cardinality(Owners(cache'))
  BY DEF InNodes, Owners
<1>4. free + Cardinality(Owners(req)) + Cardinality(Owners(resp)) + Cardinality(Owners(cache))
        + Cardinality(Answering) = Pool /\ free \in Int
  BY DEF Accounts, BuffersAccounted
<1>5. free' + Cardinality(Owners(req')) + Cardinality(Owners(resp')) + Cardinality(Owners(cache'))
        + Cardinality(Answering') = Pool
  BY <1>2, <1>3, <1>4
<1> QED
  BY <1>5 DEF Accounts, BuffersAccounted, Owners

\* What a set of replicas loses with one.
LEMMA OneLess ==
  ASSUME NEW S \in SUBSET Replica, NEW n
  PROVE  /\ Cardinality(S) \in Nat /\ Cardinality(S \cap {n}) \in Nat
         /\ Cardinality(S \ {n}) = Cardinality(S) - Cardinality(S \cap {n})
         /\ n \in S => Cardinality(S \ {n}) = Cardinality(S) - 1
         /\ n \notin S => Cardinality(S \cup {n}) = Cardinality(S) + 1
<1>1. IsFiniteSet(S)
  BY ContextFinite, FS_Subset
<1>2. IsFiniteSet(S \cap {n})
  BY <1>1, FS_Intersection
<1> QED
  BY <1>1, <1>2, FS_CardinalityType, FS_Difference, FS_RemoveElement, FS_AddElement

\* NodeReplicaContext::remove gives back what the node and, with the last one,
\* the cache hold, given what add_to_cache has moved between them before.
LEMMA RemoveCounts ==
  ASSUME LifeInv, OwnedInv, free \in Int, NEW c \in Context, NEW n \in Replica,
         NEW left \in SUBSET Replica, NEW held \in SUBSET Replica, Remove(c, n, left, held)
  PROVE  /\ free' \in Int
         /\ free' + InNodes' = free + InNodes + Cardinality(left) - Cardinality(resp[c])
                                 + Cardinality(held) - Cardinality(cache[c])
<1> DEFINE last == parent[c] = {n}
           kept == IF last THEN {} ELSE held
           cached == IF last THEN Cardinality(held) ELSE 0
<1>1. /\ req \in [Context -> SUBSET Replica] /\ resp \in [Context -> SUBSET Replica]
      /\ cache \in [Context -> SUBSET Replica]
  BY DEF LifeInv, Types, OwnedInv
<1>2. /\ req' = [req EXCEPT ![c] = req[c] \ {n}]
      /\ resp' = [resp EXCEPT ![c] = left \ {n}]
      /\ cache' = [cache EXCEPT ![c] = kept]
      /\ free' = free + Cardinality(req[c] \cap {n}) + Cardinality(left \cap {n}) + cached
  BY DEF Remove
<1>10. /\ req' \in [Context -> SUBSET Replica] /\ resp' \in [Context -> SUBSET Replica]
       /\ cache' \in [Context -> SUBSET Replica]
       /\ req'[c] = req[c] \ {n} /\ resp'[c] = left \ {n} /\ cache'[c] = kept
       /\ \A d \in Context \ {c} : req'[d] = req[d] /\ resp'[d] = resp[d] /\ cache'[d] = cache[d]
  BY <1>1, <1>2
<1>3. /\ req[c] \in SUBSET Replica /\ req[c] \ {n} \in SUBSET Replica
      /\ left \ {n} \in SUBSET Replica /\ kept \in SUBSET Replica
      /\ resp[c] \in SUBSET Replica /\ cache[c] \in SUBSET Replica
  BY <1>1
<1>4. /\ Cardinality(held) \in Nat /\ cached \in Nat /\ Cardinality(kept) \in Nat
      /\ Cardinality(kept) + cached = Cardinality(held)
  <2>1. Cardinality(held) \in Nat /\ Cardinality({}) = 0
    BY OneLess, FS_EmptySet
  <2>2. CASE last
    BY <2>1, <2>2
  <2>3. CASE ~last
    BY <2>1, <2>3
  <2> QED
    BY <2>2, <2>3
<1> HIDE DEF last, kept, cached
<1>5. /\ Cardinality(Owners(req)) \in Nat
      /\ Cardinality(Owners(req')) = Cardinality(Owners(req)) - Cardinality(req[c] \cap {n})
  <2>1. /\ req \in [Context -> SUBSET Replica] /\ req' \in [Context -> SUBSET Replica]
        /\ \A d \in Context \ {c} : req'[d] = req[d]
    BY <1>1, <1>10
  <2>2. /\ Cardinality(Owners(req)) \in Nat
        /\ Cardinality(Owners(req')) =
             Cardinality(Owners(req)) - Cardinality(req[c]) + Cardinality(req'[c])
    BY <2>1, OwnersChange, Zenon
  <2>3. /\ Cardinality(req[c]) \in Nat /\ Cardinality(req[c] \cap {n}) \in Nat
        /\ Cardinality(req[c] \ {n}) = Cardinality(req[c]) - Cardinality(req[c] \cap {n})
    BY <1>3, OneLess
  <2> QED
    BY <2>2, <2>3, <1>10
<1>6. /\ Cardinality(Owners(resp)) \in Nat /\ Cardinality(resp[c]) \in Nat
      /\ Cardinality(Owners(resp')) = Cardinality(Owners(resp)) - Cardinality(resp[c])
                                        + Cardinality(left) - Cardinality(left \cap {n})
  <2>1. /\ resp \in [Context -> SUBSET Replica] /\ resp' \in [Context -> SUBSET Replica]
        /\ \A d \in Context \ {c} : resp'[d] = resp[d]
    BY <1>1, <1>10
  <2>2. /\ Cardinality(Owners(resp)) \in Nat /\ Cardinality(resp[c]) \in Nat
        /\ Cardinality(Owners(resp')) =
             Cardinality(Owners(resp)) - Cardinality(resp[c]) + Cardinality(resp'[c])
    BY <2>1, OwnersChange, Zenon
  <2>3. /\ Cardinality(left) \in Nat /\ Cardinality(left \cap {n}) \in Nat
        /\ Cardinality(left \ {n}) = Cardinality(left) - Cardinality(left \cap {n})
    BY OneLess
  <2> QED
    BY <2>2, <2>3, <1>10
<1>7. /\ Cardinality(Owners(cache)) \in Nat /\ Cardinality(cache[c]) \in Nat
      /\ Cardinality(Owners(cache')) =
           Cardinality(Owners(cache)) - Cardinality(cache[c]) + Cardinality(kept)
  <2>1. /\ cache \in [Context -> SUBSET Replica] /\ cache' \in [Context -> SUBSET Replica]
        /\ \A d \in Context \ {c} : cache'[d] = cache[d]
    BY <1>1, <1>10
  <2>2. /\ Cardinality(Owners(cache)) \in Nat /\ Cardinality(cache[c]) \in Nat
        /\ Cardinality(Owners(cache')) =
             Cardinality(Owners(cache)) - Cardinality(cache[c]) + Cardinality(cache'[c])
    BY <2>1, OwnersChange, Zenon
  <2> QED
    BY <2>2, <1>10
<1>8. /\ Cardinality(req[c] \cap {n}) \in Nat /\ Cardinality(left \cap {n}) \in Nat
      /\ Cardinality(left) \in Nat
  BY <1>3, OneLess
<1>9. /\ InNodes = Cardinality(Owners(req)) + Cardinality(Owners(resp)) + Cardinality(Owners(cache))
      /\ InNodes' = Cardinality(Owners(req')) + Cardinality(Owners(resp'))
                      + Cardinality(Owners(cache'))
  BY DEF InNodes, Owners
<1> QED
  BY <1>2, <1>4, <1>5, <1>6, <1>7, <1>8, <1>9
\* Handlers of responses, and calls that send.
LEMMA ReturnAccounts ==
  ASSUME LifeInv, OwnedInv, Accounts, NEW c \in Context, NEW n \in Replica,
         Return(c, n) \/ Late(c, n)
  PROVE  Accounts'
<1>1. /\ free \in Int /\ UNCHANGED answer /\ n \in wire[c]
      /\ Remove(c, n, resp[c] \ {n}, cache[c] \cup {n})
  BY DEF Accounts, Return, Late, Receive, AddToCache
<1>2. /\ resp[c] \in SUBSET Replica /\ cache[c] \in SUBSET Replica
      /\ resp[c] \ {n} \in SUBSET Replica /\ cache[c] \cup {n} \in SUBSET Replica
  BY DEF LifeInv, Types, OwnedInv
<1>3. n \in resp[c] /\ n \notin cache[c]
  <2>1. ~Building(c)
    BY <1>1 DEF Building, LifeInv, BuildsApart
  <2> QED
    BY <2>1, <1>1 DEF OwnedInv, Owned
<1>4. /\ Cardinality(resp[c]) \in Nat /\ Cardinality(cache[c]) \in Nat
      /\ Cardinality(resp[c] \ {n}) = Cardinality(resp[c]) - 1
      /\ Cardinality(cache[c] \cup {n}) = Cardinality(cache[c]) + 1
  BY <1>2, <1>3, OneLess
<1>5. /\ free' \in Int
      /\ free' + InNodes' = free + InNodes + Cardinality(resp[c] \ {n}) - Cardinality(resp[c])
                              + Cardinality(cache[c] \cup {n}) - Cardinality(cache[c])
  BY <1>1, <1>2, RemoveCounts, Zenon
<1>6. InNodes \in Nat
  BY InNodesType
<1>7. Answering' = Answering
  BY <1>1 DEF Answering
<1>8. free' + InNodes' + Cardinality(Answering') = free + InNodes + Cardinality(Answering)
  BY <1>1, <1>4, <1>5, <1>6, <1>7
<1> QED
  BY <1>5, <1>8, ReturnLife, ReturnOwned, AccountsKept

\* The rest of send_and_encrypt_msg: nothing but the end of the continuation's
\* node touches buffers.
LEMMA SendAccounts ==
  ASSUME LifeInv, OwnedInv, Accounts, Send PROVE Accounts'
<1>1. PICK k, c, n : k = Len(stack) /\ c = stack[k].node[1] /\ n = stack[k].node[2]
  OBVIOUS
<1>2. k \in DOMAIN stack /\ Top = stack[k] /\ UNCHANGED answer
  BY <1>1 DEF Send, BuildsContext, LifeInv, Types, Top
<1>3. LifeInv' /\ OwnedInv' /\ free \in Int
  BY SendLife, SendOwned DEF Accounts
<1>4. Answering' = Answering
  BY <1>2 DEF Answering
<1>5. CASE stack[k].node = NoNode
  <2>1. UNCHANGED <<req, resp, cache, free>>
    BY <1>2, <1>5 DEF Send
  <2> QED
    BY <2>1, <1>4 DEF Accounts, BuffersAccounted, Owners
<1>6. CASE stack[k].node # NoNode
  <2>1. Remove(c, n, resp[c], cache[c])
    BY <1>1, <1>2, <1>6 DEF Send
  <2>2. c \in Context /\ n \in Replica
    BY <1>1, <1>2, <1>6, Frames DEF LifeInv
  <2>3. resp[c] \in SUBSET Replica /\ cache[c] \in SUBSET Replica
    BY <2>2 DEF LifeInv, Types, OwnedInv
  <2>4. /\ free' \in Int
        /\ free' + InNodes' = free + InNodes + Cardinality(resp[c]) - Cardinality(resp[c])
                                + Cardinality(cache[c]) - Cardinality(cache[c])
    BY <2>1, <2>2, <2>3, <1>3, RemoveCounts, Zenon
  <2>5. Cardinality(resp[c]) \in Nat /\ Cardinality(cache[c]) \in Nat /\ InNodes \in Nat
    BY <2>3, OneLess, InNodesType
  <2>6. free' + InNodes' + Cardinality(Answering') = free + InNodes + Cardinality(Answering)
    BY <2>4, <2>5, <1>3, <1>4
  <2> QED
    BY <2>4, <2>6, <1>3, AccountsKept
<1> QED
  BY <1>5, <1>6

\* A response moves from its node to the cache.
LEMMA AdvanceAccounts ==
  ASSUME LifeInv, OwnedInv, Accounts, NEW c \in Context, NEW n \in Replica, Advance(c, n)
  PROVE  Accounts'
<1>1. LifeInv' /\ OwnedInv' /\ free \in Int
  BY AdvanceLife, AdvanceOwned DEF Accounts
<1>2. /\ resp' = [resp EXCEPT ![c] = resp[c] \ {n}]
      /\ cache' = [cache EXCEPT ![c] = @ \cup {n}]
      /\ UNCHANGED <<req, answer, free>> /\ n \in wire[c]
  BY DEF Advance, AddToCache, Receive
<1>3. /\ resp \in [Context -> SUBSET Replica] /\ cache \in [Context -> SUBSET Replica]
      /\ resp' \in [Context -> SUBSET Replica] /\ cache' \in [Context -> SUBSET Replica]
      /\ req \in [Context -> SUBSET Replica]
  BY <1>1 DEF LifeInv, Types, OwnedInv
<1>4. n \in resp[c] /\ n \notin cache[c]
  <2>1. ~Building(c)
    BY <1>2 DEF Building, LifeInv, BuildsApart
  <2> QED
    BY <2>1, <1>2 DEF OwnedInv, Owned
<1>5. /\ Cardinality(resp[c]) \in Nat /\ Cardinality(cache[c]) \in Nat
      /\ Cardinality(resp'[c]) = Cardinality(resp[c]) - 1
      /\ Cardinality(cache'[c]) = Cardinality(cache[c]) + 1
  <2>1. resp[c] \in SUBSET Replica /\ cache[c] \in SUBSET Replica
    BY <1>3
  <2>2. resp'[c] = resp[c] \ {n} /\ cache'[c] = cache[c] \cup {n}
    BY <1>2, <1>3
  <2> QED
    BY <2>1, <2>2, <1>4, OneLess
<1>6. \A d \in Context \ {c} : resp'[d] = resp[d]
  BY <1>2, <1>3
<1>7. \A d \in Context \ {c} : cache'[d] = cache[d]
  BY <1>2, <1>3
<1>8. /\ Cardinality(Owners(resp)) \in Nat
      /\ Cardinality(Owners(resp')) =
           Cardinality(Owners(resp)) - Cardinality(resp[c]) + Cardinality(resp'[c])
  BY <1>3, <1>6, OwnersChange, Zenon
<1>9. /\ Cardinality(Owners(cache)) \in Nat
      /\ Cardinality(Owners(cache')) =
           Cardinality(Owners(cache)) - Cardinality(cache[c]) + Cardinality(cache'[c])
  BY <1>3, <1>7, OwnersChange, Zenon
<1>10. Cardinality(Owners(req)) \in Nat /\ Owners(req') = Owners(req) /\ Answering' = Answering
  BY <1>2, <1>3, Counted DEF Owners, Answering
<1>11. /\ InNodes = Cardinality(Owners(req)) + Cardinality(Owners(resp)) + Cardinality(Owners(cache))
       /\ InNodes' = Cardinality(Owners(req')) + Cardinality(Owners(resp'))
                       + Cardinality(Owners(cache'))
  BY DEF InNodes, Owners
<1>12. InNodes' = InNodes
  BY <1>5, <1>8, <1>9, <1>10, <1>11
<1>13. free' + InNodes' + Cardinality(Answering') = free + InNodes + Cardinality(Answering)
  BY <1>2, <1>10, <1>12
<1> QED
  BY <1>1, <1>2, <1>13, AccountsKept

\* A buffer that is handed out goes to a node that did not have it.
LEMMA AllocAccounts ==
  ASSUME LifeInv, OwnedInv, Accounts, Alloc PROVE Accounts'
<1>1. PICK c, n : c = Top.builds /\ n = Min(Replica \ resp[c])
  OBVIOUS
<1>2. LifeInv' /\ OwnedInv' /\ free \in Int
  BY AllocLife, AllocOwned DEF Accounts
<1>3. c \in Context
  <2>1. Len(stack) \in DOMAIN stack /\ Top = stack[Len(stack)]
    BY DEF Alloc, BuildsContext, LifeInv, Types, Top
  <2> QED
    BY <2>1, <1>1, Frames DEF Alloc, BuildsContext, LifeInv
<1>4. n \in Replica \ resp[c]
  <2>1. Replica \ resp[c] # {}
    BY <1>1, <1>3 DEF Alloc, Built, LifeInv, Types
  <2> QED
    BY <2>1, <1>1, SmallestIsIn
<1>5. /\ req \in [Context -> SUBSET Replica] /\ resp \in [Context -> SUBSET Replica]
      /\ cache \in [Context -> SUBSET Replica]
      /\ req' \in [Context -> SUBSET Replica] /\ resp' \in [Context -> SUBSET Replica]
  BY <1>2 DEF LifeInv, Types, OwnedInv
<1>6. /\ UNCHANGED <<cache, answer>> /\ free' = free - 1
      /\ \/ resp' = [resp EXCEPT ![c] = @ \cup {n}] /\ UNCHANGED req
         \/ n \notin req[c] /\ req' = [req EXCEPT ![c] = @ \cup {n}] /\ UNCHANGED resp
  BY <1>1 DEF Alloc
<1>7. /\ Cardinality(Owners(cache)) \in Nat /\ Cardinality(Owners(req)) \in Nat
      /\ Cardinality(Owners(resp)) \in Nat
  BY <1>5, Counted
<1>8. ASSUME NEW f \in [Context -> SUBSET Replica], NEW g \in [Context -> SUBSET Replica],
             n \notin f[c], g = [f EXCEPT ![c] = @ \cup {n}]
      PROVE  Cardinality(Owners(g)) = Cardinality(Owners(f)) + 1
  <2>1. \A d \in Context \ {c} : g[d] = f[d]
    BY <1>8
  <2>2. /\ Cardinality(Owners(f)) \in Nat
        /\ Cardinality(Owners(g)) = Cardinality(Owners(f)) - Cardinality(f[c]) + Cardinality(g[c])
    BY <2>1, <1>3, OwnersChange, Zenon
  <2>3. f[c] \in SUBSET Replica /\ g[c] = f[c] \cup {n}
    BY <1>3, <1>8
  <2>4. Cardinality(f[c]) \in Nat /\ Cardinality(g[c]) = Cardinality(f[c]) + 1
    BY <2>3, <1>8, OneLess
  <2> QED
    BY <2>2, <2>4
<1>9. \/ Cardinality(Owners(resp')) = Cardinality(Owners(resp)) + 1 /\ UNCHANGED req
      \/ Cardinality(Owners(req')) = Cardinality(Owners(req)) + 1 /\ UNCHANGED resp
  BY <1>4, <1>5, <1>6, <1>8
<1>10. /\ InNodes = Cardinality(Owners(req)) + Cardinality(Owners(resp)) + Cardinality(Owners(cache))
       /\ InNodes' = Cardinality(Owners(req')) + Cardinality(Owners(resp'))
                       + Cardinality(Owners(cache'))
  BY DEF InNodes, Owners
<1>11. InNodes' = InNodes + 1 /\ InNodes \in Nat
  BY <1>6, <1>7, <1>9, <1>10
<1>12. Answering' = Answering
  BY <1>6 DEF Answering
<1>13. free' \in Int /\ free' + InNodes' + Cardinality(Answering') = free + InNodes + Cardinality(Answering)
  BY <1>2, <1>6, <1>11, <1>12
<1> QED
  BY <1>2, <1>13, AccountsKept

\* The buffer of an answer is counted from the response until eRPC frees it.
LEMMA AnswerAccounts ==
  ASSUME LifeInv, OwnedInv, AnswersWait, Accounts,
         Respond \/ \E h \in Incoming : FreeAnswer(h)
  PROVE  Accounts'
<1>1. UNCHANGED <<req, resp, cache>> /\ InNodes' = InNodes
  BY DEF Respond, FreeAnswer, InNodes, Owners
<1>2. LifeInv' /\ OwnedInv' /\ free \in Int
  BY QuietLife, QuietOwned DEF Accounts
<1>3. Answering \in SUBSET Incoming /\ InNodes \in Nat
  BY InNodesType DEF Answering
<1>4. IsFiniteSet(Answering) /\ Cardinality(Answering) \in Nat
  BY <1>3, Counted
<1>5. CASE Respond
  <2>1. PICK h \in Incoming : answer[h] = "waiting" /\ answer' = [answer EXCEPT ![h] = "held"]
    BY <1>5, RespondWaits
  <2>2. h \notin Answering /\ Answering' = Answering \cup {h}
    BY <2>1 DEF Answering, AnswersWait
  <2>3. Cardinality(Answering') = Cardinality(Answering) + 1
    BY <2>2, <1>4, FS_AddElement
  <2>4. free' = free - 1
    BY <1>5 DEF Respond
  <2> QED
    BY <2>3, <2>4, <1>1, <1>2, <1>3, <1>4, AccountsKept
<1>6. ASSUME NEW h \in Incoming, FreeAnswer(h) PROVE Accounts'
  <2>1. h \in Answering /\ Answering' = Answering \ {h}
    BY <1>6 DEF FreeAnswer, Answering, AnswersWait
  <2>2. Cardinality(Answering') = Cardinality(Answering) - 1
    BY <2>1, <1>4, FS_RemoveElement
  <2>3. free' = free + 1
    BY <1>6 DEF FreeAnswer
  <2> QED
    BY <2>2, <2>3, <1>1, <1>2, <1>3, <1>4, AccountsKept
<1> QED
  BY <1>5, <1>6

\* No sequence of operations, answers and late responses loses a buffer of the
\* endpoint or frees one twice: create_buffers, add_to_cache, remove, the
\* destructor of the context and encrypt_and_resp keep the balance.
THEOREM NoBufferIsLost == Spec => []BuffersAccounted
<1> DEFINE Inv == LifeInv /\ OwnedInv /\ AnswersWait /\ Accounts
<1>1. Init => AnswersWait /\ Accounts
  <2> SUFFICES ASSUME Init PROVE AnswersWait /\ Accounts
    OBVIOUS
  <2>1. AnswersWait
    BY DEF Init, AnswersWait
  <2>2. Owners(req) = {} /\ Owners(resp) = {} /\ Owners(cache) = {} /\ Answering = {}
    BY DEF Init, Owners, Answering
  <2>3. Cardinality({}) = 0 /\ free = Pool /\ Pool \in Nat
    BY FS_EmptySet, PoolAssumption DEF Init
  <2> QED
    BY <2>1, <2>2, <2>3 DEF Accounts, BuffersAccounted
<1>2. Inv /\ [Next]_vars => Accounts'
  <2> SUFFICES ASSUME Inv, [Next]_vars PROVE Accounts'
    OBVIOUS
  <2>1. CASE UNCHANGED <<req, resp, cache, free>> /\ Answering' = Answering
    BY <2>1 DEF Accounts, BuffersAccounted, Owners
  <2>2. ASSUME \/ AllocFails
               \/ \E o \in Op : Start(o)
               \/ \E n \in Replica : Stop(n)
               \/ UNCHANGED vars
        PROVE  Accounts'
    BY <2>1, <2>2 DEF AllocFails, Start, Stop, vars, Answering
  <2>3. ASSUME NEW h \in Incoming, Serve(h) PROVE Accounts'
    BY <2>1, <2>3 DEF Serve, Answering, AnswersWait
  <2> QED
    BY <2>2, <2>3, AllocAccounts, SendAccounts, ReturnAccounts, AdvanceAccounts, AnswerAccounts
       DEF Next, Continuation
<1>3. Inv => BuffersAccounted
  BY DEF Accounts
<1> QED
  BY <1>1, <1>2, <1>3, LifeInit, LifeNext, OwnedInit, OwnedNext, WaitsNext, PTL DEF Spec
=============================================================================
