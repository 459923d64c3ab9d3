----------------------------- MODULE ABDProofs -----------------------------
(***************************************************************************)
(* Proofs about ABD for any machines, threads, keys, traces and bounds:    *)
(* the clocks, types, quorums and real-time order, the refinement of       *)
(* Register, the sizes of Wire, the counters, and agreement of replicas.   *)
(***************************************************************************)
EXTENDS Wire, FiniteSetTheorems, TLAPS

----------------------------------------------------------------------------
(* Clocks and store entries, for every width of the two parts of a clock.  *)

\* The order on clocks the class means: the counter decides, then the id.
Before(a, b) == \/ a.count < b.count
                \/ a.count = b.count /\ a.m_id < b.m_id

\* A product with a positive factor grows by at least that factor.
LEMMA Product ==
  ASSUME NEW x \in Nat, NEW y \in Nat, NEW w \in Nat, x < y
  PROVE  x * w + w =< y * w
<1>1. PICK d \in Nat : y = x + 1 + d
  <2>1. y - x - 1 \in Nat /\ y = x + 1 + (y - x - 1)
    OBVIOUS
  <2> QED
    BY <2>1
<1>2. y * w = x * w + w + d * w
  BY <1>1
<1>3. d * w \in Nat /\ x * w \in Nat /\ y * w \in Nat
  OBVIOUS
<1> QED
  BY <1>2, <1>3

\* to_int (lamport.h:29-33) yields a natural number: comparing clocks is
\* comparing integers.
LEMMA ToIntNat ==
  ASSUME NEW a \in Clock
  PROVE  to_int(a) \in Nat
<1>1. a.count \in Nat /\ a.m_id \in Nat /\ MIdMod \in Nat
  BY WidthAssumption DEF Clock, Count, MachineId
<1> QED
  BY <1>1 DEF to_int

\* The comparison operators of Lamport (lamport.h:15-18), which compare the
\* packed integers, order clocks by counter and then by machine id.
THEOREM LessIsBefore ==
  ASSUME NEW a \in Clock, NEW b \in Clock
  PROVE  Less(a, b) <=> Before(a, b)
<1> DEFINE p == a.count * MIdMod
           q == b.count * MIdMod
<1>1. /\ a.count \in Nat /\ b.count \in Nat /\ MIdMod \in Nat
      /\ a.m_id \in Nat /\ a.m_id < MIdMod
      /\ b.m_id \in Nat /\ b.m_id < MIdMod
  BY WidthAssumption DEF Clock, Count, MachineId
<1>2. p \in Nat /\ q \in Nat
  BY <1>1
<1>3. a.count < b.count => p + MIdMod =< q
  BY <1>1, Product
<1>4. b.count < a.count => q + MIdMod =< p
  BY <1>1, Product
<1>5. a.count = b.count => p = q
  OBVIOUS
<1>6. Less(a, b) <=> p + a.m_id < q + b.m_id
  BY DEF Less, to_int
<1> HIDE DEF p, q
<1> QED
  BY <1>1, <1>2, <1>3, <1>4, <1>5, <1>6 DEF Before

\* Two clocks that neither precede each other are the same clock.
THEOREM ToIntInjective ==
  ASSUME NEW a \in Clock, NEW b \in Clock, to_int(a) = to_int(b)
  PROVE  a = b
<1>1. ~Less(a, b) /\ ~Less(b, a)
  BY ToIntNat DEF Less
<1>2. a.count \in Int /\ b.count \in Int /\ a.m_id \in Int /\ b.m_id \in Int
  BY WidthAssumption DEF Clock, Count, MachineId
<1>3. a.count = b.count /\ a.m_id = b.m_id
  BY <1>1, <1>2, LessIsBefore DEF Before
<1> QED
  BY <1>3 DEF Clock

LEMMA MinIsClock == MinClock \in Clock
BY WidthAssumption DEF MinClock, Clock, Count, MachineId

LEMMA MinLeq ==
  ASSUME NEW a \in Clock
  PROVE  Leq(MinClock, a)
<1>1. to_int(MinClock) = 0
  BY WidthAssumption DEF to_int, MinClock
<1> QED
  BY <1>1, ToIntNat DEF Leq

LEMMA LeqRefl ==
  ASSUME NEW a \in Clock
  PROVE  Leq(a, a)
BY ToIntNat DEF Leq

LEMMA LeqTrans ==
  ASSUME NEW a \in Clock, NEW b \in Clock, NEW c \in Clock, Leq(a, b), Leq(b, c)
  PROVE  Leq(a, c)
BY ToIntNat DEF Leq

LEMMA LaterBound ==
  ASSUME NEW a \in Clock, NEW b \in Clock
  PROVE  Later(a, b) \in {a, b} /\ Leq(a, Later(a, b)) /\ Leq(b, Later(a, b))
BY ToIntNat DEF Later, Less, Leq

\* A clock is not after another unless its counter is at most the other's.
LEMMA LeqCount ==
  ASSUME NEW a \in Clock, NEW b \in Clock, Leq(a, b)
  PROVE  a.count =< b.count
<1>1. ~Less(b, a)
  BY ToIntNat DEF Less, Leq
<1>2. a.count \in Int /\ b.count \in Int
  BY DEF Clock, Count
<1> QED
  BY <1>1, <1>2, LessIsBefore DEF Before

\* The stamp of a new put (protocol.h:473): unless the counter wrapped to 0 it
\* is after every clock whose counter is at most max.
LEMMA StampAfter ==
  ASSUME NEW max \in Count, NEW id \in MachineId, NEW c \in Clock, c.count =< max
  PROVE  /\ Stamp(max, id) \in Clock
         /\ Stamp(max, id).count = 0 \/ Less(c, Stamp(max, id))
<1>1. CountMod \in Nat \ {0} /\ max \in Nat /\ max < CountMod
  BY WidthAssumption DEF Count
<1>2. (max + 1) % CountMod \in 0 .. CountMod - 1
  BY <1>1
<1>3. Stamp(max, id) \in Clock
  BY <1>2 DEF Stamp, Clock, Count
<1>4. CASE max + 1 < CountMod
  <2>1. (max + 1) % CountMod = max + 1
    BY <1>1, <1>4
  <2>2. c.count < Stamp(max, id).count
    BY <2>1, <1>1 DEF Stamp, Clock, Count
  <2> QED
    BY <1>3, <2>2, LessIsBefore DEF Before
<1>5. CASE max + 1 = CountMod
  <2>1. (max + 1) % CountMod = 0
    BY <1>1, <1>5
  <2> QED
    BY <2>1, <1>3 DEF Stamp
<1> QED
  BY <1>1, <1>4, <1>5

\* KV_store::put (memtable.cpp:9-19) of a clock: afterwards the entry's clock is
\* not before it, and not before what it was, absent entries having the least.
LEMMA PutGrows ==
  ASSUME NEW V, NEW e \in [clock : Clock, val : V], NEW c \in Clock, NEW v \in V,
         e.val = NoValue => e.clock = MinClock
  PROVE  /\ Put(e, c, v) \in [clock : Clock, val : V]
         /\ Leq(e.clock, Put(e, c, v).clock)
         /\ Leq(c, Put(e, c, v).clock)
<1>1. CASE Newer(e, c)
  <2>1. Put(e, c, v) = [clock |-> c, val |-> v]
    BY <1>1 DEF Put
  <2>2. Leq(e.clock, c)
    <3>1. CASE e.val = NoValue
      BY <3>1, MinLeq
    <3>2. CASE Less(e.clock, c)
      BY <3>2, ToIntNat DEF Less, Leq
    <3> QED
      BY <1>1, <3>1, <3>2 DEF Newer
  <2> QED
    BY <2>1, <2>2, LeqRefl
<1>2. CASE ~Newer(e, c)
  <2>1. Put(e, c, v) = e
    BY <1>2 DEF Put
  <2>2. Leq(c, e.clock)
    <3>1. ~Less(e.clock, c)
      BY <1>2 DEF Newer
    <3>2. to_int(e.clock) \in Int /\ to_int(c) \in Int
      BY ToIntNat
    <3> QED
      BY <3>1, <3>2 DEF Less, Leq
  <2> QED
    BY <2>1, <2>2, LeqRefl
<1> QED
  BY <1>1, <1>2

----------------------------------------------------------------------------
(* Type correctness.                                                       *)

\* The parts of a command, and the replicas of its key.
LEMMA CommandType ==
  ASSUME TypeOK, NEW o \in Op
  PROVE  /\ trace \in [Op -> Cmd]
         /\ trace[o].kind \in {"put", "get"}
         /\ ThreadOf(o) \in Thread
         /\ Home(o) \in Node
         /\ KeyOf(o) \in Key
         /\ Group[KeyOf(o)] \subseteq Node
         /\ Replicas(o) \subseteq Group[KeyOf(o)] \ {Home(o)}
<1>1. trace \in [Op -> Cmd]
  BY OpAssumption DEF TypeOK
<1>2. /\ trace[o].kind \in {"put", "get"}
      /\ trace[o].thread \in Thread
      /\ trace[o].key \in Key
  BY <1>1 DEF Cmd
<1>3. Home(o) \in Node
  BY <1>2, NodeAssumption DEF Home
<1>4. Group[KeyOf(o)] \subseteq Node
  BY <1>2, GroupAssumption DEF KeyOf
<1>5. Replicas(o) \subseteq Group[KeyOf(o)] \ {Home(o)}
  BY DEF Replicas
<1> QED
  BY <1>1, <1>2, <1>3, <1>4, <1>5 DEF ThreadOf, KeyOf

LEMMA RequestsType ==
  ASSUME TypeOK, NEW o \in Op, NEW r \in Round, NEW c \in Clock, NEW v \in Value
  PROVE  Requests(o, r, c, v) \subseteq Req
BY CommandType DEF Requests, Req

LEMMA FinishType ==
  ASSUME TypeOK, NEW o \in Op, Finish(o)
  PROVE  /\ current_traces' \in [Thread -> 0 .. SizeMod - 1]
         /\ request' \in [Node -> 0 .. SizeMod - 1]
<1>1. \A x \in 0 .. SizeMod - 1 : (x - 1) % SizeMod \in 0 .. SizeMod - 1
  BY BoundAssumption
<1> QED
  BY <1>1, CommandType DEF TypeOK, Finish

\* Leaving the innermost continuation drops the last element of the stack.
LEMMA LeaveType ==
  ASSUME TypeOK, NEW o \in Op, busy[ThreadOf(o)] # <<>>, Leave(o)
  PROVE  busy' \in [Thread -> Seq(Op)]
<1>1. \A s \in Seq(Op) : s # <<>> => SubSeq(s, 1, Len(s) - 1) \in Seq(Op)
  OBVIOUS
<1> QED
  BY <1>1, CommandType DEF TypeOK, Leave

LEMMA EnterType ==
  ASSUME TypeOK, NEW o \in Op, Enter(o)
  PROVE  busy' \in [Thread -> Seq(Op)]
BY CommandType DEF TypeOK, Enter

\* The counters GetTime reduces over are counters.
LEMMA CountsType ==
  ASSUME TypeOK, NEW m \in resps
  PROVE  /\ m.op \in Op
         /\ Cached(m) \subseteq Resp
         /\ Counts(m.op, Cached(m)) \subseteq Count
<1>1. m \in Resp /\ m.op \in Op
  BY DEF TypeOK, Resp
<1>2. Cached(m) \subseteq Resp
  BY <1>1 DEF TypeOK, Cached
<1>3. kv[Home(m.op)][KeyOf(m.op)].clock.count \in Count
  BY <1>1, CommandType DEF TypeOK, Entry, Clock
<1>4. \A r \in Resp : r.clock.count \in Count
  BY DEF Resp, Clock
<1> QED
  BY <1>1, <1>2, <1>3, <1>4 DEF Counts

\* What RetValue ends with is an entry.
LEMMA ChosenType ==
  ASSUME TypeOK, NEW m \in resps,
         NEW c \in Chosen(kv[Home(m.op)][KeyOf(m.op)], Cached(m))
  PROVE  c \in Entry
<1>1. m.op \in Op /\ Cached(m) \subseteq Resp
  BY CountsType
<1>2. kv[Home(m.op)][KeyOf(m.op)] \in Entry
  BY <1>1, CommandType DEF TypeOK
<1>3. \A r \in Resp : [clock |-> r.clock, val |-> KeyBytes] \in Entry
  BY DEF Resp, Entry, Value
<1> QED
  BY <1>1, <1>2, <1>3 DEF Chosen, Candidates

LEMMA StartType ==
  ASSUME TypeOK, NEW o \in Op, Start(o)
  PROVE  TypeOK'
<1>1. SendQuery(o)
  BY DEF Start, Benchmark, ClientCall
<1>2. /\ current_traces' \in [Thread -> 0 .. SizeMod - 1]
      /\ request' \in [Node -> 0 .. SizeMod - 1]
  <2>1. \A x \in 0 .. SizeMod - 1 : (x + 1) % SizeMod \in 0 .. SizeMod - 1
    BY BoundAssumption
  <2>2. CASE Benchmark(o)
    <3>1. ThreadOf(o) \in Thread /\ Home(o) \in Node
      BY CommandType
    <3>2. \/ UNCHANGED <<current_traces, request>>
          \/ /\ current_traces' = [current_traces EXCEPT ![ThreadOf(o)] = (@ + 1) % SizeMod]
             /\ request' = [request EXCEPT ![Home(o)] = (@ + 1) % SizeMod]
      BY <2>2 DEF Benchmark
    <3>3. CASE UNCHANGED <<current_traces, request>>
      BY <3>3 DEF TypeOK
    <3>4. CASE /\ current_traces' = [current_traces EXCEPT ![ThreadOf(o)] = (@ + 1) % SizeMod]
               /\ request' = [request EXCEPT ![Home(o)] = (@ + 1) % SizeMod]
      <4>1. current_traces[ThreadOf(o)] \in 0 .. SizeMod - 1 /\ request[Home(o)] \in 0 .. SizeMod - 1
        BY <3>1 DEF TypeOK
      <4> QED
        BY <2>1, <3>1, <3>4, <4>1 DEF TypeOK
    <3> QED
      BY <3>2, <3>3, <3>4
  <2>3. CASE ClientCall(o)
    BY <2>3, FinishType DEF TypeOK, ClientCall
  <2> QED
    BY <2>2, <2>3 DEF Start
<1>3. reqs' \subseteq Req
  <2>1. "query" \in Round /\ MinClock \in Clock /\ NoValue \in Value
    BY MinIsClock DEF Round, Value
  <2>2. Requests(o, "query", MinClock, NoValue) \subseteq Req
    BY <2>1, RequestsType
  <2> QED
    BY <1>1, <2>2 DEF SendQuery, TypeOK
<1>4. floor' \in [Op -> Clock] /\ st' \in [Op -> Status]
  BY <1>1, CommandType DEF SendQuery, TypeOK, Status
<1> QED
  BY <1>1, <1>2, <1>3, <1>4 DEF SendQuery, TypeOK

LEMMA ResumeType ==
  ASSUME TypeOK, NEW o \in Op, Resume(o)
  PROVE  TypeOK'
<1> USE CommandType
<1>1. busy[ThreadOf(o)] # <<>>
  BY DEF Resume, SendPutReplica, LocalPut, WriteBackAndReturn, Resumed
<1>2. stamp[o] \in Clock /\ result[o] \in Value
  BY DEF TypeOK
<1>3. Requests(o, "update", stamp[o], result[o]) \subseteq Req
  BY <1>2, RequestsType DEF Round
<1>4. CASE SendPutReplica(o)
  BY <1>3, <1>4 DEF SendPutReplica, TypeOK, Status
<1>5. CASE LocalPut(o)
  <2>1. busy' \in [Thread -> Seq(Op)]
    BY <1>1, <1>5, LeaveType DEF LocalPut
  <2>2. \A e \in Entry : Put(e, stamp[o], result[o]) \in Entry
    BY <1>2 DEF Put, Entry
  <2>3. kv' \in [Node -> [Key -> Entry]]
    BY <1>5, <2>2 DEF LocalPut, TypeOK
  <2> QED
    BY <1>5, <2>1, <2>3 DEF LocalPut, TypeOK, Status
<1>6. CASE WriteBackAndReturn(o)
  <2>1. busy' \in [Thread -> Seq(Op)]
    BY <1>1, <1>6, LeaveType DEF WriteBackAndReturn
  <2>2. /\ current_traces' \in [Thread -> 0 .. SizeMod - 1]
        /\ request' \in [Node -> 0 .. SizeMod - 1]
    BY <1>6, FinishType DEF WriteBackAndReturn
  <2> QED
    BY <1>3, <1>6, <2>1, <2>2 DEF WriteBackAndReturn, TypeOK, Status
<1> QED
  BY <1>4, <1>5, <1>6 DEF Resume

LEMMA HandlerType ==
  ASSUME TypeOK, NEW m \in reqs, Handler(m)
  PROVE  TypeOK'
<1>1. /\ m \in Req /\ m.op \in Op /\ m.to \in Node /\ m.round \in Round
      /\ m.clock \in Clock /\ m.val \in Value
  BY DEF TypeOK, Req
<1>2. KeyOf(m.op) \in Key
  BY <1>1, CommandType
<1>3. kv[m.to][KeyOf(m.op)] \in Entry
  BY <1>1, <1>2 DEF TypeOK
<1>4. \A c \in Clock, v \in Value : Response(m, c, v) \in Resp
  BY <1>1 DEF Response, Resp
<1>5. ASSUME NEW c \in Clock, NEW v \in Value, Handle(m, c, v), kv' \in [Node -> [Key -> Entry]]
      PROVE  TypeOK'
  BY <1>4, <1>5 DEF Handle, TypeOK
<1>6. CASE GetTimeStamp(m)
  BY <1>3, <1>5, <1>6 DEF GetTimeStamp, Entry, Value, TypeOK
<1>7. CASE GetValueTimeStamp(m)
  BY <1>3, <1>5, <1>7 DEF GetValueTimeStamp, Entry, TypeOK
<1>8. CASE PutReplica(m)
  <2>1. \A e \in Entry : Put(e, m.clock, m.val) \in Entry
    BY <1>1 DEF Put, Entry
  <2>2. kv' \in [Node -> [Key -> Entry]]
    BY <1>1, <1>2, <1>8, <2>1 DEF PutReplica, TypeOK
  <2> QED
    BY <1>5, <1>8, <2>2, MinIsClock DEF PutReplica, Value
<1> QED
  BY <1>6, <1>7, <1>8 DEF Handler

LEMMA ContinuationType ==
  ASSUME TypeOK, NEW m \in resps, Continuation(m)
  PROVE  TypeOK'
<1>1. m \in Resp /\ m.op \in Op /\ m.round \in Round
  BY DEF TypeOK, Resp
<1>2. /\ resps' \subseteq Resp
      /\ n_resp' \in [Op -> [Round -> Nat]]
  <2>1. Receive(m)
    BY DEF Continuation, TooEarlyOrLate, GetTime, AckPutTime, RetValue,
           RetGetPutUpdate, Complete
  <2> QED
    BY <1>1, <2>1 DEF Receive, TypeOK
<1>3. ASSUME Complete(m)
      PROVE  done' \in [Op -> [Round -> BOOLEAN]] /\ cache' \in [Op -> SUBSET Resp]
  BY <1>1, <1>3 DEF Complete, TypeOK
<1>4. CASE TooEarlyOrLate(m)
  <2>1. cache' \in [Op -> SUBSET Resp]
    BY <1>1, <1>4, CountsType DEF TooEarlyOrLate, TypeOK
  <2> QED
    BY <1>2, <1>4, <2>1 DEF TooEarlyOrLate, TypeOK
<1>5. CASE GetTime(m)
  <2>1. PICK max \in Counts(m.op, Cached(m)) :
           stamp' = [stamp EXCEPT ![m.op] = Stamp(max, MId[Home(m.op)])]
    BY <1>5 DEF GetTime
  <2>2. Stamp(max, MId[Home(m.op)]) \in Clock
    <3>1. max \in Count /\ MId[Home(m.op)] \in MachineId
      BY <1>1, <2>1, CountsType, CommandType, NodeAssumption
    <3>2. MinClock.count =< max
      BY <3>1 DEF MinClock, Count
    <3> QED
      BY <3>1, <3>2, StampAfter, MinIsClock
  <2>3. stamp' \in [Op -> Clock]
    BY <2>1, <2>2 DEF TypeOK
  <2>4. result' \in [Op -> Value] /\ st' \in [Op -> Status]
    BY <1>1, <1>5 DEF GetTime, TypeOK, Value, Status
  <2>5. busy' \in [Thread -> Seq(Op)]
    BY <1>1, <1>5, EnterType DEF GetTime
  <2>6. done' \in [Op -> [Round -> BOOLEAN]] /\ cache' \in [Op -> SUBSET Resp]
    BY <1>3, <1>5 DEF GetTime
  <2> QED
    BY <1>2, <1>5, <2>3, <2>4, <2>5, <2>6 DEF GetTime, TypeOK
<1>6. CASE AckPutTime(m)
  <2>1. /\ current_traces' \in [Thread -> 0 .. SizeMod - 1]
        /\ request' \in [Node -> 0 .. SizeMod - 1]
    BY <1>1, <1>6, FinishType DEF AckPutTime
  <2>2. done' \in [Op -> [Round -> BOOLEAN]] /\ cache' \in [Op -> SUBSET Resp]
    BY <1>3, <1>6 DEF AckPutTime
  <2>3. \A c \in Clock : Later(c, stamp[m.op]) \in Clock
    <3>1. stamp[m.op] \in Clock
      BY <1>1 DEF TypeOK
    <3> QED
      BY <3>1, LaterBound
  <2>4. acked' \in [Key -> Clock] /\ st' \in [Op -> Status]
    BY <1>1, <1>6, <2>3, CommandType DEF AckPutTime, TypeOK, Status
  <2> QED
    BY <1>2, <1>6, <2>1, <2>2, <2>4 DEF AckPutTime, TypeOK
<1>7. CASE RetValue(m)
  <2>1. PICK chosen \in Chosen(kv[Home(m.op)][KeyOf(m.op)], Cached(m)) :
          /\ stamp' = [stamp EXCEPT ![m.op] = chosen.clock]
          /\ result' = [result EXCEPT ![m.op] = chosen.val]
          /\ \/ /\ st' = [st EXCEPT ![m.op] = "ret"]
                /\ Finish(m.op)
                /\ UNCHANGED busy
             \/ /\ st' = [st EXCEPT ![m.op] = "reduced"]
                /\ Enter(m.op)
                /\ UNCHANGED <<current_traces, request>>
    BY <1>7 DEF RetValue
  <2>2. chosen \in Entry
    BY <2>1, ChosenType
  <2>3. stamp' \in [Op -> Clock] /\ result' \in [Op -> Value]
    BY <2>1, <2>2 DEF TypeOK, Entry
  <2>4. /\ st' \in [Op -> Status]
        /\ current_traces' \in [Thread -> 0 .. SizeMod - 1]
        /\ request' \in [Node -> 0 .. SizeMod - 1]
        /\ busy' \in [Thread -> Seq(Op)]
    BY <1>1, <2>1, FinishType, EnterType DEF TypeOK, Status
  <2>5. done' \in [Op -> [Round -> BOOLEAN]] /\ cache' \in [Op -> SUBSET Resp]
    BY <1>3, <1>7 DEF RetValue
  <2> QED
    BY <1>2, <1>7, <2>3, <2>4, <2>5 DEF RetValue, TypeOK
<1>8. CASE RetGetPutUpdate(m)
  BY <1>2, <1>3, <1>8 DEF RetGetPutUpdate, TypeOK
<1> QED
  BY <1>4, <1>5, <1>6, <1>7, <1>8 DEF Continuation

LEMMA InitType == Init => TypeOK
<1> SUFFICES ASSUME Init PROVE TypeOK
  OBVIOUS
<1>1. Absent \in Entry
  BY MinIsClock DEF Absent, Entry, Value
<1>2. 0 \in 0 .. SizeMod - 1
  BY BoundAssumption
<1>3. busy \in [Thread -> Seq(Op)]
  BY DEF Init
<1> QED
  BY <1>1, <1>2, <1>3, MinIsClock DEF Init, TypeOK, Status, Value

LEMMA NextType == TypeOK /\ [Next]_vars => TypeOK'
<1> SUFFICES ASSUME TypeOK, [Next]_vars PROVE TypeOK'
  OBVIOUS
<1>1. CASE UNCHANGED vars
  BY <1>1 DEF vars, TypeOK
<1>2. CASE \E o \in Op : Start(o) \/ Resume(o)
  BY <1>2, StartType, ResumeType
<1>3. CASE \E m \in reqs : Handler(m)
  BY <1>3, HandlerType
<1>4. CASE \E m \in resps : Continuation(m)
  BY <1>4, ContinuationType
<1>5. CASE \E n \in Node : Stop(n)
  BY <1>5 DEF Stop, TypeOK
<1> QED
  BY <1>1, <1>2, <1>3, <1>4, <1>5 DEF Next

\* Every variable of the protocol keeps its type: in particular stamps stay
\* within the width of a clock (protocol.h:473) and the two size_t counters
\* within theirs.
THEOREM TypeCorrect == Spec => []TypeOK
<1>1. Init => TypeOK
  BY InitType
<1>2. TypeOK /\ [Next]_vars => TypeOK'
  BY NextType
<1> QED
  BY <1>1, <1>2, PTL DEF Spec
----------------------------------------------------------------------------
(* The inductive invariant.  Stores only grow in the order of clocks, so   *)
(* what has to be kept track of is who is known to have reached a clock:   *)
(* whoever acknowledged a put, its coordinator once it left GetTime, and,  *)
(* for every operation under way, two machines that had reached its floor  *)
(* when it started and whose answers to its query therefore reach it too.  *)

Stamped == {"reduced", "sent", "update", "ret"}
Sent == {"sent", "update", "ret"}

\* A put whose own store is still to be written is on top of its thread's
\* stack, so that its thread handles nothing.
Frames ==
  \A o \in Op : st[o] = "sent" => busy[ThreadOf(o)] # <<>> /\ Top(ThreadOf(o)) = o

\* Only absent keys lack a value, and they have the least clock.
AbsentIsMin ==
  \A n \in Node, k \in Key : kv[n][k].val = NoValue => kv[n][k].clock = MinClock

RequestOK(m) ==
  /\ Started(m.op)
  /\ m.to \in Replicas(m.op)
  /\ m.round = "update" =>
       /\ m.val # NoValue
       /\ trace[m.op].kind = "put" => st[m.op] \in Sent /\ m.clock = stamp[m.op]

ResponseOK(m) ==
  /\ Started(m.op)
  /\ m.from \in Replicas(m.op)
  /\ m.round = "update" /\ trace[m.op].kind = "put" =>
       /\ st[m.op] \in Sent
       /\ HasClock(m.from, KeyOf(m.op), stamp[m.op])

Messages == /\ \A m \in reqs : RequestOK(m)
            /\ \A m \in resps : ResponseOK(m)
            /\ \A o \in Op : cache[o] # {} => Started(o)

Acked == \A k \in Key : HeldByMajority(k, acked[k])

\* a and b had reached the floor of o when it started.
Witnesses(o, a, b) ==
  /\ a # b
  /\ HasClock(a, KeyOf(o), floor[o])
  /\ HasClock(b, KeyOf(o), floor[o])
  /\ \A r \in resps \cup cache[o] :
       r.op = o /\ r.round = "query" /\ r.from \in {a, b} => Leq(floor[o], r.clock)

\* The first five conjuncts support the other two, which are AckedOnMajority
\* and RealTimeOrder for this operation.
OperationOK(o) ==
  /\ Started(o) => /\ Home(o) \in Group[KeyOf(o)]
                   /\ \E a, b \in Group[KeyOf(o)] : Witnesses(o, a, b)
  /\ st[o] \in Stamped => done[o]["query"]
  /\ st[o] \in {"reduced", "sent"} => result[o] # NoValue
  /\ st[o] \in {"sent", "update"} => trace[o].kind = "put"
  /\ trace[o].kind = "put" /\ st[o] \in {"update", "ret"} => HasClock(Home(o), KeyOf(o), stamp[o])
  /\ trace[o].kind = "put" /\ st[o] = "ret" => HeldByMajority(KeyOf(o), stamp[o])
  /\ /\ trace[o].kind = "put" /\ st[o] \in Stamped
          => stamp[o].count = 0 \/ Less(floor[o], stamp[o])
     /\ trace[o].kind = "get" /\ st[o] \in {"reduced", "ret"} => Leq(floor[o], stamp[o])

IndInv == /\ TypeOK
          /\ Frames
          /\ AbsentIsMin
          /\ Messages
          /\ Acked
          /\ \A o \in Op : OperationOK(o)

----------------------------------------------------------------------------
(* What a step leaves alone.                                               *)

Grows == \A n \in Node, k \in Key : Leq(kv[n][k].clock, kv'[n][k].clock)

\* No operation goes back, and a put on its way keeps its stamp.
Progress ==
  \A o \in Op :
    /\ Started(o) => st'[o] \notin {"new", "skip"}
    /\ trace[o].kind = "put" /\ st[o] \in Sent => st'[o] \in Sent /\ stamp'[o] = stamp[o]

LEMMA Typed ==
  ASSUME TypeOK
  PROVE  /\ \A n \in Node, k \in Key : kv[n][k] \in Entry /\ kv[n][k].clock \in Clock
         /\ \A o \in Op : stamp[o] \in Clock /\ floor[o] \in Clock
         /\ \A k \in Key : acked[k] \in Clock /\ Group[k] \subseteq Node
         /\ \A m \in reqs : /\ m \in Req /\ m.op \in Op /\ m.to \in Node /\ m.clock \in Clock
                            /\ m.val \in Value /\ m.round \in Round
         /\ \A m \in resps : /\ m \in Resp /\ m.op \in Op /\ m.from \in Node
                             /\ m.clock \in Clock /\ m.round \in Round
<1>1. \A e \in Entry : e.clock \in Clock
  BY DEF Entry
<1>2. \A k \in Key : Group[k] \subseteq Node
  BY GroupAssumption
<1> QED
  BY <1>1, <1>2 DEF TypeOK, Req, Resp

LEMMA SameStoreGrows ==
  ASSUME TypeOK, kv' = kv
  PROVE  Grows
BY Typed, LeqRefl DEF Grows

\* A machine that reached a clock stays there.
LEMMA ReachedKept ==
  ASSUME TypeOK, TypeOK', Grows, NEW n \in Node, NEW k \in Key, NEW c \in Clock,
         Leq(c, kv[n][k].clock)
  PROVE  Leq(c, kv'[n][k].clock)
<1>1. kv[n][k].clock \in Clock
  BY Typed
<1>2. kv'[n][k].clock \in Clock
  <2>1. kv'[n][k] \in Entry
    BY DEF TypeOK
  <2> QED
    BY <2>1 DEF Entry
<1>3. Leq(kv[n][k].clock, kv'[n][k].clock)
  BY DEF Grows
<1> QED
  BY <1>1, <1>2, <1>3, LeqTrans

LEMMA MajorityKept ==
  ASSUME TypeOK, TypeOK', Grows, NEW k \in Key, NEW c \in Clock, HeldByMajority(k, c)
  PROVE  \E a, b \in Group[k] :
           a # b /\ Leq(c, kv'[a][k].clock) /\ Leq(c, kv'[b][k].clock)
<1>1. PICK a \in Group[k], b \in Group[k] :
         a # b /\ Leq(c, kv[a][k].clock) /\ Leq(c, kv[b][k].clock)
  BY DEF HeldByMajority, HasClock
<1>2. a \in Node /\ b \in Node
  BY Typed
<1>3. Leq(c, kv'[a][k].clock) /\ Leq(c, kv'[b][k].clock)
  BY <1>1, <1>2, ReachedKept
<1> QED
  BY <1>1, <1>3

LEMMA AckedKept ==
  ASSUME IndInv, TypeOK', Grows, acked' = acked
  PROVE  Acked'
<1>1. \A k \in Key : HeldByMajority(k, acked[k]) /\ acked[k] \in Clock
  BY Typed DEF IndInv, Acked
<1>2. \A k \in Key : \E a, b \in Group[k] :
        a # b /\ Leq(acked[k], kv'[a][k].clock) /\ Leq(acked[k], kv'[b][k].clock)
  BY <1>1, MajorityKept DEF IndInv
<1> QED
  BY <1>2 DEF Acked, HeldByMajority, HasClock

LEMMA MessagesKept ==
  ASSUME IndInv, TypeOK', Grows, trace' = trace, Progress
  PROVE  /\ \A m \in reqs : RequestOK(m)'
         /\ \A m \in resps : ResponseOK(m)'
<1>1. ASSUME NEW m \in reqs
      PROVE  RequestOK(m)'
  <2>1. RequestOK(m) /\ m.op \in Op
    BY Typed DEF IndInv, Messages
  <2> QED
    BY <2>1 DEF RequestOK, Progress, Started, Replicas, Home, KeyOf
<1>2. ASSUME NEW m \in resps
      PROVE  ResponseOK(m)'
  <2>1. ResponseOK(m) /\ m.op \in Op /\ m.from \in Node /\ stamp[m.op] \in Clock
    BY Typed DEF IndInv, Messages
  <2>2. KeyOf(m.op) \in Key
    BY <2>1, CommandType DEF IndInv
  <2>3. m.round = "update" /\ trace[m.op].kind = "put"
          => Leq(stamp[m.op], kv'[m.from][KeyOf(m.op)].clock)
    BY <2>1, <2>2, ReachedKept DEF IndInv, ResponseOK, HasClock
  <2> QED
    BY <2>1, <2>3 DEF ResponseOK, Progress, Started, Replicas, Home, KeyOf, HasClock
<1> QED
  BY <1>1, <1>2

\* The witnesses of an operation stay witnesses while its answers come from
\* the stores as they are.
LEMMA WitnessesKept ==
  ASSUME IndInv, TypeOK', Grows, trace' = trace, NEW o \in Op, Started(o),
         floor'[o] = floor[o],
         \A r \in resps' \cup cache'[o] :
           r.op = o /\ r.round = "query" =>
             \/ r \in resps \cup cache[o]
             \/ r.clock = kv[r.from][KeyOf(o)].clock
  PROVE  \E a, b \in Group[KeyOf(o)] : Witnesses(o, a, b)'
<1>1. PICK a \in Group[KeyOf(o)], b \in Group[KeyOf(o)] : Witnesses(o, a, b)
  BY DEF IndInv, OperationOK
<1>2. /\ a \in Node /\ b \in Node /\ KeyOf(o) \in Key /\ floor[o] \in Clock
  BY Typed, CommandType DEF IndInv
<1>3. /\ Leq(floor[o], kv'[a][KeyOf(o)].clock)
      /\ Leq(floor[o], kv'[b][KeyOf(o)].clock)
  BY <1>1, <1>2, ReachedKept DEF IndInv, Witnesses, HasClock
<1>4. \A r \in resps' \cup cache'[o] :
        r.op = o /\ r.round = "query" /\ r.from \in {a, b} => Leq(floor[o], r.clock)
  BY <1>1 DEF Witnesses, HasClock
<1> QED
  BY <1>1, <1>3, <1>4 DEF Witnesses, HasClock, KeyOf

\* An operation a step does not touch.
LEMMA OperationKept ==
  ASSUME IndInv, TypeOK', Grows, trace' = trace, NEW o \in Op,
         st'[o] = st[o], stamp'[o] = stamp[o], result'[o] = result[o],
         floor'[o] = floor[o], done[o]["query"] => done'[o]["query"],
         \A r \in resps' \cup cache'[o] :
           r.op = o /\ r.round = "query" =>
             \/ r \in resps \cup cache[o]
             \/ r.clock = kv[r.from][KeyOf(o)].clock
  PROVE  OperationOK(o)'
<1>1. OperationOK(o)
  BY DEF IndInv
<1>2. Home(o) \in Node /\ KeyOf(o) \in Key /\ stamp[o] \in Clock
  BY Typed, CommandType DEF IndInv
<1>3. Started(o) => \E a, b \in Group[KeyOf(o)] : Witnesses(o, a, b)'
  BY WitnessesKept
<1>4. trace[o].kind = "put" /\ st[o] \in {"update", "ret"}
        => Leq(stamp[o], kv'[Home(o)][KeyOf(o)].clock)
  BY <1>1, <1>2, ReachedKept DEF OperationOK, HasClock, IndInv
<1>5. trace[o].kind = "put" /\ st[o] = "ret" =>
        \E a, b \in Group[KeyOf(o)] : /\ a # b
                                      /\ Leq(stamp[o], kv'[a][KeyOf(o)].clock)
                                      /\ Leq(stamp[o], kv'[b][KeyOf(o)].clock)
  BY <1>1, <1>2, MajorityKept DEF OperationOK, IndInv
<1>6. (HeldByMajority(KeyOf(o), stamp[o]))' <=>
        \E a, b \in Group[KeyOf(o)] : /\ a # b
                                      /\ Leq(stamp[o], kv'[a][KeyOf(o)].clock)
                                      /\ Leq(stamp[o], kv'[b][KeyOf(o)].clock)
  BY DEF HeldByMajority, HasClock, KeyOf
<1>7. (HasClock(Home(o), KeyOf(o), stamp[o]))' <=> Leq(stamp[o], kv'[Home(o)][KeyOf(o)].clock)
  BY DEF HasClock, KeyOf, Home
<1>8. Started(o)' <=> Started(o)
  BY DEF Started
<1>9. Home(o)' = Home(o) /\ KeyOf(o)' = KeyOf(o)
  BY DEF Home, KeyOf
<1> QED
  BY <1>1, <1>3, <1>4, <1>5, <1>6, <1>7, <1>8, <1>9 DEF OperationOK

----------------------------------------------------------------------------
(* One lemma per kind of step.                                             *)

LEMMA StartInv ==
  ASSUME IndInv, NEW o \in Op, Start(o)
  PROVE  IndInv'
<1> USE DEF IndInv
<1>1. st[o] = "new" /\ SendQuery(o)
  BY DEF Start, Benchmark, ClientCall
<1>2. TypeOK'
  BY StartType
<1>3. Grows
  BY <1>1, SameStoreGrows DEF SendQuery
<1>4. /\ UNCHANGED <<trace, stamp, result, kv, resps, cache, done, busy, acked>>
      /\ st'[o] = IF Replicas(o) = {} THEN "skip" ELSE "query"
      /\ floor'[o] = acked[KeyOf(o)]
      /\ \A p \in Op : p # o => st'[p] = st[p] /\ floor'[p] = floor[p]
  BY <1>1 DEF SendQuery, TypeOK
<1>5. Progress
  BY <1>1, <1>4 DEF Progress, Started, Sent
<1>6. Frames'
  BY <1>1, <1>4 DEF Frames, ThreadOf, Top
<1>7. AbsentIsMin'
  BY <1>4 DEF AbsentIsMin
<1>8. Messages'
  <2>1. \A m \in Requests(o, "query", MinClock, NoValue) : RequestOK(m)'
    BY <1>4 DEF Requests, RequestOK, Started, Replicas, Home, KeyOf
  <2>2. \A p \in Op : cache'[p] # {} => Started(p)'
    BY <1>1, <1>4 DEF Messages, Started
  <2> QED
    BY <1>1, <1>2, <1>3, <1>4, <1>5, <2>1, <2>2, MessagesKept DEF Messages, SendQuery
<1>9. Acked'
  BY <1>2, <1>3, <1>4, AckedKept
<1>10. ASSUME NEW p \in Op, p # o
       PROVE  OperationOK(p)'
  BY <1>2, <1>3, <1>4, <1>10, OperationKept
<1>11. OperationOK(o)'
  <2>1. Started(o)' => Home(o) \in Group[KeyOf(o)]
    BY <1>4 DEF Started, Replicas
  <2>2. \E a, b \in Group[KeyOf(o)] : Witnesses(o, a, b)'
    <3>1. KeyOf(o) \in Key
      BY CommandType
    <3>2. PICK a \in Group[KeyOf(o)], b \in Group[KeyOf(o)] :
             /\ a # b
             /\ HasClock(a, KeyOf(o), acked[KeyOf(o)])
             /\ HasClock(b, KeyOf(o), acked[KeyOf(o)])
      BY <3>1 DEF Acked, HeldByMajority
    <3>3. \A r \in resps \cup cache[o] : r.op # o
      <4>1. cache[o] = {} /\ \A r \in resps : Started(r.op)
        BY <1>1 DEF Messages, ResponseOK, Started
      <4> QED
        BY <1>1, <4>1 DEF Started
    <3> QED
      BY <1>4, <3>2, <3>3 DEF Witnesses, HasClock, KeyOf
  <2>3. Home(o)' = Home(o) /\ KeyOf(o)' = KeyOf(o)
    BY <1>4 DEF Home, KeyOf
  <2> QED
    BY <1>4, <2>1, <2>2, <2>3 DEF OperationOK, Stamped
<1> QED
  BY <1>2, <1>6, <1>7, <1>8, <1>9, <1>10, <1>11

\* The clock a store has after a put of clock c and value v.
LEMMA PutStep ==
  ASSUME IndInv, TypeOK', NEW n \in Node, NEW k \in Key, NEW c \in Clock, NEW v \in Value,
         v # NoValue, kv' = [kv EXCEPT ![n][k] = Put(@, c, v)]
  PROVE  /\ Grows
         /\ AbsentIsMin'
         /\ Leq(c, kv'[n][k].clock)
<1> DEFINE e == kv[n][k]
<1>1. e \in [clock : Clock, val : Value] /\ (e.val = NoValue => e.clock = MinClock)
  BY Typed DEF IndInv, AbsentIsMin, Entry
<1>2. Leq(e.clock, Put(e, c, v).clock) /\ Leq(c, Put(e, c, v).clock)
  BY <1>1, PutGrows
<1>3. /\ kv'[n][k] = Put(e, c, v)
      /\ \A j \in Node, l \in Key : j # n \/ l # k => kv'[j][l] = kv[j][l]
  BY DEF IndInv, TypeOK
<1>4. Put(e, c, v).val = NoValue => Put(e, c, v) = e
  BY DEF Put
<1>5. Grows
  BY <1>2, <1>3, Typed, LeqRefl DEF Grows, IndInv
<1>6. AbsentIsMin'
  BY <1>1, <1>3, <1>4 DEF AbsentIsMin, IndInv
<1> QED
  BY <1>2, <1>3, <1>5, <1>6

LEMMA HandlerInv ==
  ASSUME IndInv, NEW m \in reqs, Handler(m)
  PROVE  IndInv'
<1> USE DEF IndInv
<1>1. TypeOK'
  BY HandlerType
<1>2. /\ m.op \in Op /\ m.to \in Node /\ m.clock \in Clock /\ m.val \in Value
      /\ m.round \in Round /\ KeyOf(m.op) \in Key /\ RequestOK(m)
  BY Typed, CommandType DEF Messages
<1>3. PICK c, v : Handle(m, c, v) /\ (m.round = "query" => c = kv[m.to][KeyOf(m.op)].clock)
  BY DEF Handler, GetTimeStamp, GetValueTimeStamp, PutReplica
<1>4. UNCHANGED <<trace, st, stamp, result, cache, done, busy, acked, floor>>
  BY <1>3 DEF Handle
<1>5. /\ Grows
      /\ AbsentIsMin'
      /\ m.round = "update" => Leq(m.clock, kv'[m.to][KeyOf(m.op)].clock)
  <2>1. CASE m.round = "query"
    <3>1. kv' = kv
      BY <2>1 DEF Handler, GetTimeStamp, GetValueTimeStamp, PutReplica
    <3> QED
      BY <2>1, <3>1, SameStoreGrows DEF AbsentIsMin
  <2>2. CASE m.round = "update"
    <3>1. kv' = [kv EXCEPT ![m.to][KeyOf(m.op)] = Put(@, m.clock, m.val)]
      BY <2>2 DEF Handler, GetTimeStamp, GetValueTimeStamp, PutReplica
    <3>2. m.val # NoValue
      BY <1>2, <2>2 DEF RequestOK
    <3> QED
      BY <1>1, <1>2, <3>1, <3>2, PutStep
  <2> QED
    BY <1>2, <2>1, <2>2 DEF Round
<1>6. Progress
  BY <1>4 DEF Progress, Started
<1>7. Frames'
  BY <1>4 DEF Frames, ThreadOf, Top
<1>8. Messages'
  <2>1. ResponseOK(Response(m, c, v))'
    BY <1>2, <1>4, <1>5 DEF Response, ResponseOK, RequestOK, Started, Replicas, Home, KeyOf, HasClock
  <2>2. \A p \in Op : cache'[p] # {} => Started(p)'
    BY <1>4 DEF Messages, Started
  <2> QED
    BY <1>1, <1>3, <1>4, <1>5, <1>6, <2>1, <2>2, MessagesKept DEF Messages, Handle
<1>9. Acked'
  BY <1>1, <1>4, <1>5, AckedKept
<1>10. ASSUME NEW p \in Op
       PROVE  OperationOK(p)'
  <2>1. \A r \in resps' \cup cache'[p] :
          r.op = p /\ r.round = "query" =>
            r \in resps \cup cache[p] \/ r.clock = kv[r.from][KeyOf(p)].clock
    BY <1>3, <1>4 DEF Handle, Response
  <2> QED
    BY <1>1, <1>4, <1>5, <2>1, OperationKept
<1> QED
  BY <1>1, <1>5, <1>7, <1>8, <1>9, <1>10

LEMMA StopInv ==
  ASSUME IndInv, NEW n \in Node, Stop(n)
  PROVE  IndInv'
<1> USE DEF IndInv
<1>1. TypeOK'
  BY DEF Stop, TypeOK
<1>2. UNCHANGED <<trace, st, stamp, result, kv, reqs, resps, cache, done, busy, acked, floor>>
  BY DEF Stop
<1>3. Grows
  BY <1>2, SameStoreGrows
<1>4. Progress
  BY <1>2 DEF Progress, Started
<1>5. Frames' /\ AbsentIsMin'
  BY <1>2 DEF Frames, ThreadOf, Top, AbsentIsMin
<1>6. Messages'
  <2>1. \A p \in Op : cache'[p] # {} => Started(p)'
    BY <1>2 DEF Messages, Started
  <2> QED
    BY <1>1, <1>2, <1>3, <1>4, <2>1, MessagesKept DEF Messages
<1>7. Acked'
  BY <1>1, <1>2, <1>3, AckedKept
<1>8. \A p \in Op : OperationOK(p)'
  BY <1>1, <1>2, <1>3, OperationKept
<1> QED
  BY <1>1, <1>5, <1>6, <1>7, <1>8

\* A thread that polls has no put of its own between send and local put.
LEMMA NoneSentWhilePolling ==
  ASSUME IndInv, NEW p \in Op, Polling(ThreadOf(p))
  PROVE  st[p] # "sent"
BY DEF IndInv, Frames, Polling

LEMMA EnterFrames ==
  ASSUME IndInv, NEW o \in Op, Polling(ThreadOf(o)), Enter(o), trace' = trace,
         \A p \in Op : st'[p] = "sent" => st[p] = "sent"
  PROVE  Frames'
<1> SUFFICES ASSUME NEW p \in Op, st'[p] = "sent"
             PROVE  busy'[ThreadOf(p)] # <<>> /\ busy'[ThreadOf(p)][Len(busy'[ThreadOf(p)])] = p
  BY DEF Frames, ThreadOf, Top
<1>1. ThreadOf(p) # ThreadOf(o)
  BY NoneSentWhilePolling
<1>2. busy'[ThreadOf(p)] = busy[ThreadOf(p)]
  BY <1>1, CommandType DEF Enter, IndInv, TypeOK
<1> QED
  BY <1>2 DEF IndInv, Frames, Top

LEMMA LeaveFrames ==
  ASSUME IndInv, NEW o \in Op, Resumed(o), Leave(o), trace' = trace,
         \A p \in Op : st'[p] = "sent" => p # o /\ st[p] = "sent"
  PROVE  Frames'
<1> SUFFICES ASSUME NEW p \in Op, st'[p] = "sent"
             PROVE  busy'[ThreadOf(p)] # <<>> /\ busy'[ThreadOf(p)][Len(busy'[ThreadOf(p)])] = p
  BY DEF Frames, ThreadOf, Top
<1>1. ThreadOf(p) # ThreadOf(o)
  BY DEF IndInv, Frames, Resumed
<1>2. busy'[ThreadOf(p)] = busy[ThreadOf(p)]
  BY <1>1, CommandType DEF Leave, IndInv, TypeOK
<1> QED
  BY <1>2 DEF IndInv, Frames, Top

LEMMA ResumeInv ==
  ASSUME IndInv, NEW o \in Op, Resume(o)
  PROVE  IndInv'
<1> USE DEF IndInv
<1>1. TypeOK'
  BY ResumeType
<1>2. /\ UNCHANGED <<trace, stamp, result, resps, cache, done, acked, floor>>
      /\ Resumed(o)
      /\ st[o] \in {"reduced", "sent"}
      /\ \A p \in Op : p # o => st'[p] = st[p]
      /\ st'[o] \in Sent
  BY DEF Resume, SendPutReplica, LocalPut, WriteBackAndReturn, TypeOK, Sent
<1>3. OperationOK(o) /\ Started(o) /\ st[o] \in Stamped
  BY <1>2 DEF Started, Stamped
<1>4. /\ Home(o) \in Node /\ KeyOf(o) \in Key
      /\ stamp[o] \in Clock /\ result[o] \in Value /\ result[o] # NoValue
  BY <1>2, <1>3, Typed, CommandType DEF OperationOK, TypeOK
<1>5. Progress
  BY <1>2 DEF Progress, Started, Sent
<1>6. /\ Grows
      /\ AbsentIsMin'
      /\ LocalPut(o) => Leq(stamp[o], kv'[Home(o)][KeyOf(o)].clock)
  <2>1. CASE LocalPut(o)
    <3>1. kv' = [kv EXCEPT ![Home(o)][KeyOf(o)] = Put(@, stamp[o], result[o])]
      BY <2>1 DEF LocalPut
    <3> QED
      BY <1>1, <1>4, <3>1, PutStep
  <2>2. CASE ~LocalPut(o)
    <3>1. kv' = kv
      BY <2>2 DEF Resume, SendPutReplica, WriteBackAndReturn
    <3> QED
      BY <2>2, <3>1, SameStoreGrows DEF AbsentIsMin
  <2> QED
    BY <2>1, <2>2
<1>7. Frames'
  <2>1. CASE SendPutReplica(o)
    BY <1>2, <2>1 DEF SendPutReplica, Resumed, Frames, ThreadOf, Top
  <2>2. CASE LocalPut(o) \/ WriteBackAndReturn(o)
    <3>1. Leave(o) /\ st'[o] # "sent"
      BY <2>2 DEF LocalPut, WriteBackAndReturn, TypeOK
    <3> QED
      BY <1>2, <3>1, LeaveFrames
  <2> QED
    BY <2>1, <2>2 DEF Resume
<1>8. Messages'
  <2>1. \A m \in reqs' : m \in reqs \/ (m \in Requests(o, "update", stamp[o], result[o]) /\ ~LocalPut(o))
    BY DEF Resume, SendPutReplica, LocalPut, WriteBackAndReturn
  <2>2. ASSUME NEW m \in Requests(o, "update", stamp[o], result[o])
        PROVE  RequestOK(m)'
    BY <1>2, <1>4 DEF Requests, RequestOK, Started, Replicas, Home, KeyOf, Sent
  <2>3. \A p \in Op : cache'[p] # {} => Started(p)'
    BY <1>2, <1>5 DEF Messages, Started, Progress
  <2> QED
    BY <1>1, <1>2, <1>5, <1>6, <2>1, <2>2, <2>3, MessagesKept DEF Messages
<1>9. Acked'
  BY <1>1, <1>2, <1>6, AckedKept
<1>10. ASSUME NEW p \in Op, p # o
       PROVE  OperationOK(p)'
  BY <1>1, <1>2, <1>6, <1>10, OperationKept
<1>11. OperationOK(o)'
  <2>1. \E a, b \in Group[KeyOf(o)] : Witnesses(o, a, b)'
    BY <1>1, <1>2, <1>3, <1>6, WitnessesKept
  <2>2. Home(o)' = Home(o) /\ KeyOf(o)' = KeyOf(o)
    BY <1>2 DEF Home, KeyOf
  <2>3. CASE SendPutReplica(o)
    <3>1. st'[o] = "sent" /\ trace[o].kind = "put"
      BY <2>3 DEF SendPutReplica, TypeOK
    <3> QED
      BY <1>2, <1>3, <2>1, <2>2, <3>1 DEF OperationOK, Stamped
  <2>4. CASE LocalPut(o)
    <3>1. st'[o] = "update" /\ st[o] = "sent"
      BY <2>4 DEF LocalPut, TypeOK
    <3>2. (HasClock(Home(o), KeyOf(o), stamp[o]))'
      BY <1>2, <1>6, <2>4, <2>2 DEF HasClock
    <3> QED
      BY <1>2, <1>3, <2>1, <2>2, <3>1, <3>2 DEF OperationOK, Stamped
  <2>5. CASE WriteBackAndReturn(o)
    <3>1. st'[o] = "ret" /\ st[o] = "reduced" /\ trace[o].kind = "get"
      BY <2>5 DEF WriteBackAndReturn, TypeOK
    <3> QED
      BY <1>2, <1>3, <2>1, <2>2, <3>1 DEF OperationOK, Stamped
  <2> QED
    BY <2>3, <2>4, <2>5 DEF Resume
<1> QED
  BY <1>1, <1>6, <1>7, <1>8, <1>9, <1>10, <1>11

\* The quorum of a query meets the witnesses: of any two pairs among the three
\* machines of a group one is in both.
LEMMA QuorumReachesFloor ==
  ASSUME IndInv, NEW m \in resps, m.round = "query"
  PROVE  \/ Leq(floor[m.op], kv[Home(m.op)][KeyOf(m.op)].clock)
         \/ Leq(floor[m.op], m.clock)
<1> DEFINE o == m.op
           k == KeyOf(o)
<1>1. o \in Op /\ k \in Key /\ ResponseOK(m)
  BY Typed, CommandType DEF IndInv, Messages
<1>2. Started(o) /\ m.from \in Group[k] /\ m.from # Home(o)
  BY <1>1, CommandType DEF ResponseOK, IndInv
<1>3. PICK a \in Group[k], b \in Group[k] : Witnesses(o, a, b)
  BY <1>1, <1>2 DEF IndInv, OperationOK
<1>4. Home(o) \in Group[k]
  BY <1>1, <1>2 DEF IndInv, OperationOK
<1>5. a # b
  BY <1>3 DEF Witnesses
<1>6. Home(o) \in {a, b} \/ m.from \in {a, b}
  BY <1>1, <1>2, <1>4, <1>5, GroupAssumption
<1>7. Home(o) \in {a, b} => Leq(floor[o], kv[Home(o)][k].clock)
  BY <1>3 DEF Witnesses, HasClock
<1>8. m.from \in {a, b} => Leq(floor[o], m.clock)
  BY <1>3 DEF Witnesses
<1> QED
  BY <1>6, <1>7, <1>8

\* The first answer to a query finds its operation waiting for it.
LEMMA FirstAnswer ==
  ASSUME IndInv, NEW m \in resps, m.round = "query", Through(m)
  PROVE  m.op \in Op /\ st[m.op] = "query" /\ Started(m.op)
<1>1. m.op \in Op /\ ResponseOK(m)
  BY Typed DEF IndInv, Messages
<1>2. Started(m.op)
  BY <1>1 DEF ResponseOK
<1>3. st[m.op] \notin Stamped
  BY <1>1 DEF Through, IndInv, OperationOK
<1> QED
  BY <1>1, <1>2, <1>3 DEF Started, Stamped, IndInv, TypeOK, Status

\* What every continuation has in common: it takes a response of its own
\* operation off the network and may put it into that operation's cache.
LEMMA ContinuationCommon ==
  ASSUME IndInv, NEW m \in resps, Continuation(m)
  PROVE  /\ m.op \in Op
         /\ Polling(ThreadOf(m.op))
         /\ UNCHANGED <<trace, kv, reqs, floor>>
         /\ resps' \subseteq resps
         /\ \A p \in Op : p # m.op => /\ st'[p] = st[p] /\ stamp'[p] = stamp[p]
                                      /\ result'[p] = result[p]
         /\ \A p \in Op : done[p]["query"] => done'[p]["query"]
         /\ \A p \in Op : cache'[p] # {} => cache[p] # {} \/ p = m.op
         /\ \A p \in Op : \A r \in resps' \cup cache'[p] : r \in resps \cup cache[p]
<1>1. m.op \in Op /\ m.round \in Round
  BY Typed DEF IndInv
<1>2. Receive(m)
  BY DEF Continuation, TooEarlyOrLate, GetTime, AckPutTime, RetValue,
         RetGetPutUpdate, Complete
<1>3. UNCHANGED <<trace, kv, reqs, floor>>
  BY DEF Continuation, TooEarlyOrLate, GetTime, AckPutTime, RetValue, RetGetPutUpdate
<1>4. \A p \in Op : p # m.op => /\ st'[p] = st[p] /\ stamp'[p] = stamp[p]
                                /\ result'[p] = result[p]
  BY <1>1 DEF Continuation, TooEarlyOrLate, GetTime, AckPutTime, RetValue,
              RetGetPutUpdate, IndInv, TypeOK
<1>5. \/ Complete(m)
      \/ /\ done' = done
         /\ cache' = cache \/ cache' = [cache EXCEPT ![m.op] = Cached(m)]
  BY DEF Continuation, TooEarlyOrLate, GetTime, AckPutTime, RetValue, RetGetPutUpdate
<1>6. /\ \A p \in Op : done[p]["query"] => done'[p]["query"]
      /\ \A p \in Op : cache'[p] \subseteq cache[p] \cup {m}
      /\ \A p \in Op : cache'[p] # {} => cache[p] # {} \/ p = m.op
  <2>1. CASE Complete(m)
    <3>1. ASSUME NEW p \in Op
          PROVE  done'[p]["query"] = TRUE \/ done'[p]["query"] = done[p]["query"]
      BY <1>1, <2>1 DEF Complete, IndInv, TypeOK, Round
    <3>2. \A p \in Op : cache'[p] = {} \/ cache'[p] = cache[p]
      BY <1>1, <2>1 DEF Complete, IndInv, TypeOK
    <3> QED
      BY <3>1, <3>2
  <2>2. CASE done' = done /\ cache' = cache
    BY <2>2
  <2>3. CASE done' = done /\ cache' = [cache EXCEPT ![m.op] = Cached(m)]
    BY <1>1, <2>3 DEF Cached, IndInv, TypeOK
  <2> QED
    BY <1>5, <2>1, <2>2, <2>3
<1> QED
  BY <1>1, <1>2, <1>3, <1>4, <1>6 DEF Receive

\* A continuation preserves the invariant if it does so for its own operation,
\* for the stack of its thread and for the newest put returned.
LEMMA ContinuationFrame ==
  ASSUME IndInv, NEW m \in resps, Continuation(m), Progress,
         Frames', Acked', OperationOK(m.op)'
  PROVE  IndInv'
<1> USE DEF IndInv
<1>1. TypeOK'
  BY ContinuationType
<1>2. /\ m.op \in Op
      /\ UNCHANGED <<trace, kv, reqs, floor>>
      /\ resps' \subseteq resps
      /\ \A p \in Op : p # m.op => /\ st'[p] = st[p] /\ stamp'[p] = stamp[p]
                                   /\ result'[p] = result[p]
      /\ \A p \in Op : done[p]["query"] => done'[p]["query"]
      /\ \A p \in Op : cache'[p] # {} => cache[p] # {} \/ p = m.op
      /\ \A p \in Op : \A r \in resps' \cup cache'[p] : r \in resps \cup cache[p]
  BY ContinuationCommon
<1>3. Grows /\ AbsentIsMin'
  BY <1>2, SameStoreGrows DEF AbsentIsMin
<1>4. Messages'
  <2>1. \A p \in Op : cache'[p] # {} => Started(p)'
    BY <1>2 DEF Messages, ResponseOK, Started, Progress
  <2> QED
    BY <1>1, <1>2, <1>3, <2>1, MessagesKept DEF Messages
<1>5. ASSUME NEW p \in Op, p # m.op
      PROVE  OperationOK(p)'
  BY <1>1, <1>2, <1>3, <1>5, OperationKept
<1> QED
  BY <1>1, <1>3, <1>4, <1>5

\* The witnesses of the operation a continuation belongs to.
LEMMA ContinuationWitnesses ==
  ASSUME IndInv, NEW m \in resps, Continuation(m)
  PROVE  /\ Started(m.op)
         /\ Home(m.op) \in Group[KeyOf(m.op)]
         /\ \E a, b \in Group[KeyOf(m.op)] : Witnesses(m.op, a, b)'
         /\ Home(m.op)' = Home(m.op) /\ KeyOf(m.op)' = KeyOf(m.op)
<1>1. /\ m.op \in Op
      /\ UNCHANGED <<trace, kv, reqs, floor>>
      /\ \A r \in resps' \cup cache'[m.op] : r \in resps \cup cache[m.op]
  BY ContinuationCommon
<1>2. Started(m.op)
  BY DEF IndInv, Messages, ResponseOK
<1>3. TypeOK' /\ Grows
  BY <1>1, ContinuationType, SameStoreGrows DEF IndInv
<1>4. \E a, b \in Group[KeyOf(m.op)] : Witnesses(m.op, a, b)'
  BY <1>1, <1>2, <1>3, WitnessesKept
<1>5. Home(m.op) \in Group[KeyOf(m.op)]
  BY <1>1, <1>2 DEF IndInv, OperationOK
<1> QED
  BY <1>1, <1>2, <1>4, <1>5 DEF Home, KeyOf

LEMMA GetTimeInv ==
  ASSUME IndInv, NEW m \in resps, GetTime(m)
  PROVE  IndInv'
<1> DEFINE o == m.op
<1> USE DEF IndInv
<1>1. Continuation(m)
  BY DEF Continuation
<1>2. /\ m.round = "query" /\ trace[o].kind = "put" /\ Through(m)
      /\ Enter(o) /\ acked' = acked /\ trace' = trace /\ kv' = kv /\ floor' = floor
  BY DEF GetTime, Complete
<1>3. o \in Op /\ st[o] = "query"
  BY <1>2, FirstAnswer
<1>4. st'[o] = "reduced" /\ result'[o] = o /\ done'[o]["query"]
  BY <1>2, <1>3 DEF GetTime, Complete, TypeOK, Round
<1>5. \A p \in Op : p # o => st'[p] = st[p] /\ stamp'[p] = stamp[p]
  BY <1>1, ContinuationCommon
<1>6. Progress
  BY <1>3, <1>4, <1>5 DEF Progress, Started, Sent
<1>7. Frames'
  <2>1. Polling(ThreadOf(o))
    BY <1>1, ContinuationCommon
  <2> QED
    BY <1>2, <1>3, <1>4, <1>5, <2>1, EnterFrames
<1>8. Acked'
  BY <1>1, <1>2, ContinuationType, SameStoreGrows, AckedKept
<1>9. stamp'[o].count = 0 \/ Less(floor[o], stamp'[o])
  <2>1. PICK max \in Counts(o, Cached(m)) :
           /\ \A c \in Counts(o, Cached(m)) : c =< max
           /\ stamp' = [stamp EXCEPT ![o] = Stamp(max, MId[Home(o)])]
    BY DEF GetTime
  <2>2. max \in Count /\ MId[Home(o)] \in MachineId
    BY <1>3, <2>1, CountsType, CommandType, NodeAssumption
  <2>3. /\ kv[Home(o)][KeyOf(o)].clock.count =< max
        /\ m.clock.count =< max
    BY <2>1 DEF Counts, Cached
  <2>4. /\ floor[o] \in Clock /\ m.clock \in Clock
        /\ kv[Home(o)][KeyOf(o)].clock \in Clock
    BY <1>3, Typed, CommandType
  <2>5. floor[o].count =< max
    <3>1. \/ floor[o].count =< kv[Home(o)][KeyOf(o)].clock.count
          \/ floor[o].count =< m.clock.count
      BY <1>2, <2>4, QuorumReachesFloor, LeqCount
    <3>2. /\ floor[o].count \in Int /\ m.clock.count \in Int /\ max \in Int
          /\ kv[Home(o)][KeyOf(o)].clock.count \in Int
      BY <2>2, <2>4 DEF Clock, Count
    <3> HIDE DEF o
    <3> QED
      BY <2>3, <3>1, <3>2
  <2>6. \/ Stamp(max, MId[Home(o)]).count = 0
        \/ Less(floor[o], Stamp(max, MId[Home(o)]))
    BY <2>2, <2>4, <2>5, StampAfter
  <2>7. stamp'[o] = Stamp(max, MId[Home(o)])
    BY <1>3, <2>1 DEF TypeOK
  <2> QED
    BY <2>6, <2>7
<1>10. OperationOK(o)'
  <2>1. result'[o] # NoValue
    BY <1>3, <1>4, OpAssumption
  <2> QED
    BY <1>1, <1>2, <1>4, <1>9, <2>1, ContinuationWitnesses DEF OperationOK, Stamped
<1> QED
  BY <1>1, <1>6, <1>7, <1>8, <1>10, ContinuationFrame

LEMMA RetValueInv ==
  ASSUME IndInv, NEW m \in resps, RetValue(m)
  PROVE  IndInv'
<1> DEFINE o == m.op
           local == kv[Home(o)][KeyOf(o)]
<1> USE DEF IndInv
<1>1. Continuation(m)
  BY DEF Continuation
<1>2. /\ m.round = "query" /\ trace[o].kind = "get" /\ Through(m)
      /\ acked' = acked /\ trace' = trace /\ kv' = kv /\ floor' = floor
  BY DEF RetValue, Complete
<1>3. o \in Op /\ st[o] = "query"
  BY <1>2, FirstAnswer
<1>4. PICK chosen \in Chosen(local, Cached(m)) :
        /\ stamp' = [stamp EXCEPT ![o] = chosen.clock]
        /\ result' = [result EXCEPT ![o] = chosen.val]
        /\ \/ /\ st' = [st EXCEPT ![o] = "ret"]
              /\ UNCHANGED busy
           \/ /\ st' = [st EXCEPT ![o] = "reduced"]
              /\ chosen.val # NoValue
              /\ Enter(o)
  BY DEF RetValue
<1>5. /\ stamp'[o] = chosen.clock /\ result'[o] = chosen.val
      /\ st'[o] = "ret" \/ (st'[o] = "reduced" /\ chosen.val # NoValue)
  BY <1>3, <1>4 DEF TypeOK
<1>6. done'[o]["query"]
  BY <1>2, <1>3 DEF RetValue, Complete, TypeOK, Round
<1>7. \A p \in Op : p # o => st'[p] = st[p] /\ stamp'[p] = stamp[p]
  BY <1>1, ContinuationCommon
<1>8. Progress
  BY <1>2, <1>3, <1>5, <1>7 DEF Progress, Started, Sent
<1>9. Frames'
  <2>1. \A p \in Op : st'[p] = "sent" => st[p] = "sent"
    BY <1>5, <1>7
  <2>2. CASE UNCHANGED busy
    BY <1>2, <2>1, <2>2 DEF Frames, ThreadOf, Top
  <2>3. CASE Enter(o)
    BY <1>1, <1>2, <1>3, <2>1, <2>3, ContinuationCommon, EnterFrames
  <2> QED
    BY <1>4, <2>2, <2>3
<1>10. Acked'
  BY <1>1, <1>2, ContinuationType, SameStoreGrows, AckedKept
<1>11. Leq(floor[o], stamp'[o])
  <2>1. Leq(local.clock, chosen.clock) /\ Leq(m.clock, chosen.clock)
    <3>1. local \in Candidates(local, Cached(m))
      BY DEF Candidates
    <3>2. [clock |-> m.clock, val |-> KeyBytes] \in Candidates(local, Cached(m))
      BY DEF Candidates, Cached
    <3>3. \A d \in Candidates(local, Cached(m)) : Leq(d.clock, chosen.clock)
      BY <1>4 DEF Chosen
    <3> QED
      BY <3>1, <3>2, <3>3
  <2>2. /\ floor[o] \in Clock /\ m.clock \in Clock /\ local.clock \in Clock
        /\ chosen.clock \in Clock
    BY <1>3, <1>4, Typed, CommandType, ChosenType DEF Entry
  <2> QED
    BY <1>2, <1>5, <2>1, <2>2, QuorumReachesFloor, LeqTrans
<1>12. OperationOK(o)'
  BY <1>1, <1>2, <1>5, <1>6, <1>11, ContinuationWitnesses DEF OperationOK, Stamped
<1> QED
  BY <1>1, <1>8, <1>9, <1>10, <1>12, ContinuationFrame

LEMMA AckPutTimeInv ==
  ASSUME IndInv, NEW m \in resps, AckPutTime(m)
  PROVE  IndInv'
<1> DEFINE o == m.op
           k == KeyOf(o)
<1> USE DEF IndInv
<1>1. Continuation(m)
  BY DEF Continuation
<1>2. /\ m.round = "update" /\ trace[o].kind = "put"
      /\ UNCHANGED <<trace, stamp, result, kv, busy, floor>>
      /\ acked' = [acked EXCEPT ![k] = Later(@, stamp[o])]
  BY DEF AckPutTime
<1>3. o \in Op /\ k \in Key /\ Polling(ThreadOf(o)) /\ OperationOK(o)
  BY <1>1, ContinuationCommon, CommandType
<1>4. ResponseOK(m)
  BY DEF Messages
<1>5. st[o] \in {"update", "ret"}
  BY <1>2, <1>3, <1>4, NoneSentWhilePolling DEF ResponseOK, Sent
<1>6. st'[o] = "ret" /\ \A p \in Op : p # o => st'[p] = st[p]
  BY <1>3 DEF AckPutTime, TypeOK
<1>7. done[o]["query"] /\ done'[o]["query"]
  BY <1>1, <1>3, <1>5, ContinuationCommon DEF OperationOK, Stamped
<1>8. HeldByMajority(k, stamp[o])
  <2>1. HasClock(m.from, k, stamp[o]) /\ HasClock(Home(o), k, stamp[o])
    BY <1>2, <1>3, <1>4, <1>5 DEF ResponseOK, OperationOK
  <2>2. m.from \in Group[k] /\ Home(o) \in Group[k] /\ m.from # Home(o)
    BY <1>1, <1>3, <1>4, CommandType, ContinuationWitnesses DEF ResponseOK
  <2> QED
    BY <2>1, <2>2 DEF HeldByMajority
<1>9. Progress
  BY <1>2, <1>5, <1>6 DEF Progress, Started, Sent
<1>10. Frames'
  BY <1>2, <1>6 DEF Frames, ThreadOf, Top
<1>11. Acked'
  <2>1. Later(acked[k], stamp[o]) \in {acked[k], stamp[o]}
    BY <1>3, Typed, LaterBound
  <2>2. HeldByMajority(k, acked'[k])
    BY <1>2, <1>3, <1>8, <2>1 DEF Acked, TypeOK
  <2>3. \A l \in Key : l # k => acked'[l] = acked[l]
    BY <1>2 DEF TypeOK
  <2>4. \A l \in Key : HeldByMajority(l, acked'[l])
    BY <2>2, <2>3 DEF Acked
  <2> QED
    BY <1>2, <2>4 DEF Acked, HeldByMajority, HasClock
<1>12. OperationOK(o)'
  <2>1. (HeldByMajority(KeyOf(o), stamp[o]))' /\ (HasClock(Home(o), KeyOf(o), stamp[o]))'
    BY <1>2, <1>3, <1>5, <1>8 DEF OperationOK, HeldByMajority, HasClock, KeyOf, Home
  <2> QED
    BY <1>1, <1>2, <1>3, <1>5, <1>6, <1>7, <2>1, ContinuationWitnesses
       DEF OperationOK, Stamped
<1> QED
  BY <1>1, <1>9, <1>10, <1>11, <1>12, ContinuationFrame

\* The continuations that only count a response.
LEMMA CountingInv ==
  ASSUME IndInv, NEW m \in resps, TooEarlyOrLate(m) \/ RetGetPutUpdate(m)
  PROVE  IndInv'
<1> USE DEF IndInv
<1>1. Continuation(m)
  BY DEF Continuation
<1>2. UNCHANGED <<trace, st, stamp, result, kv, busy, acked, floor>>
  BY DEF TooEarlyOrLate, RetGetPutUpdate
<1>3. /\ m.op \in Op
      /\ \A p \in Op : done[p]["query"] => done'[p]["query"]
      /\ \A p \in Op : \A r \in resps' \cup cache'[p] : r \in resps \cup cache[p]
  BY <1>1, ContinuationCommon
<1>4. Progress /\ Frames'
  BY <1>2 DEF Progress, Started, Sent, Frames, ThreadOf, Top
<1>5. TypeOK' /\ Grows
  BY <1>1, <1>2, ContinuationType, SameStoreGrows
<1>6. Acked'
  BY <1>2, <1>5, AckedKept
<1>7. OperationOK(m.op)'
  BY <1>2, <1>3, <1>5, OperationKept
<1> QED
  BY <1>1, <1>4, <1>6, <1>7, ContinuationFrame

LEMMA InitInv == Init => IndInv
<1> SUFFICES ASSUME Init PROVE IndInv
  OBVIOUS
<1>1. TypeOK
  BY InitType
<1>2. Frames /\ Messages /\ \A o \in Op : OperationOK(o)
  BY DEF Init, Frames, Messages, OperationOK, Started, Stamped
<1>3. AbsentIsMin
  BY DEF Init, AbsentIsMin, Absent
<1>4. Acked
  <2> SUFFICES ASSUME NEW k \in Key
               PROVE  HeldByMajority(k, MinClock)
    BY DEF Init, Acked
  <2>1. PICK a, b, c \in Node : a # b /\ Group[k] = {a, b, c}
    BY GroupAssumption
  <2>2. HasClock(a, k, MinClock) /\ HasClock(b, k, MinClock)
    BY <1>1, <2>1, Typed, MinLeq DEF HasClock
  <2> QED
    BY <2>1, <2>2 DEF HeldByMajority
<1> QED
  BY <1>1, <1>2, <1>3, <1>4 DEF IndInv

LEMMA StutterInv ==
  ASSUME IndInv, UNCHANGED vars
  PROVE  IndInv'
<1> USE DEF IndInv
<1>1. UNCHANGED <<trace, st, stamp, result, kv, reqs, resps, cache, done, busy, acked, floor>>
  BY DEF vars
<1>2. TypeOK'
  BY DEF vars, TypeOK
<1>3. Grows
  BY <1>1, SameStoreGrows
<1>4. Progress
  BY <1>1 DEF Progress, Started
<1>5. Frames' /\ AbsentIsMin'
  BY <1>1 DEF Frames, ThreadOf, Top, AbsentIsMin
<1>6. Messages'
  <2>1. \A p \in Op : cache'[p] # {} => Started(p)'
    BY <1>1 DEF Messages, Started
  <2> QED
    BY <1>1, <1>2, <1>3, <1>4, <2>1, MessagesKept DEF Messages
<1>7. Acked'
  BY <1>1, <1>2, <1>3, AckedKept
<1>8. \A p \in Op : OperationOK(p)'
  BY <1>1, <1>2, <1>3, OperationKept
<1> QED
  BY <1>2, <1>5, <1>6, <1>7, <1>8

LEMMA NextInv == IndInv /\ [Next]_vars => IndInv'
<1> SUFFICES ASSUME IndInv, [Next]_vars PROVE IndInv'
  OBVIOUS
<1>1. CASE UNCHANGED vars
  BY <1>1, StutterInv
<1>2. CASE \E o \in Op : Start(o) \/ Resume(o)
  BY <1>2, StartInv, ResumeInv
<1>3. CASE \E m \in reqs : Handler(m)
  BY <1>3, HandlerInv
<1>4. CASE \E m \in resps : Continuation(m)
  BY <1>4, GetTimeInv, AckPutTimeInv, RetValueInv, CountingInv DEF Continuation
<1>5. CASE \E n \in Node : Stop(n)
  BY <1>5, StopInv
<1> QED
  BY <1>1, <1>2, <1>3, <1>4, <1>5 DEF Next

LEMMA Invariance == Spec => []IndInv
<1>1. Init => IndInv
  BY InitInv
<1>2. IndInv /\ [Next]_vars => IndInv'
  BY NextInv
<1> QED
  BY <1>1, <1>2, PTL DEF Spec

\* A put that AckPutTime returned (protocol.h:489-498) is held or superseded by
\* two of the three machines of its group, whatever the threads, the nesting of
\* event loops, the order of messages, the machines that stop and the wrap of
\* counters.
THEOREM AckedPutsAreOnAMajority == Spec => []AckedOnMajority
<1>1. IndInv => AckedOnMajority
  BY DEF IndInv, OperationOK, AckedOnMajority
<1> QED
  BY <1>1, Invariance, PTL

\* Stamps and returned clocks respect the real-time order of operations: GetTime
\* (protocol.h:447-486) stamps a put above every put that returned before it
\* started unless the counter wrapped, and RetValue (protocol.h:501-564) returns
\* the clock of no older put.
THEOREM StampsRespectRealTime == Spec => []RealTimeOrder
<1>1. IndInv => RealTimeOrder
  BY DEF IndInv, OperationOK, RealTimeOrder, Stamped
<1> QED
  BY <1>1, Invariance, PTL

----------------------------------------------------------------------------
(* The origin of clocks.                                                   *)

\* The keys, clocks and values that others may see: those of absent entries,
\* and those of the puts that have sent PutReplica, whose value a write-back
\* may have replaced by the key bytes.
Written ==
  {x \in Key \X Clock \X Value :
     \/ x[2] = MinClock /\ x[3] = NoValue
     \/ \E p \in Op : /\ trace[p].kind = "put" /\ st[p] \in Sent
                      /\ x[1] = KeyOf(p) /\ x[2] = stamp[p]
                      /\ x[3] \in {result[p], KeyBytes}}

StoreOrigin ==
  \A n \in Node, k \in Key : <<k, kv[n][k].clock, kv[n][k].val>> \in Written

UpdateOrigin ==
  \A m \in reqs : m.round = "update" => <<KeyOf(m.op), m.clock, m.val>> \in Written

\* The answer to a get's query.
ReadAnswer(m) ==
  m.round = "query" /\ trace[m.op].kind = "get" =>
    <<KeyOf(m.op), m.clock, m.val>> \in Written

AnswerOrigin ==
  /\ \A m \in resps : ReadAnswer(m)
  /\ \A o \in Op : \A m \in cache[o] : m.op = o /\ m.round = "query" /\ ReadAnswer(m)

\* What a get is about to write back.
ReadOrigin ==
  \A o \in Op : trace[o].kind = "get" /\ st[o] = "reduced" =>
    <<KeyOf(o), stamp[o], result[o]>> \in Written

\* A put that returned has raised the flag of its second context.
ReturnedOnce ==
  \A o \in Op : trace[o].kind = "put" /\ st[o] = "ret" => done[o]["update"]

OriginInv == /\ StoreOrigin
             /\ UpdateOrigin
             /\ AnswerOrigin
             /\ ReadOrigin
             /\ ReturnedOnce

\* A put that was sent stays what it is.
PutsKept ==
  \A o \in Op : trace[o].kind = "put" /\ st[o] \in Sent =>
    st'[o] \in Sent /\ stamp'[o] = stamp[o] /\ result'[o] = result[o]

LEMMA WrittenKept ==
  ASSUME trace' = trace, PutsKept
  PROVE  Written \subseteq Written'
BY DEF Written, PutsKept, KeyOf

\* A put of a written triple keeps the stores' entries written.
LEMMA StoreOriginPut ==
  ASSUME TypeOK, StoreOrigin, Written \subseteq Written',
         NEW n \in Node, NEW k \in Key, NEW c, NEW v, <<k, c, v>> \in Written',
         kv' = [kv EXCEPT ![n][k] = Put(@, c, v)]
  PROVE  StoreOrigin'
<1>1. /\ kv'[n][k] = Put(kv[n][k], c, v)
      /\ \A j \in Node, l \in Key : j # n \/ l # k => kv'[j][l] = kv[j][l]
  BY DEF TypeOK
<1>2. \/ kv'[n][k] = kv[n][k]
      \/ kv'[n][k].clock = c /\ kv'[n][k].val = v
  BY <1>1 DEF Put
<1> QED
  BY <1>1, <1>2 DEF StoreOrigin

\* The parts a step disturbs only by moving operations on.
LEMMA OriginsKept ==
  ASSUME OriginInv, trace' = trace, Written \subseteq Written'
  PROVE  /\ kv' = kv => StoreOrigin'
         /\ reqs' \subseteq reqs => UpdateOrigin'
         /\ \A m \in resps : ReadAnswer(m)'
         /\ \A o \in Op : \A m \in cache[o] : m.op = o /\ m.round = "query" /\ ReadAnswer(m)'
<1>1. kv' = kv => StoreOrigin'
  BY DEF OriginInv, StoreOrigin
<1>2. reqs' \subseteq reqs => UpdateOrigin'
  BY DEF OriginInv, UpdateOrigin, KeyOf
<1>3. \A m : ReadAnswer(m) => ReadAnswer(m)'
  BY DEF ReadAnswer, KeyOf
<1> QED
  BY <1>1, <1>2, <1>3 DEF OriginInv, AnswerOrigin

----------------------------------------------------------------------------
(* One lemma per kind of step.                                             *)

LEMMA StartOrigin ==
  ASSUME IndInv, OriginInv, NEW o \in Op, Start(o)
  PROVE  OriginInv'
<1>1. /\ UNCHANGED <<trace, stamp, result, kv, resps, cache, done>>
      /\ reqs' = reqs \cup Requests(o, "query", MinClock, NoValue)
      /\ st[o] = "new" /\ st'[o] \in {"skip", "query"}
      /\ \A p \in Op : p # o => st'[p] = st[p]
  BY DEF Start, Benchmark, ClientCall, SendQuery, IndInv, TypeOK
<1>2. Written \subseteq Written'
  BY <1>1, WrittenKept DEF PutsKept, Sent
<1>3. StoreOrigin' /\ AnswerOrigin'
  BY <1>1, <1>2, OriginsKept DEF AnswerOrigin
<1>4. UpdateOrigin'
  <2>1. \A m \in reqs' : m.round = "update" => m \in reqs
    BY <1>1 DEF Requests
  <2> QED
    BY <1>1, <1>2, <2>1 DEF OriginInv, UpdateOrigin, KeyOf
<1>5. ReadOrigin' /\ ReturnedOnce'
  BY <1>1, <1>2 DEF OriginInv, ReadOrigin, ReturnedOnce, KeyOf
<1> QED
  BY <1>3, <1>4, <1>5 DEF OriginInv

LEMMA HandlerOrigin ==
  ASSUME IndInv, OriginInv, NEW m \in reqs, Handler(m)
  PROVE  OriginInv'
<1>1. /\ m.op \in Op /\ m.to \in Node /\ m.round \in Round /\ KeyOf(m.op) \in Key
  BY Typed, CommandType DEF IndInv
<1>2. PICK c, v :
        /\ Handle(m, c, v)
        /\ m.round = "query" /\ trace[m.op].kind = "get" =>
             c = kv[m.to][KeyOf(m.op)].clock /\ v = kv[m.to][KeyOf(m.op)].val
  BY DEF Handler, GetTimeStamp, GetValueTimeStamp, PutReplica
<1>3. /\ UNCHANGED <<trace, st, stamp, result, cache, done>>
      /\ reqs' \subseteq reqs
      /\ resps' = resps \cup {Response(m, c, v)}
  BY <1>2 DEF Handle
<1>4. Written \subseteq Written'
  BY <1>3, WrittenKept DEF PutsKept
<1>5. StoreOrigin'
  <2>1. CASE m.round = "query"
    <3>1. kv' = kv
      BY <2>1 DEF Handler, GetTimeStamp, GetValueTimeStamp, PutReplica
    <3> QED
      BY <1>3, <1>4, <3>1, OriginsKept
  <2>2. CASE m.round = "update"
    <3>1. kv' = [kv EXCEPT ![m.to][KeyOf(m.op)] = Put(@, m.clock, m.val)]
      BY <2>2 DEF Handler, GetTimeStamp, GetValueTimeStamp, PutReplica
    <3>2. <<KeyOf(m.op), m.clock, m.val>> \in Written'
      BY <1>4, <2>2 DEF OriginInv, UpdateOrigin
    <3> QED
      BY <1>1, <1>4, <3>1, <3>2, StoreOriginPut DEF IndInv, OriginInv
  <2> QED
    BY <1>1, <2>1, <2>2 DEF Round
<1>6. AnswerOrigin'
  <2>1. ReadAnswer(Response(m, c, v))'
    BY <1>1, <1>2, <1>3, <1>4 DEF ReadAnswer, Response, OriginInv, StoreOrigin, KeyOf
  <2> QED
    BY <1>3, <1>4, <2>1, OriginsKept DEF AnswerOrigin
<1>7. UpdateOrigin'
  BY <1>3, <1>4, OriginsKept
<1>8. ReadOrigin' /\ ReturnedOnce'
  BY <1>3, <1>4 DEF OriginInv, ReadOrigin, ReturnedOnce, KeyOf
<1> QED
  BY <1>5, <1>6, <1>7, <1>8 DEF OriginInv

LEMMA ResumeOrigin ==
  ASSUME IndInv, OriginInv, NEW o \in Op, Resume(o)
  PROVE  OriginInv'
<1>1. /\ UNCHANGED <<trace, stamp, result, resps, cache, done>>
      /\ st[o] \in {"reduced", "sent"} /\ st'[o] \in Sent
      /\ \A p \in Op : p # o => st'[p] = st[p]
  BY DEF Resume, SendPutReplica, LocalPut, WriteBackAndReturn, IndInv, TypeOK, Sent
<1>2. /\ Home(o) \in Node /\ KeyOf(o) \in Key /\ stamp[o] \in Clock /\ result[o] \in Value
  BY Typed, CommandType DEF IndInv, TypeOK
<1>3. Written \subseteq Written'
  BY <1>1, WrittenKept DEF PutsKept
<1>4. st[o] = "sent" => trace[o].kind = "put"
  BY DEF IndInv, OperationOK
<1>5. <<KeyOf(o), stamp[o], result[o]>> \in Written'
  <2>1. CASE trace[o].kind = "put"
    BY <1>1, <1>2, <2>1 DEF Written, KeyOf
  <2>2. CASE trace[o].kind = "get"
    BY <1>1, <1>3, <1>4, <2>2 DEF OriginInv, ReadOrigin
  <2> QED
    BY <2>1, <2>2, CommandType DEF IndInv
<1>6. StoreOrigin'
  <2>1. CASE LocalPut(o)
    <3>1. kv' = [kv EXCEPT ![Home(o)][KeyOf(o)] = Put(@, stamp[o], result[o])]
      BY <2>1 DEF LocalPut
    <3> QED
      BY <1>2, <1>3, <1>5, <3>1, StoreOriginPut DEF IndInv, OriginInv
  <2>2. CASE ~LocalPut(o)
    <3>1. kv' = kv
      BY <2>2 DEF Resume, SendPutReplica, WriteBackAndReturn
    <3> QED
      BY <1>1, <1>3, <3>1, OriginsKept
  <2> QED
    BY <2>1, <2>2
<1>7. UpdateOrigin'
  <2>1. \A m \in reqs' : m \in reqs \/ m \in Requests(o, "update", stamp[o], result[o])
    BY DEF Resume, SendPutReplica, LocalPut, WriteBackAndReturn
  <2>2. \A m \in Requests(o, "update", stamp[o], result[o]) :
          m.op = o /\ m.clock = stamp[o] /\ m.val = result[o]
    BY DEF Requests
  <2> QED
    BY <1>1, <1>3, <1>5, <2>1, <2>2 DEF OriginInv, UpdateOrigin, KeyOf
<1>8. AnswerOrigin'
  BY <1>1, <1>3, OriginsKept DEF AnswerOrigin
<1>9. ReadOrigin'
  BY <1>1, <1>3 DEF OriginInv, ReadOrigin, KeyOf, Sent
<1>10. ReturnedOnce'
  <2>1. trace[o].kind = "put" => st'[o] # "ret"
    BY <1>4 DEF Resume, SendPutReplica, LocalPut, WriteBackAndReturn, IndInv, TypeOK
  <2> QED
    BY <1>1, <2>1 DEF OriginInv, ReturnedOnce
<1> QED
  BY <1>6, <1>7, <1>8, <1>9, <1>10 DEF OriginInv

\* RetValue ends with something that was written, be it the local entry or an
\* answer whose value it lost: an answer without value does not beat our entry.
LEMMA ChosenWritten ==
  ASSUME IndInv, OriginInv, NEW m \in resps, m.round = "query", trace[m.op].kind = "get",
         NEW e \in Chosen(kv[Home(m.op)][KeyOf(m.op)], Cached(m))
  PROVE  <<KeyOf(m.op), e.clock, e.val>> \in Written
<1> DEFINE o == m.op
           local == kv[Home(o)][KeyOf(o)]
<1>1. /\ o \in Op /\ Home(o) \in Node /\ KeyOf(o) \in Key /\ local.clock \in Clock
      /\ e \in Entry
  BY Typed, CommandType, ChosenType DEF IndInv
<1>2. CASE e = local
  BY <1>1, <1>2 DEF OriginInv, StoreOrigin
<1>3. CASE e # local
  <2>1. PICK r \in Cached(m) : e = [clock |-> r.clock, val |-> KeyBytes]
    BY <1>3 DEF Chosen, Candidates
  <2>2. <<KeyOf(o), r.clock, r.val>> \in Written
    BY <1>1, <2>1 DEF Cached, OriginInv, AnswerOrigin, ReadAnswer
  <2>3. r.clock # MinClock
    <3> SUFFICES ASSUME r.clock = MinClock PROVE FALSE
      OBVIOUS
    <3>1. Leq(local.clock, MinClock)
      BY <2>1 DEF Chosen, Candidates
    <3>2. to_int(local.clock) = to_int(MinClock)
      BY <1>1, <3>1, MinLeq, MinIsClock, ToIntNat DEF Leq
    <3>3. e.clock = local.clock
      BY <1>1, <2>1, <3>2, MinIsClock, ToIntInjective
    <3> QED
      BY <1>3, <3>3 DEF Chosen
  <2>4. <<KeyOf(o), r.clock, KeyBytes>> \in Written
    BY <2>2, <2>3 DEF Written, Value
  <2> QED
    BY <2>1, <2>4
<1> QED
  BY <1>2, <1>3

\* What the continuations do to the flags and the caches.
LEMMA ContinuationFlags ==
  ASSUME IndInv, OriginInv, NEW m \in resps, Continuation(m)
  PROVE  /\ \A p \in Op : done[p]["update"] => done'[p]["update"]
         /\ \A p \in Op : \A r \in cache'[p] :
              r \in cache[p] \/ (r = m /\ m.op = p /\ m.round = "query")
<1>1. m.op \in Op /\ m.round \in Round
  BY Typed DEF IndInv
<1>2. \/ Complete(m)
      \/ /\ done' = done
         /\ \/ cache' = cache
            \/ m.round = "query" /\ cache' = [cache EXCEPT ![m.op] = Cached(m)]
  BY DEF Continuation, TooEarlyOrLate, GetTime, AckPutTime, RetValue, RetGetPutUpdate
<1>3. CASE Complete(m)
  <2>1. \A p \in Op : done'[p]["update"] = TRUE \/ done'[p]["update"] = done[p]["update"]
    BY <1>1, <1>3 DEF Complete, IndInv, TypeOK, Round
  <2>2. \A p \in Op : cache'[p] = {} \/ cache'[p] = cache[p]
    BY <1>1, <1>3 DEF Complete, IndInv, TypeOK
  <2> QED
    BY <2>1, <2>2
<1>4. CASE done' = done /\ cache' = cache
  BY <1>4
<1>5. CASE done' = done /\ m.round = "query" /\ cache' = [cache EXCEPT ![m.op] = Cached(m)]
  BY <1>1, <1>5 DEF Cached, IndInv, TypeOK
<1> QED
  BY <1>2, <1>3, <1>4, <1>5

\* How far a continuation moves its operation.
LEMMA ContinuationMoves ==
  ASSUME IndInv, NEW m \in resps, Continuation(m)
  PROVE  \/ UNCHANGED <<st, stamp, result>>
         \/ GetTime(m) /\ st[m.op] = "query" /\ st'[m.op] = "reduced"
         \/ RetValue(m) /\ st[m.op] = "query" /\ st'[m.op] \in {"reduced", "ret"}
         \/ /\ AckPutTime(m) /\ UNCHANGED <<stamp, result>>
            /\ st[m.op] \in Sent /\ st'[m.op] = "ret"
<1>1. m.op \in Op /\ ResponseOK(m)
  BY Typed DEF IndInv, Messages
<1>2. CASE GetTime(m)
  <2>1. m.round = "query" /\ Through(m)
    BY <1>2 DEF GetTime, Complete
  <2> QED
    BY <1>1, <1>2, <2>1, FirstAnswer DEF GetTime, IndInv, TypeOK
<1>3. CASE RetValue(m)
  <2>1. m.round = "query" /\ Through(m)
    BY <1>3 DEF RetValue, Complete
  <2>2. st' = [st EXCEPT ![m.op] = "ret"] \/ st' = [st EXCEPT ![m.op] = "reduced"]
    BY <1>3 DEF RetValue
  <2> QED
    BY <1>1, <1>3, <2>1, <2>2, FirstAnswer DEF IndInv, TypeOK
<1>4. CASE AckPutTime(m)
  BY <1>1, <1>4 DEF AckPutTime, ResponseOK, IndInv, TypeOK
<1>5. CASE TooEarlyOrLate(m) \/ RetGetPutUpdate(m)
  BY <1>5 DEF TooEarlyOrLate, RetGetPutUpdate
<1> QED
  BY <1>2, <1>3, <1>4, <1>5 DEF Continuation

LEMMA ContinuationOrigin ==
  ASSUME IndInv, OriginInv, NEW m \in resps, Continuation(m)
  PROVE  OriginInv'
<1> DEFINE o == m.op
<1>1. /\ o \in Op
      /\ UNCHANGED <<trace, kv, reqs, floor>>
      /\ resps' \subseteq resps
      /\ \A p \in Op : p # o => st'[p] = st[p] /\ stamp'[p] = stamp[p] /\ result'[p] = result[p]
  BY ContinuationCommon
<1>2. Written \subseteq Written'
  <2>1. \/ UNCHANGED <<st, stamp, result>>
        \/ st[o] = "query"
        \/ UNCHANGED <<stamp, result>> /\ st'[o] = "ret"
    BY ContinuationMoves
  <2>2. PutsKept
    BY <1>1, <2>1 DEF PutsKept, Sent
  <2> QED
    BY <1>1, <2>2, WrittenKept
<1>3. StoreOrigin' /\ UpdateOrigin'
  BY <1>1, <1>2, OriginsKept
<1>4. AnswerOrigin'
  BY <1>1, <1>2, OriginsKept, ContinuationFlags DEF AnswerOrigin
<1>5. ReadOrigin'
  <2>1. ASSUME NEW p \in Op, p # o, trace[p].kind = "get", st'[p] = "reduced"
        PROVE  <<KeyOf(p), stamp'[p], result'[p]>> \in Written'
    BY <1>1, <1>2, <2>1 DEF OriginInv, ReadOrigin
  <2>2. ASSUME trace[o].kind = "get", st'[o] = "reduced"
        PROVE  <<KeyOf(o), stamp'[o], result'[o]>> \in Written'
    <3>1. CASE UNCHANGED <<st, stamp, result>>
      BY <1>1, <1>2, <2>2, <3>1 DEF OriginInv, ReadOrigin
    <3>2. CASE RetValue(m)
      <4>1. PICK e \in Chosen(kv[Home(o)][KeyOf(o)], Cached(m)) :
               /\ stamp' = [stamp EXCEPT ![o] = e.clock]
               /\ result' = [result EXCEPT ![o] = e.val]
        BY <3>2 DEF RetValue
      <4>2. m.round = "query"
        BY <3>2 DEF RetValue
      <4>3. <<KeyOf(o), e.clock, e.val>> \in Written
        BY <2>2, <4>2, ChosenWritten
      <4>4. stamp'[o] = e.clock /\ result'[o] = e.val
        BY <1>1, <4>1 DEF IndInv, TypeOK
      <4> QED
        BY <1>2, <4>3, <4>4
    <3> QED
      BY <2>2, <3>1, <3>2, ContinuationMoves DEF GetTime
  <2> QED
    BY <1>1, <2>1, <2>2 DEF ReadOrigin, KeyOf
<1>6. ReturnedOnce'
  <2>1. \A p \in Op : done[p]["update"] => done'[p]["update"]
    BY ContinuationFlags
  <2>2. ASSUME trace[o].kind = "put", st'[o] = "ret"
        PROVE  done'[o]["update"]
    <3>1. CASE UNCHANGED <<st, stamp, result>>
      BY <1>1, <2>1, <2>2, <3>1 DEF OriginInv, ReturnedOnce
    <3>2. CASE AckPutTime(m)
      BY <1>1, <3>2 DEF AckPutTime, Complete, IndInv, TypeOK, Round
    <3> QED
      BY <2>2, <3>1, <3>2, ContinuationMoves DEF RetValue
  <2> QED
    BY <1>1, <2>1, <2>2 DEF OriginInv, ReturnedOnce
<1> QED
  BY <1>3, <1>4, <1>5, <1>6 DEF OriginInv

LEMMA QuietOrigin ==
  ASSUME OriginInv, UNCHANGED <<trace, st, stamp, result, kv, reqs, resps, cache, done>>
  PROVE  OriginInv'
<1>1. Written \subseteq Written'
  BY WrittenKept DEF PutsKept
<1>2. StoreOrigin' /\ UpdateOrigin' /\ AnswerOrigin'
  BY <1>1, OriginsKept DEF AnswerOrigin
<1>3. ReadOrigin' /\ ReturnedOnce'
  BY <1>1 DEF OriginInv, ReadOrigin, ReturnedOnce, KeyOf
<1> QED
  BY <1>2, <1>3 DEF OriginInv

LEMMA InitOrigin == Init => OriginInv
<1> SUFFICES ASSUME Init PROVE OriginInv
  OBVIOUS
<1>1. StoreOrigin
  BY MinIsClock DEF Init, StoreOrigin, Written, Absent, Value
<1> QED
  BY <1>1 DEF Init, OriginInv, UpdateOrigin, AnswerOrigin, ReadOrigin, ReturnedOnce

LEMMA NextOrigin == IndInv /\ OriginInv /\ [Next]_vars => OriginInv'
<1> SUFFICES ASSUME IndInv, OriginInv, [Next]_vars PROVE OriginInv'
  OBVIOUS
<1>1. CASE UNCHANGED vars
  BY <1>1, QuietOrigin DEF vars
<1>2. CASE \E o \in Op : Start(o) \/ Resume(o)
  BY <1>2, StartOrigin, ResumeOrigin
<1>3. CASE \E m \in reqs : Handler(m)
  BY <1>3, HandlerOrigin
<1>4. CASE \E m \in resps : Continuation(m)
  BY <1>4, ContinuationOrigin
<1>5. CASE \E n \in Node : Stop(n)
  BY <1>5, QuietOrigin DEF Stop
<1> QED
  BY <1>1, <1>2, <1>3, <1>4, <1>5 DEF Next

LEMMA OriginInvariance == Spec => [](IndInv /\ OriginInv)
<1>1. Init => OriginInv
  BY InitOrigin
<1>2. IndInv /\ OriginInv /\ [Next]_vars => OriginInv'
  BY NextOrigin
<1> QED
  BY <1>1, <1>2, Invariance, PTL DEF Spec

\* Whatever GetTime's local put (protocol.h:485) and PutReplica store, also from
\* the write-back of a get that RetValue answered with the wrong bytes
\* (protocol.h:528), has the clock of a put of the key that was sent.
THEOREM StoredClocksArePuts == Spec => []StoredWasPut
<1>1. IndInv /\ OriginInv => StoredWasPut
  <2> SUFFICES ASSUME IndInv, OriginInv, NEW n \in Node, NEW k \in Key, kv[n][k] # Absent
               PROVE  \E o \in Op : /\ trace[o].kind = "put" /\ KeyOf(o) = k
                                    /\ st[o] \in {"sent", "update", "ret"}
                                    /\ kv[n][k].clock = stamp[o]
                                    /\ kv[n][k].val \in {result[o], KeyBytes}
    BY DEF StoredWasPut
  <2>1. kv[n][k] \in Entry
    BY Typed DEF IndInv
  <2>2. ~(kv[n][k].clock = MinClock /\ kv[n][k].val = NoValue)
    BY <2>1 DEF Entry, Absent
  <2> QED
    BY <2>2 DEF OriginInv, StoreOrigin, Written, Sent
<1> QED
  BY <1>1, OriginInvariance, PTL

----------------------------------------------------------------------------
(* The refinement.                                                         *)

statusBar == [o \in Op |-> AbstractStatus(st[o])]

LEMMA RegisterOperators ==
  /\ AsRegister!Clock = Clock /\ AsRegister!MinClock = MinClock
  /\ \A a, b : AsRegister!Less(a, b) = Less(a, b)
  /\ \A a, b : AsRegister!Leq(a, b) = Leq(a, b)
  /\ \A a, b : AsRegister!Later(a, b) = Later(a, b)
<1>1. /\ \A a, b : AsRegister!Less(a, b) = Less(a, b)
      /\ \A a, b : AsRegister!Leq(a, b) = Leq(a, b)
  BY DEF AsRegister!Less, AsRegister!Leq, AsRegister!to_int, Less, Leq, to_int
<1> QED
  BY <1>1 DEF AsRegister!Later, Later, AsRegister!Clock, Clock, AsRegister!Count, Count,
              AsRegister!MachineId, MachineId, AsRegister!MinClock, MinClock

\* The status of the one operation that a step moves.
LEMMA StatusMoves ==
  ASSUME TypeOK, TypeOK', NEW o \in Op, \A p \in Op : p # o => st'[p] = st[p]
  PROVE  statusBar' = [statusBar EXCEPT ![o] = AbstractStatus(st'[o])]
<1>1. statusBar' = [p \in Op |-> AbstractStatus(st'[p])]
  BY DEF statusBar, AbstractStatus
<1> HIDE DEF AbstractStatus
<1> QED
  BY <1>1 DEF statusBar

\* A step in which no operation moves for its caller.
LEMMA QuietRefines ==
  ASSUME UNCHANGED <<trace, stamp, acked, floor>>, statusBar' = statusBar
  PROVE  UNCHANGED AsRegister!vars
BY DEF AsRegister!vars, statusBar

LEMMA StartRefines ==
  ASSUME IndInv, IndInv', NEW o \in Op, Start(o)
  PROVE  AsRegister!Start(o)
<1>1. /\ UNCHANGED <<trace, stamp, acked>>
      /\ st[o] = "new" /\ st'[o] \in {"skip", "query"}
      /\ \A p \in Op : p # o => st'[p] = st[p]
      /\ floor' = [floor EXCEPT ![o] = acked[trace[o].key]]
  BY DEF Start, Benchmark, ClientCall, SendQuery, IndInv, TypeOK, KeyOf
<1>2. statusBar' = [statusBar EXCEPT ![o] = AbstractStatus(st'[o])]
  BY <1>1, StatusMoves DEF IndInv
<1>3. /\ statusBar[o] = "idle"
      /\ AbstractStatus(st'[o]) \in {"skipped", "running"}
  BY <1>1 DEF statusBar, AbstractStatus
<1> QED
  BY <1>1, <1>2, <1>3 DEF AsRegister!Start, AsRegister!To, statusBar

LEMMA ResumeRefines ==
  ASSUME IndInv, IndInv', NEW o \in Op, Resume(o)
  PROVE  AsRegister!ReturnGet(o) \/ UNCHANGED AsRegister!vars
<1>1. /\ UNCHANGED <<trace, stamp, acked, floor>>
      /\ \A p \in Op : p # o => st'[p] = st[p]
  BY DEF Resume, SendPutReplica, LocalPut, WriteBackAndReturn, IndInv, TypeOK
<1>2. statusBar' = [statusBar EXCEPT ![o] = AbstractStatus(st'[o])]
  BY <1>1, StatusMoves DEF IndInv
<1>3. CASE WriteBackAndReturn(o)
  <2>1. st[o] = "reduced" /\ st'[o] = "ret" /\ trace[o].kind = "get"
    BY <1>3 DEF WriteBackAndReturn, IndInv, TypeOK
  <2>2. statusBar[o] = "stamped" /\ AbstractStatus(st'[o]) = "over"
    BY <2>1 DEF statusBar, AbstractStatus
  <2> QED
    BY <1>1, <1>2, <2>1, <2>2 DEF AsRegister!ReturnGet, AsRegister!To, statusBar
<1>4. CASE SendPutReplica(o) \/ LocalPut(o)
  <2>1. st[o] \in {"reduced", "sent"} /\ st'[o] \in {"sent", "update"}
    BY <1>4 DEF SendPutReplica, LocalPut, IndInv, TypeOK
  <2>2. statusBar[o] = "stamped" /\ AbstractStatus(st'[o]) = "stamped"
    BY <2>1 DEF statusBar, AbstractStatus
  <2>3. statusBar' = statusBar
    BY <1>2, <2>2 DEF statusBar
  <2> QED
    BY <1>1, <2>3, QuietRefines
<1> QED
  BY <1>3, <1>4 DEF Resume

LEMMA GetTimeRefines ==
  ASSUME IndInv, IndInv', NEW m \in resps, GetTime(m)
  PROVE  AsRegister!StampPut(m.op)
<1> DEFINE o == m.op
<1>1. Continuation(m)
  BY DEF Continuation
<1>2. /\ o \in Op /\ trace[o].kind = "put" /\ UNCHANGED <<trace, acked, floor>>
      /\ \A p \in Op : p # o => st'[p] = st[p]
  BY <1>1, ContinuationCommon DEF GetTime
<1>3. st[o] = "query" /\ st'[o] = "reduced"
  <2>1. m.round = "query" /\ Through(m)
    BY DEF GetTime, Complete
  <2> QED
    BY <1>2, <2>1, FirstAnswer DEF GetTime, IndInv, TypeOK
<1>4. stamp' = [stamp EXCEPT ![o] = stamp'[o]] /\ stamp'[o] \in Clock
  BY <1>2, Typed DEF GetTime, IndInv, TypeOK
<1>5. stamp'[o].count = 0 \/ Less(floor[o], stamp'[o])
  BY <1>2, <1>3 DEF IndInv, OperationOK, Stamped
<1>6. statusBar' = [statusBar EXCEPT ![o] = AbstractStatus(st'[o])]
  BY <1>2, StatusMoves DEF IndInv
<1>7. statusBar[o] = "running" /\ AbstractStatus(st'[o]) = "stamped"
  BY <1>2, <1>3 DEF statusBar, AbstractStatus
<1> QED
  BY <1>2, <1>4, <1>5, <1>6, <1>7, RegisterOperators
     DEF AsRegister!StampPut, AsRegister!To, statusBar

\* What was written of a key has the stamp of a put that the register knows.
LEMMA WrittenIsStamped ==
  ASSUME IndInv, NEW k, NEW c, NEW v, <<k, c, v>> \in Written
  PROVE  c \in AsRegister!Stamps(k) \cup {MinClock}
<1>1. CASE c = MinClock
  BY <1>1
<1>2. CASE c # MinClock
  <2>1. PICK p \in Op : /\ trace[p].kind = "put" /\ st[p] \in Sent
                        /\ k = KeyOf(p) /\ c = stamp[p]
    BY <1>2 DEF Written
  <2>2. statusBar[p] \in {"stamped", "over"}
    BY <2>1 DEF statusBar, AbstractStatus, Sent
  <2> QED
    BY <2>1, <2>2 DEF AsRegister!Stamps, statusBar, KeyOf
<1> QED
  BY <1>1, <1>2

LEMMA RetValueRefines ==
  ASSUME IndInv, OriginInv, IndInv', NEW m \in resps, RetValue(m)
  PROVE  AsRegister!Read(m.op)
<1> DEFINE o == m.op
<1>1. Continuation(m)
  BY DEF Continuation
<1>2. /\ o \in Op /\ trace[o].kind = "get" /\ m.round = "query"
      /\ UNCHANGED <<trace, acked, floor>>
      /\ \A p \in Op : p # o => st'[p] = st[p]
  BY <1>1, ContinuationCommon DEF RetValue
<1>3. st[o] = "query" /\ st'[o] \in {"reduced", "ret"}
  <2>1. Through(m)
    BY DEF RetValue, Complete
  <2>2. st' = [st EXCEPT ![o] = "ret"] \/ st' = [st EXCEPT ![o] = "reduced"]
    BY DEF RetValue
  <2> QED
    BY <1>2, <2>1, <2>2, FirstAnswer DEF IndInv, TypeOK
<1>4. PICK e \in Chosen(kv[Home(o)][KeyOf(o)], Cached(m)) :
         stamp' = [stamp EXCEPT ![o] = e.clock]
  BY DEF RetValue
<1>5. stamp'[o] = e.clock
  BY <1>2, <1>4 DEF IndInv, TypeOK
<1>6. e.clock \in AsRegister!Stamps(trace[o].key) \cup {MinClock}
  BY <1>2, <1>4, ChosenWritten, WrittenIsStamped DEF KeyOf
<1>7. Leq(floor[o], e.clock)
  BY <1>2, <1>3, <1>5 DEF IndInv, OperationOK
<1>8. statusBar' = [statusBar EXCEPT ![o] = AbstractStatus(st'[o])]
  BY <1>2, StatusMoves DEF IndInv
<1>9. statusBar[o] = "running" /\ AbstractStatus(st'[o]) \in {"stamped", "over"}
  BY <1>2, <1>3 DEF statusBar, AbstractStatus
<1> QED
  BY <1>2, <1>4, <1>6, <1>7, <1>8, <1>9, RegisterOperators
     DEF AsRegister!Read, AsRegister!To, statusBar

LEMMA AckPutTimeRefines ==
  ASSUME IndInv, OriginInv, IndInv', NEW m \in resps, AckPutTime(m)
  PROVE  AsRegister!ReturnPut(m.op)
<1> DEFINE o == m.op
<1>1. Continuation(m)
  BY DEF Continuation
<1>2. /\ o \in Op /\ trace[o].kind = "put" /\ m.round = "update"
      /\ UNCHANGED <<trace, stamp, floor>>
      /\ \A p \in Op : p # o => st'[p] = st[p]
      /\ acked' = [acked EXCEPT ![trace[o].key] = Later(@, stamp[o])]
  BY <1>1, ContinuationCommon DEF AckPutTime, KeyOf
<1>3. st[o] \in {"sent", "update"} /\ st'[o] = "ret"
  <2>1. st[o] \in Sent /\ st'[o] = "ret"
    BY <1>2 DEF AckPutTime, IndInv, TypeOK, Messages, ResponseOK
  <2>2. ~done[o]["update"]
    BY <1>2 DEF AckPutTime, Complete, Through
  <2> QED
    BY <1>2, <2>1, <2>2 DEF OriginInv, ReturnedOnce, Sent
<1>4. statusBar' = [statusBar EXCEPT ![o] = AbstractStatus(st'[o])]
  BY <1>2, StatusMoves DEF IndInv
<1>5. statusBar[o] = "stamped" /\ AbstractStatus(st'[o]) = "over"
  BY <1>2, <1>3 DEF statusBar, AbstractStatus
<1> QED
  BY <1>2, <1>4, <1>5, RegisterOperators DEF AsRegister!ReturnPut, AsRegister!To, statusBar

LEMMA StepRefines ==
  ASSUME IndInv, OriginInv, IndInv', [Next]_vars
  PROVE  [AsRegister!Next]_AsRegister!vars
<1>1. ASSUME UNCHANGED <<trace, st, stamp, acked, floor>>
      PROVE  UNCHANGED AsRegister!vars
  BY <1>1, QuietRefines DEF statusBar, AbstractStatus
<1>2. CASE UNCHANGED vars
  BY <1>1, <1>2 DEF vars
<1>3. CASE \E o \in Op : Start(o)
  BY <1>3, StartRefines DEF AsRegister!Next
<1>4. CASE \E o \in Op : Resume(o)
  BY <1>4, ResumeRefines DEF AsRegister!Next
<1>5. CASE \E m \in reqs : Handler(m)
  BY <1>1, <1>5 DEF Handler, GetTimeStamp, GetValueTimeStamp, PutReplica, Handle
<1>6. CASE \E m \in resps : Continuation(m)
  <2>1. PICK m \in resps : Continuation(m)
    BY <1>6
  <2>2. m.op \in Op
    BY Typed DEF IndInv
  <2>3. CASE TooEarlyOrLate(m) \/ RetGetPutUpdate(m)
    BY <1>1, <2>3 DEF TooEarlyOrLate, RetGetPutUpdate
  <2>4. CASE GetTime(m)
    BY <2>2, <2>4, GetTimeRefines DEF AsRegister!Next
  <2>5. CASE RetValue(m)
    BY <2>2, <2>5, RetValueRefines DEF AsRegister!Next
  <2>6. CASE AckPutTime(m)
    BY <2>2, <2>6, AckPutTimeRefines DEF AsRegister!Next
  <2> QED
    BY <2>1, <2>3, <2>4, <2>5, <2>6 DEF Continuation
<1>7. CASE \E n \in Node : Stop(n)
  BY <1>1, <1>7 DEF Stop
<1> QED
  BY <1>2, <1>3, <1>4, <1>5, <1>6, <1>7 DEF Next

\* The two rounds of benchmark_put and benchmark_get (protocol.h:280-299), with
\* all that GetTime, AckPutTime and RetValue do on the way, implement a regular
\* register in the order of the clocks.
THEOREM ABDImplementsRegister == Spec => ImplementsRegister
<1>1. Init => AsRegister!Init
  BY RegisterOperators DEF Init, AsRegister!Init, AbstractStatus
<1>2. IndInv /\ OriginInv /\ IndInv' /\ [Next]_vars => [AsRegister!Next]_AsRegister!vars
  BY StepRefines
<1> QED
  BY <1>1, <1>2, OriginInvariance, PTL DEF Spec, ImplementsRegister, AsRegister!Spec

----------------------------------------------------------------------------
(* Which sizes are enough for the unchecked buffers of Wire.               *)

\* What a value may take behind a key in an answer: value_size, a client's
\* value, and the key bytes that a get wrote back.
AnswerRoom == /\ key_size =< 12
              /\ key_size + client_value_size =< value_size + 12
              /\ key_size + add_meta_size(key_size) =< value_size + 12

\* What a slab element has to hold.
ElementRoom == /\ value_size =< max_value_size
               /\ client_value_size =< max_value_size
               /\ add_meta_size(key_size) =< max_value_size

\* The values that exist are the ones the two conditions are about.
LEMMA ValueSizes ==
  ASSUME TypeOK, NEW v \in Value
  PROVE  ValueSize(v) \in {0, value_size, client_value_size, add_meta_size(key_size)}
<1>1. CASE v \in {NoValue, KeyBytes}
  BY <1>1, OpAssumption DEF ValueSize
<1>2. CASE v \in Op
  BY <1>2, OpAssumption DEF ValueSize
<1> QED
  BY <1>1, <1>2 DEF Value

LEMMA AnswerFits ==
  ASSUME AnswerRoom, TypeOK, NEW r \in Resp
  PROVE  /\ EncryptedSize(adjust_size(AnswerSize(r))) =< PacketSize(r)
         /\ PacketSize(r) =< ResponseBuffer
         /\ r.round = "query" /\ trace[r.op].kind = "get" => AnswerSize(r) =< max_package_size
<1> USE SizeAssumption DEF PacketSize, ResponseBuffer, max_package_size,
        get_buffer_size, adjust_size, add_meta_size, EncryptedSize, MetaDataSize, IvSize, MacSize, SizeOfLamport,
        SizeOfHeader, ACK_SZ
<1>1. /\ r.round \in Round /\ r.op \in Op /\ r.val \in Value
      /\ trace[r.op].kind \in {"put", "get"}
  BY CommandType DEF Resp
<1>2. CASE r.round = "update"
  <2>1. AnswerSize(r) = 4
    BY <1>2 DEF AnswerSize
  <2> QED
    BY <1>2, <2>1
<1>3. CASE r.round = "query" /\ trace[r.op].kind = "put"
  <2>1. AnswerSize(r) = 8
    BY <1>3 DEF AnswerSize
  <2> QED
    BY <1>3, <2>1
<1>4. CASE r.round = "query" /\ trace[r.op].kind = "get"
  <2>1. /\ ValueSize(r.val) \in Nat
        /\ key_size + ValueSize(r.val) =< value_size + 12
    BY <1>1, ValueSizes DEF AnswerRoom
  <2>2. AnswerSize(r) = key_size + 8 + ValueSize(r.val)
    BY <1>4 DEF AnswerSize
  <2> QED
    BY <2>1, <2>2
<1> QED
  BY <1>1, <1>2, <1>3, <1>4 DEF Round

\* The response buffers of create_buffers (replica_context.h:121) and RetValue's
\* copy (protocol.h:514) are large enough for every answer, if keys have at most
\* 12 bytes and values are not shorter than a key that is written back for one:
\* what max_package_size (protocol.h:105) forgets is made up for by MetaDataSize.
THEOREM AnswersFitBuffers == AnswerRoom => (Spec => []AnswersFit)
<1> SUFFICES ASSUME AnswerRoom PROVE Spec => []AnswersFit
  OBVIOUS
<1>1. TypeOK => AnswersFit
  <2> SUFFICES ASSUME TypeOK PROVE AnswersFit
    OBVIOUS
  <2>1. \A r \in resps \cup UNION {cache[o] : o \in Op} : r \in Resp
    BY DEF TypeOK
  <2> QED
    BY <2>1, AnswerFits DEF AnswersFit
<1> QED
  BY <1>1, TypeCorrect, PTL

\* Every value that reaches a store fits the slab element create_node encrypts
\* it into (memtable.h:35), if --max-value-size is at least --value_size, what
\* clients put, and the key with its clock.
THEOREM ValuesFitElements == ElementRoom => (Spec => []ElementsFit)
<1> SUFFICES ASSUME ElementRoom PROVE Spec => []ElementsFit
  OBVIOUS
<1>1. TypeOK => ElementsFit
  <2> SUFFICES ASSUME TypeOK PROVE ElementsFit
    OBVIOUS
  <2>1. \A v \in Value : ValueSize(v) =< ElementSize
    BY ValueSizes, SizeAssumption
       DEF ElementRoom, ElementSize, add_meta_size, SizeOfLamport
  <2>2. \A n \in Node, k \in Key : kv[n][k].val \in Value
    BY DEF TypeOK, Entry
  <2>3. \A m \in reqs : m.val \in Value
    BY DEF TypeOK, Req
  <2> QED
    BY <2>1, <2>2, <2>3 DEF ElementsFit
<1> QED
  BY <1>1, TypeCorrect, PTL

----------------------------------------------------------------------------
(* Modular arithmetic.                                                     *)

\* Division with remainder.
LEMMA Remainder ==
  ASSUME NEW a \in Int, NEW b \in Nat \ {0}
  PROVE  /\ a \div b \in Int
         /\ a % b \in 0 .. b - 1
         /\ a = b * (a \div b) + (a % b)
OBVIOUS

\* Multiples of b that are less than b apart are the same.
LEMMA MultipleApart ==
  ASSUME NEW b \in Nat \ {0}, NEW d \in Int, -b < b * d, b * d < b
  PROVE  d = 0
<1>1. CASE d > 0
  <2>1. PICK e \in Nat : d = e + 1
    <3>1. d - 1 \in Nat /\ d = (d - 1) + 1
      BY <1>1
    <3> QED
      BY <3>1
  <2>2. b * d = b * e + b /\ b * e \in Nat
    BY <2>1
  <2> QED
    BY <2>2
<1>2. CASE d < 0
  <2>1. PICK e \in Nat : d = -(e + 1)
    <3>1. -d - 1 \in Nat /\ d = -((-d - 1) + 1)
      BY <1>2
    <3> QED
      BY <3>1
  <2>2. b * d = -(b * e) - b /\ b * e \in Nat
    BY <2>1
  <2> QED
    BY <2>2
<1> QED
  BY <1>1, <1>2

\* The remainder is the only one.
LEMMA RemainderUnique ==
  ASSUME NEW b \in Nat \ {0}, NEW q \in Int, NEW r \in 0 .. b - 1, NEW a \in Int,
         a = b * q + r
  PROVE  a % b = r
<1> DEFINE p == a \div b
           s == a % b
<1>1. p \in Int /\ s \in 0 .. b - 1 /\ a = b * p + s
  BY Remainder
<1> HIDE DEF p, s
<1>2. b * (p - q) = r - s
  <2>1. b * (p - q) = b * p - b * q
    BY <1>1
  <2>2. b * p \in Int /\ b * q \in Int
    BY <1>1
  <2> QED
    BY <1>1, <2>1, <2>2
<1>3. p - q = 0
  BY <1>1, <1>2, MultipleApart
<1>4. b * (p - q) = 0
  BY <1>3
<1>5. s = r
  BY <1>1, <1>2, <1>4
<1> QED
  BY <1>5 DEF s

\* In modular arithmetic, counting up or down may come before the reduction.
LEMMA StepBeforeRemainder ==
  ASSUME NEW b \in Nat \ {0}, NEW x \in Int, NEW d \in {-1, 1}
  PROVE  ((x % b) + d) % b = (x + d) % b
<1> DEFINE q == x \div b
           r == x % b
           y == r + d
           p == y \div b
           s == y % b
<1>1. q \in Int /\ r \in 0 .. b - 1 /\ x = b * q + r
  BY Remainder
<1>2. y \in Int
  BY <1>1
<1>3. p \in Int /\ s \in 0 .. b - 1 /\ y = b * p + s
  BY <1>2, Remainder
<1> HIDE DEF p, s, q, r
<1>4. x + d = b * (q + p) + s
  <2>1. b * (q + p) = b * q + b * p /\ b * q \in Int /\ b * p \in Int
    BY <1>1, <1>3
  <2> QED
    BY <1>1, <1>3, <2>1
<1>5. q + p \in Int /\ x + d \in Int
  BY <1>1, <1>3
<1>6. \A a, w \in Int : a = b * w + s => a % b = s
  BY <1>3, RemainderUnique
<1>7. (x + d) % b = s
  BY <1>4, <1>5, <1>6, Zenon
<1> QED
  BY <1>7 DEF s, y, r

----------------------------------------------------------------------------
(* The counters.  An operation of the trace is counted when it starts and  *)
(* counted off when it returns, a client's call only the latter (Finish).  *)

UnderWayOf(t) == {o \in Op : Running(o) /\ ThreadOf(o) = t}
UnderWayAt(n) == {o \in Op : Running(o) /\ Home(o) = n}
EndedOf(t) == {o \in Op : ClientEnded(o) /\ ThreadOf(o) = t}
EndedAt(n) == {o \in Op : ClientEnded(o) /\ Home(o) = n}

\* What current_traces and request would be without the width of size_t.
TracesOf(t) == Cardinality(UnderWayOf(t)) - Cardinality(EndedOf(t))
SlotsAt(n) == Cardinality(UnderWayAt(n)) - Cardinality(EndedAt(n))

LEMMA CountersAre ==
  CountersMatch <=> /\ \A t \in Thread : current_traces[t] = TracesOf(t) % SizeMod
                    /\ \A n \in Node :
                         /\ request[n] = SlotsAt(n) % SizeMod
                         /\ Cardinality(UnderWayAt(n)) =< MaxRequest + Cardinality(EndedAt(n))
BY DEF CountersMatch, TracesOf, SlotsAt, UnderWayOf, UnderWayAt, EndedOf, EndedAt

LEMMA CountedFinite ==
  /\ \A t \in Thread : /\ IsFiniteSet(UnderWayOf(t)) /\ Cardinality(UnderWayOf(t)) \in Nat
                       /\ IsFiniteSet(EndedOf(t)) /\ Cardinality(EndedOf(t)) \in Nat
                       /\ TracesOf(t) \in Int
  /\ \A n \in Node : /\ IsFiniteSet(UnderWayAt(n)) /\ Cardinality(UnderWayAt(n)) \in Nat
                     /\ IsFiniteSet(EndedAt(n)) /\ Cardinality(EndedAt(n)) \in Nat
                     /\ SlotsAt(n) \in Int
<1>1. \A S \in SUBSET Op : IsFiniteSet(S) /\ Cardinality(S) \in Nat
  BY OpAssumption, FS_Subset, FS_CardinalityType
<1>2. /\ \A t \in Thread : UnderWayOf(t) \in SUBSET Op /\ EndedOf(t) \in SUBSET Op
      /\ \A n \in Node : UnderWayAt(n) \in SUBSET Op /\ EndedAt(n) \in SUBSET Op
  BY DEF UnderWayOf, UnderWayAt, EndedOf, EndedAt
<1> QED
  BY <1>1, <1>2 DEF TracesOf, SlotsAt

\* Nothing starts or ends, and nothing is counted.
LEMMA CountersKept ==
  ASSUME CountersMatch, UNCHANGED <<trace, current_traces, request>>,
         \A o \in Op : (Running(o)' <=> Running(o)) /\ (ClientEnded(o)' <=> ClientEnded(o))
  PROVE  CountersMatch'
<1>1. /\ \A t \in Thread : UnderWayOf(t)' = UnderWayOf(t) /\ EndedOf(t)' = EndedOf(t)
      /\ \A n \in Node : UnderWayAt(n)' = UnderWayAt(n) /\ EndedAt(n)' = EndedAt(n)
  BY DEF UnderWayOf, UnderWayAt, EndedOf, EndedAt, ThreadOf, Home
<1> QED
  BY <1>1 DEF CountersMatch, UnderWayOf, UnderWayAt, EndedOf, EndedAt

\* Both counters move by one with what they count.
LEMMA CountersMove ==
  ASSUME TypeOK, CountersMatch, NEW o \in Op, NEW d \in {-1, 1},
         \A t \in Thread : TracesOf(t)' = IF t = ThreadOf(o) THEN TracesOf(t) + d ELSE TracesOf(t),
         \A n \in Node : SlotsAt(n)' = IF n = Home(o) THEN SlotsAt(n) + d ELSE SlotsAt(n),
         \A n \in Node : Cardinality(UnderWayAt(n)') =< MaxRequest + Cardinality(EndedAt(n)'),
         current_traces' = [current_traces EXCEPT ![ThreadOf(o)] = (@ + d) % SizeMod],
         request' = [request EXCEPT ![Home(o)] = (@ + d) % SizeMod]
  PROVE  CountersMatch'
<1>1. \A x \in Int : ((x % SizeMod) + d) % SizeMod = (x + d) % SizeMod
  BY BoundAssumption, StepBeforeRemainder
<1>2. \A t \in Thread : current_traces[t] = TracesOf(t) % SizeMod /\ TracesOf(t) \in Int
  BY CountersAre, CountedFinite
<1>3. \A n \in Node : request[n] = SlotsAt(n) % SizeMod /\ SlotsAt(n) \in Int
  BY CountersAre, CountedFinite
<1>4. ASSUME NEW t \in Thread
      PROVE  current_traces'[t] = TracesOf(t)' % SizeMod
  <2>1. current_traces'[t] = IF t = ThreadOf(o) THEN (current_traces[t] + d) % SizeMod
                                                ELSE current_traces[t]
    BY DEF TypeOK
  <2>2. (current_traces[t] + d) % SizeMod = (TracesOf(t) + d) % SizeMod
    BY <1>1, <1>2
  <2> QED
    BY <1>2, <2>1, <2>2
<1>5. ASSUME NEW n \in Node
      PROVE  request'[n] = SlotsAt(n)' % SizeMod
  <2>1. request'[n] = IF n = Home(o) THEN (request[n] + d) % SizeMod ELSE request[n]
    BY DEF TypeOK
  <2>2. (request[n] + d) % SizeMod = (SlotsAt(n) + d) % SizeMod
    BY <1>1, <1>3
  <2> QED
    BY <1>3, <2>1, <2>2
<1> QED
  BY <1>4, <1>5 DEF CountersMatch, TracesOf, SlotsAt, UnderWayOf, UnderWayAt, EndedOf, EndedAt

\* An operation of the trace starts below the limit and is counted.
LEMMA CountedOn ==
  ASSUME TypeOK, CountersMatch, NEW o \in Op, trace' = trace,
         ~Running(o), Running(o)', \A p \in Op : p # o => (Running(p)' <=> Running(p)),
         \A p \in Op : ClientEnded(p)' <=> ClientEnded(p),
         request[Home(o)] < MaxRequest,
         current_traces' = [current_traces EXCEPT ![ThreadOf(o)] = (@ + 1) % SizeMod],
         request' = [request EXCEPT ![Home(o)] = (@ + 1) % SizeMod]
  PROVE  CountersMatch'
<1>1. /\ ThreadOf(o) \in Thread /\ Home(o) \in Node
      /\ ThreadOf(o)' = ThreadOf(o) /\ Home(o)' = Home(o)
  BY CommandType DEF ThreadOf, Home
<1>2. /\ \A t \in Thread : UnderWayOf(t)' = IF t = ThreadOf(o) THEN UnderWayOf(t) \cup {o}
                                                               ELSE UnderWayOf(t)
      /\ \A t \in Thread : EndedOf(t)' = EndedOf(t) /\ o \notin UnderWayOf(t)
  BY <1>1 DEF UnderWayOf, EndedOf, ThreadOf
<1>3. /\ \A n \in Node : UnderWayAt(n)' = IF n = Home(o) THEN UnderWayAt(n) \cup {o}
                                                         ELSE UnderWayAt(n)
      /\ \A n \in Node : EndedAt(n)' = EndedAt(n) /\ o \notin UnderWayAt(n)
  BY <1>1 DEF UnderWayAt, EndedAt, Home
<1>4. /\ \A t \in Thread : Cardinality(UnderWayOf(t) \cup {o}) = Cardinality(UnderWayOf(t)) + 1
      /\ \A n \in Node : Cardinality(UnderWayAt(n) \cup {o}) = Cardinality(UnderWayAt(n)) + 1
  BY <1>2, <1>3, CountedFinite, FS_AddElement
<1>5. \A t \in Thread : TracesOf(t)' = IF t = ThreadOf(o) THEN TracesOf(t) + 1 ELSE TracesOf(t)
  BY <1>2, <1>4, CountedFinite DEF TracesOf
<1>6. \A n \in Node : SlotsAt(n)' = IF n = Home(o) THEN SlotsAt(n) + 1 ELSE SlotsAt(n)
  BY <1>3, <1>4, CountedFinite DEF SlotsAt
<1>7. \A n \in Node : Cardinality(UnderWayAt(n)') =< MaxRequest + Cardinality(EndedAt(n)')
  <2>1. \A n \in Node : Cardinality(UnderWayAt(n)) =< MaxRequest + Cardinality(EndedAt(n))
    BY CountersAre
  <2>2. Cardinality(UnderWayAt(Home(o))) + 1 =< MaxRequest + Cardinality(EndedAt(Home(o)))
    <3> DEFINE u == Cardinality(UnderWayAt(Home(o)))
               e == Cardinality(EndedAt(Home(o)))
    <3>1. u \in Nat /\ e \in Nat /\ u =< MaxRequest + e
      BY <1>1, <2>1, CountedFinite
    <3>2. (u - e) % SizeMod < MaxRequest
      BY <1>1, CountersAre DEF SlotsAt
    <3> HIDE DEF u, e
    <3>3. ASSUME u < e
          PROVE  u + 1 =< MaxRequest + e
      BY <3>1, <3>3, BoundAssumption
    <3>4. ASSUME u >= e
          PROVE  u + 1 =< MaxRequest + e
      <4>1. u - e \in 0 .. SizeMod - 1
        BY <3>1, <3>4, BoundAssumption
      <4>2. \A x \in 0 .. SizeMod - 1 : x % SizeMod = x
        BY BoundAssumption
      <4>3. u - e < MaxRequest
        BY <3>2, <4>1, <4>2
      <4> QED
        BY <3>1, <4>3, BoundAssumption
    <3> QED
      BY <3>1, <3>3, <3>4 DEF u, e
  <2> QED
    BY <1>3, <1>4, <2>1, <2>2
<1> QED
  BY <1>5, <1>6, <1>7, CountersMove

\* An operation that was counted returns, or a client's call that was not, and
\* both are counted off.
LEMMA CountedOff ==
  ASSUME TypeOK, CountersMatch, NEW o \in Op, trace' = trace, ~Returned(o),
         ~trace[o].client => Running(o), Returned(o)',
         \A p \in Op : p # o => st'[p] = st[p],
         Finish(o)
  PROVE  CountersMatch'
<1> USE DEF Running, ClientEnded, Returned, Started
<1>1. /\ ThreadOf(o) \in Thread /\ Home(o) \in Node
      /\ \A p \in Op : ThreadOf(p)' = ThreadOf(p) /\ Home(p)' = Home(p)
  BY CommandType DEF ThreadOf, Home
<1>2. /\ \A t \in Thread : UnderWayOf(t)' = IF t = ThreadOf(o) THEN UnderWayOf(t) \ {o}
                                                               ELSE UnderWayOf(t)
      /\ \A n \in Node : UnderWayAt(n)' = IF n = Home(o) THEN UnderWayAt(n) \ {o}
                                                         ELSE UnderWayAt(n)
  BY <1>1 DEF UnderWayOf, UnderWayAt
<1>3. CASE ~trace[o].client
  <2>1. /\ \A t \in Thread : EndedOf(t)' = EndedOf(t)
        /\ \A n \in Node : EndedAt(n)' = EndedAt(n)
    BY <1>1, <1>3 DEF EndedOf, EndedAt
  <2>2. o \in UnderWayOf(ThreadOf(o)) /\ o \in UnderWayAt(Home(o))
    BY <1>3 DEF UnderWayOf, UnderWayAt
  <2>3. /\ Cardinality(UnderWayOf(ThreadOf(o)) \ {o}) = Cardinality(UnderWayOf(ThreadOf(o))) - 1
        /\ Cardinality(UnderWayAt(Home(o)) \ {o}) = Cardinality(UnderWayAt(Home(o))) - 1
    BY <1>1, <2>2, CountedFinite, FS_RemoveElement
  <2>4. \A t \in Thread : TracesOf(t)' = IF t = ThreadOf(o) THEN TracesOf(t) + (-1) ELSE TracesOf(t)
    <3>1. \A t \in Thread : t # ThreadOf(o) => TracesOf(t)' = TracesOf(t)
      BY <1>2, <2>1 DEF TracesOf
    <3>2. TracesOf(ThreadOf(o))' = TracesOf(ThreadOf(o)) + (-1)
      <4>1. \A t \in Thread : t = ThreadOf(o) => TracesOf(t)' = TracesOf(t) + (-1)
        BY <1>2, <2>1, <2>3, CountedFinite DEF TracesOf
      <4> QED
        BY <1>1, <4>1
    <3> QED
      BY <1>1, <3>1, <3>2
  <2>5. \A n \in Node : SlotsAt(n)' = IF n = Home(o) THEN SlotsAt(n) + (-1) ELSE SlotsAt(n)
    BY <1>2, <2>1, <2>3, CountedFinite DEF SlotsAt
  <2>6. \A n \in Node : Cardinality(UnderWayAt(n)') =< MaxRequest + Cardinality(EndedAt(n)')
    <3>1. ASSUME NEW n \in Node
          PROVE  Cardinality(UnderWayAt(n)') =< MaxRequest + Cardinality(EndedAt(n)')
      <4>1. /\ Cardinality(UnderWayAt(n)) \in Nat /\ Cardinality(EndedAt(n)) \in Nat
            /\ Cardinality(UnderWayAt(n)) =< MaxRequest + Cardinality(EndedAt(n))
        BY CountersAre, CountedFinite
      <4>2. Cardinality(UnderWayAt(n)') =< Cardinality(UnderWayAt(n))
        BY <1>2, <2>3, <4>1
      <4>3. Cardinality(UnderWayAt(n)') \in Nat
        <5>1. UnderWayAt(n)' \in SUBSET UnderWayAt(n)
          BY <1>2
        <5> QED
          BY <5>1, CountedFinite, FS_Subset, FS_CardinalityType
      <4> QED
        BY <2>1, <4>1, <4>2, <4>3, BoundAssumption
    <3> QED
      BY <3>1
  <2> QED
    BY <2>4, <2>5, <2>6, CountersMove DEF Finish
<1>4. CASE trace[o].client
  <2>1. /\ \A t \in Thread : EndedOf(t)' = IF t = ThreadOf(o) THEN EndedOf(t) \cup {o} ELSE EndedOf(t)
        /\ \A n \in Node : EndedAt(n)' = IF n = Home(o) THEN EndedAt(n) \cup {o} ELSE EndedAt(n)
        /\ \A t \in Thread : o \notin EndedOf(t)
        /\ \A n \in Node : o \notin EndedAt(n)
    BY <1>1, <1>4 DEF EndedOf, EndedAt
  <2>2. /\ \A t \in Thread : UnderWayOf(t)' = UnderWayOf(t)
        /\ \A n \in Node : UnderWayAt(n)' = UnderWayAt(n)
    BY <1>1, <1>4 DEF UnderWayOf, UnderWayAt
  <2>3. /\ \A t \in Thread : Cardinality(EndedOf(t) \cup {o}) = Cardinality(EndedOf(t)) + 1
        /\ \A n \in Node : Cardinality(EndedAt(n) \cup {o}) = Cardinality(EndedAt(n)) + 1
    BY <2>1, CountedFinite, FS_AddElement
  <2>4. \A t \in Thread : TracesOf(t)' = IF t = ThreadOf(o) THEN TracesOf(t) + (-1) ELSE TracesOf(t)
    BY <2>1, <2>2, <2>3, CountedFinite DEF TracesOf
  <2>5. \A n \in Node : SlotsAt(n)' = IF n = Home(o) THEN SlotsAt(n) + (-1) ELSE SlotsAt(n)
    BY <2>1, <2>2, <2>3, CountedFinite DEF SlotsAt
  <2>6. \A n \in Node : Cardinality(UnderWayAt(n)') =< MaxRequest + Cardinality(EndedAt(n)')
    BY <2>1, <2>2, <2>3, CountersAre, CountedFinite, BoundAssumption
  <2> QED
    BY <2>4, <2>5, <2>6, CountersMove DEF Finish
<1> QED
  BY <1>3, <1>4

LEMMA StartCounters ==
  ASSUME TypeOK, CountersMatch, NEW o \in Op, Start(o)
  PROVE  CountersMatch'
<1> USE DEF Running, ClientEnded, Returned, Started
<1>1. trace' = trace /\ st[o] = "new" /\ \A p \in Op : p # o => st'[p] = st[p]
  BY DEF Start, Benchmark, ClientCall, SendQuery, TypeOK
<1>2. st'[o] = IF Replicas(o) = {} THEN "skip" ELSE "query"
  BY DEF Start, Benchmark, ClientCall, SendQuery, TypeOK
<1>3. CASE ClientCall(o) /\ Replicas(o) = {}
  BY <1>1, <1>2, <1>3, CountedOff DEF ClientCall
<1>4. CASE Benchmark(o) /\ Replicas(o) # {}
  <2>1. ~trace[o].client
    BY <1>4 DEF Benchmark
  <2>2. /\ ~Running(o) /\ Running(o)' /\ \A p \in Op : p # o => (Running(p)' <=> Running(p))
        /\ \A p \in Op : ClientEnded(p)' <=> ClientEnded(p)
    BY <1>1, <1>2, <1>4, <2>1
  <2> QED
    BY <1>1, <1>4, <2>2, CountedOn DEF Benchmark
<1>5. CASE \/ ClientCall(o) /\ Replicas(o) # {}
           \/ Benchmark(o) /\ Replicas(o) = {}
  <2>1. UNCHANGED <<current_traces, request>>
    BY <1>5 DEF ClientCall, Benchmark
  <2>2. trace[o].client <=> Replicas(o) # {}
    BY <1>5 DEF ClientCall, Benchmark
  <2>3. \A p \in Op : (Running(p)' <=> Running(p)) /\ (ClientEnded(p)' <=> ClientEnded(p))
    BY <1>1, <1>2, <2>2
  <2> QED
    BY <1>1, <2>1, <2>3, CountersKept
<1> QED
  BY <1>3, <1>4, <1>5 DEF Start

LEMMA ResumeCounters ==
  ASSUME TypeOK, CountersMatch, NEW o \in Op, Resume(o)
  PROVE  CountersMatch'
<1> USE DEF Running, ClientEnded, Returned, Started
<1>1. trace' = trace /\ \A p \in Op : p # o => st'[p] = st[p]
  BY DEF Resume, SendPutReplica, LocalPut, WriteBackAndReturn, TypeOK
<1>2. CASE SendPutReplica(o) \/ LocalPut(o)
  <2>1. /\ st[o] \in {"reduced", "sent"} /\ st'[o] \in {"sent", "update"}
        /\ UNCHANGED <<current_traces, request>>
    BY <1>2 DEF SendPutReplica, LocalPut, TypeOK
  <2>2. \A p \in Op : (Running(p)' <=> Running(p)) /\ (ClientEnded(p)' <=> ClientEnded(p))
    BY <1>1, <2>1
  <2> QED
    BY <1>1, <2>1, <2>2, CountersKept
<1>3. CASE WriteBackAndReturn(o)
  <2>1. st[o] = "reduced" /\ st'[o] = "ret" /\ Finish(o)
    BY <1>3 DEF WriteBackAndReturn, TypeOK
  <2> QED
    BY <1>1, <2>1, CountedOff
<1> QED
  BY <1>2, <1>3 DEF Resume

\* The flags of the two contexts let an operation return only once.
LEMMA ContinuationCounters ==
  ASSUME IndInv, OriginInv, CountersMatch, NEW m \in resps, Continuation(m)
  PROVE  CountersMatch'
<1> DEFINE o == m.op
<1>1. o \in Op /\ trace' = trace /\ \A p \in Op : p # o => st'[p] = st[p]
  BY ContinuationCommon
<1>2. TypeOK
  BY DEF IndInv
<1>3. CASE st'[o] = "ret" /\ Finish(o) /\ st[o] \notin {"new", "skip", "ret"}
  BY <1>1, <1>2, <1>3, CountedOff DEF Running, Returned, Started
<1>4. CASE st'[o] = "reduced" /\ st[o] = "query" /\ UNCHANGED <<current_traces, request>>
  <2>1. \A p \in Op : (Running(p)' <=> Running(p)) /\ (ClientEnded(p)' <=> ClientEnded(p))
    BY <1>1, <1>4 DEF Running, ClientEnded, Returned, Started
  <2> QED
    BY <1>1, <1>4, <2>1, CountersKept
<1>5. CASE TooEarlyOrLate(m) \/ RetGetPutUpdate(m)
  <2>1. UNCHANGED <<trace, st, current_traces, request>>
    BY <1>5 DEF TooEarlyOrLate, RetGetPutUpdate
  <2> QED
    BY <2>1, CountersKept DEF Running, ClientEnded, Returned, Started
<1>6. CASE GetTime(m)
  <2>1. Through(m) /\ m.round = "query" /\ UNCHANGED <<current_traces, request>>
    BY <1>6 DEF GetTime, Complete
  <2>2. st[o] = "query" /\ st'[o] = "reduced"
    BY <1>1, <1>2, <1>6, <2>1, FirstAnswer DEF GetTime, TypeOK
  <2> QED
    BY <1>4, <2>1, <2>2
<1>7. CASE RetValue(m)
  <2>1. Through(m) /\ m.round = "query"
    BY <1>7 DEF RetValue, Complete
  <2>2. \/ st' = [st EXCEPT ![o] = "ret"] /\ Finish(o)
        \/ st' = [st EXCEPT ![o] = "reduced"] /\ UNCHANGED <<current_traces, request>>
    BY <1>7 DEF RetValue
  <2>3. st[o] = "query"
    BY <2>1, FirstAnswer
  <2> QED
    BY <1>1, <1>2, <1>3, <1>4, <2>2, <2>3 DEF TypeOK
<1>8. CASE AckPutTime(m)
  <2>1. /\ m.round = "update" /\ trace[o].kind = "put" /\ Through(m) /\ Finish(o)
        /\ st' = [st EXCEPT ![o] = "ret"]
    BY <1>8 DEF AckPutTime, Complete
  <2>2. ResponseOK(m)
    BY DEF IndInv, Messages
  <2>3. st[o] \in Sent
    BY <2>1, <2>2 DEF ResponseOK
  <2>4. st[o] # "ret"
    BY <1>1, <2>1 DEF Through, OriginInv, ReturnedOnce
  <2> QED
    BY <1>1, <1>2, <1>3, <2>1, <2>3, <2>4 DEF Sent, TypeOK
<1> QED
  BY <1>5, <1>6, <1>7, <1>8 DEF Continuation

LEMMA InitCounters == Init => CountersMatch
<1> SUFFICES ASSUME Init PROVE CountersMatch
  OBVIOUS
<1>1. \A o \in Op : ~Running(o) /\ ~ClientEnded(o)
  BY DEF Init, Running, ClientEnded, Returned, Started
<1>2. /\ \A t \in Thread : UnderWayOf(t) = {} /\ EndedOf(t) = {}
      /\ \A n \in Node : UnderWayAt(n) = {} /\ EndedAt(n) = {}
  BY <1>1 DEF UnderWayOf, UnderWayAt, EndedOf, EndedAt
<1>3. (0 - 0) % SizeMod = 0 /\ 0 =< MaxRequest + 0
  BY BoundAssumption
<1>4. /\ \A t \in Thread : current_traces[t] = TracesOf(t) % SizeMod
      /\ \A n \in Node : request[n] = SlotsAt(n) % SizeMod
  BY <1>2, <1>3, FS_EmptySet DEF Init, TracesOf, SlotsAt
<1>5. \A n \in Node : Cardinality(UnderWayAt(n)) =< MaxRequest + Cardinality(EndedAt(n))
  BY <1>2, <1>3, FS_EmptySet
<1> QED
  BY <1>4, <1>5, CountersAre

LEMMA NextCounters == IndInv /\ OriginInv /\ CountersMatch /\ [Next]_vars => CountersMatch'
<1> SUFFICES ASSUME IndInv, OriginInv, CountersMatch, [Next]_vars PROVE CountersMatch'
  OBVIOUS
<1>1. TypeOK
  BY DEF IndInv
<1>2. CASE UNCHANGED <<trace, st, current_traces, request>>
  BY <1>2, CountersKept DEF Running, ClientEnded, Returned, Started
<1>3. CASE \E o \in Op : Start(o) \/ Resume(o)
  BY <1>1, <1>3, StartCounters, ResumeCounters
<1>4. CASE \E m \in resps : Continuation(m)
  BY <1>4, ContinuationCounters
<1>5. CASE UNCHANGED vars \/ (\E m \in reqs : Handler(m)) \/ (\E n \in Node : Stop(n))
  <2>1. UNCHANGED <<trace, st, current_traces, request>>
    BY <1>5 DEF vars, Handler, GetTimeStamp, GetValueTimeStamp, PutReplica, Handle, Stop
  <2> QED
    BY <1>2, <2>1
<1> QED
  BY <1>3, <1>4, <1>5 DEF Next

\* decrement_traces and the rate limiter's release (put_ret, get_ret, skip_ret)
\* run once for each operation, however late or however often a round is
\* answered.  For a trace without client calls that is the number of operations
\* under way, which never wraps; each client call that ends takes one off both
\* counters for good, also below zero.
THEOREM EveryOpCountedOnce == Spec => []CountersMatch
<1>1. Init => CountersMatch
  BY InitCounters
<1>2. IndInv /\ OriginInv /\ CountersMatch /\ [Next]_vars => CountersMatch'
  BY NextCounters
<1> QED
  BY <1>1, <1>2, OriginInvariance, PTL DEF Spec

----------------------------------------------------------------------------
(* Agreement of the replicas.  A put takes its stamp from its own store in *)
(* GetTime and writes that store in LocalPut: a put of the same machine    *)
(* that is stamped in between can get the same stamp.  OneWriter says that *)
(* none is, NeverWrapped that no counter came around to 0, DistinctIds     *)
(* that no two addresses end in the same octet (server.cpp:298).           *)

DistinctIds == \A m, n \in Node : MId[m] = MId[n] => m = n

OneWriter ==
  \A p, q \in Op :
    /\ trace[p].kind = "put" /\ st[p] \in {"reduced", "sent"}
    /\ trace[q].kind = "put" /\ st[q] \in {"reduced", "sent"}
    /\ Home(p) = Home(q) /\ KeyOf(p) = KeyOf(q)
    => p = q

StampedPut(o) == trace[o].kind = "put" /\ st[o] \in Stamped

NeverWrapped == \A o \in Op : StampedPut(o) => stamp[o].count # 0

\* A put is stamped with the id of its machine and writes its own value.
OwnStamps ==
  \A o \in Op : StampedPut(o) => stamp[o].m_id = MId[Home(o)] /\ result[o] = o

\* And no two puts of a key share a stamp.
StampInv ==
  /\ OwnStamps
  /\ \A p, q \in Op : /\ StampedPut(p) /\ StampedPut(q)
                      /\ KeyOf(p) = KeyOf(q) /\ stamp[p] = stamp[q]
                      => p = q

\* A step that stamps no put.
NoNewStamp ==
  /\ trace' = trace
  /\ \A o \in Op : StampedPut(o)' => /\ StampedPut(o) /\ stamp'[o] = stamp[o]
                                     /\ result'[o] = result[o] /\ floor'[o] = floor[o]

LEMMA StampsKept ==
  ASSUME NoNewStamp
  PROVE  (OwnStamps => OwnStamps') /\ (StampInv => StampInv')
<1>1. OwnStamps => OwnStamps'
  BY DEF OwnStamps, NoNewStamp, Home
<1> QED
  BY <1>1 DEF StampInv, NoNewStamp, KeyOf

\* Only GetTime stamps a put.
LEMMA OnlyGetTimeStamps ==
  ASSUME IndInv, [Next]_vars
  PROVE  NoNewStamp \/ \E m \in resps : GetTime(m)
<1> USE DEF StampedPut, Stamped
<1>1. TypeOK
  BY DEF IndInv
<1>2. CASE UNCHANGED <<trace, st, stamp, result, floor>>
  BY <1>2 DEF NoNewStamp
<1>3. ASSUME NEW o \in Op, Start(o)
      PROVE  NoNewStamp
  <2>1. /\ UNCHANGED <<trace, stamp, result>> /\ st'[o] \in {"skip", "query"}
        /\ \A p \in Op : p # o => st'[p] = st[p] /\ floor'[p] = floor[p]
    BY <1>1, <1>3 DEF Start, Benchmark, ClientCall, SendQuery, TypeOK
  <2> QED
    BY <2>1 DEF NoNewStamp
<1>4. ASSUME NEW o \in Op, Resume(o)
      PROVE  NoNewStamp
  <2>1. /\ UNCHANGED <<trace, stamp, result, floor>> /\ st[o] \in {"reduced", "sent"}
        /\ \A p \in Op : p # o => st'[p] = st[p]
    BY <1>1, <1>4 DEF Resume, SendPutReplica, LocalPut, WriteBackAndReturn, TypeOK
  <2> QED
    BY <2>1 DEF NoNewStamp
<1>5. ASSUME NEW m \in resps, Continuation(m), ~GetTime(m)
      PROVE  NoNewStamp
  <2>1. /\ m.op \in Op /\ UNCHANGED <<trace, floor>>
        /\ \A p \in Op : p # m.op => /\ st'[p] = st[p] /\ stamp'[p] = stamp[p]
                                     /\ result'[p] = result[p]
    BY <1>5, ContinuationCommon
  <2>2. \/ UNCHANGED <<st, stamp, result>>
        \/ trace[m.op].kind = "get"
        \/ UNCHANGED <<stamp, result>> /\ st[m.op] \in Sent
    BY <1>5, ContinuationMoves DEF RetValue
  <2>3. trace[m.op].kind = "get" => trace'[m.op].kind # "put"
    BY <2>1
  <2> QED
    BY <2>1, <2>2, <2>3 DEF NoNewStamp, Sent
<1>6. CASE UNCHANGED vars \/ (\E m \in reqs : Handler(m)) \/ (\E n \in Node : Stop(n))
  <2>1. UNCHANGED <<trace, st, stamp, result, floor>>
    BY <1>6 DEF vars, Handler, GetTimeStamp, GetValueTimeStamp, PutReplica, Handle, Stop
  <2> QED
    BY <1>2, <2>1
<1> QED
  BY <1>3, <1>4, <1>5, <1>6 DEF Next

\* What GetTime does to the stamps: the largest counter it heard of, plus one.
LEMMA GetTimeStamps ==
  ASSUME IndInv, NEW m \in resps, GetTime(m)
  PROVE  /\ m.op \in Op /\ UNCHANGED <<trace, kv, floor>> /\ result'[m.op] = m.op
         /\ ~StampedPut(m.op) /\ StampedPut(m.op)' /\ st'[m.op] = "reduced"
         /\ \A p \in Op : p # m.op => /\ st'[p] = st[p] /\ stamp'[p] = stamp[p]
                                      /\ result'[p] = result[p]
         /\ \E max \in Counts(m.op, Cached(m)) :
              /\ \A c \in Counts(m.op, Cached(m)) : c =< max
              /\ stamp'[m.op] = Stamp(max, MId[Home(m.op)])
<1>1. Continuation(m)
  BY DEF Continuation
<1>2. /\ m.op \in Op /\ UNCHANGED <<trace, kv, floor>>
      /\ \A p \in Op : p # m.op => /\ st'[p] = st[p] /\ stamp'[p] = stamp[p]
                                   /\ result'[p] = result[p]
  BY <1>1, ContinuationCommon
<1>3. Through(m) /\ m.round = "query" /\ trace[m.op].kind = "put"
  BY DEF GetTime, Complete
<1>4. st[m.op] = "query"
  BY <1>3, FirstAnswer
<1>5. st'[m.op] = "reduced" /\ result'[m.op] = m.op
  BY <1>2 DEF GetTime, IndInv, TypeOK
<1>6. \E max \in Counts(m.op, Cached(m)) :
        /\ \A c \in Counts(m.op, Cached(m)) : c =< max
        /\ stamp'[m.op] = Stamp(max, MId[Home(m.op)])
  BY <1>2 DEF GetTime, IndInv, TypeOK
<1> QED
  BY <1>2, <1>3, <1>4, <1>5, <1>6 DEF StampedPut, Stamped

\* The values and ids of stamped puts, also where stamps are equal.
LEMMA NextOwnStamps ==
  ASSUME IndInv, OwnStamps, [Next]_vars
  PROVE  OwnStamps'
<1>1. ASSUME NEW m \in resps, GetTime(m)
      PROVE  OwnStamps'
  <2>1. /\ m.op \in Op /\ trace' = trace /\ result'[m.op] = m.op
        /\ \A p \in Op : p # m.op => /\ st'[p] = st[p] /\ stamp'[p] = stamp[p]
                                     /\ result'[p] = result[p]
        /\ \E max : stamp'[m.op] = Stamp(max, MId[Home(m.op)])
    BY <1>1, GetTimeStamps
  <2>2. stamp'[m.op].m_id = MId[Home(m.op)]
    BY <2>1 DEF Stamp
  <2> QED
    BY <2>1, <2>2 DEF OwnStamps, StampedPut, Home
<1> QED
  BY <1>1, StampsKept, OnlyGetTimeStamps

\* Two stores with one clock and different values (KV_store::put keeps its own
\* on a tie, memtable.cpp:9-19) hold two puts that were given one stamp: they
\* have the same machine id (protocol.h:473), and neither had returned when the
\* other started.  This holds for any threads, nesting and machine ids.
THEOREM DivergenceIsOverlap == Spec => []OnlyOverlapDiverges
<1>1. Init => OwnStamps
  BY DEF Init, OwnStamps, StampedPut, Stamped
<1>2. IndInv /\ OwnStamps /\ [Next]_vars => OwnStamps'
  BY NextOwnStamps
<1>3. IndInv /\ OriginInv /\ OwnStamps => OnlyOverlapDiverges
  <2> SUFFICES ASSUME IndInv, OriginInv, OwnStamps,
                      NEW m \in Node, NEW n \in Node, NEW k \in Key,
                      NEW p \in Op, NEW q \in Op, p = kv[m][k].val, q = kv[n][k].val,
                      kv[m][k].clock = kv[n][k].clock, kv[m][k].clock.count # 0
               PROVE  /\ MId[Home(p)] = MId[Home(q)]
                      /\ Less(floor[p], stamp[q]) /\ Less(floor[q], stamp[p])
    BY DEF OnlyOverlapDiverges
  <2>1. ASSUME NEW i \in Node, NEW o \in Op, o = kv[i][k].val
        PROVE  StampedPut(o) /\ stamp[o] = kv[i][k].clock
    <3>1. <<k, kv[i][k].clock, o>> \in Written
      BY <2>1 DEF OriginInv, StoreOrigin
    <3>2. o # NoValue /\ o # KeyBytes
      BY <2>1, OpAssumption
    <3>3. \E r \in Op : /\ trace[r].kind = "put" /\ st[r] \in Sent
                        /\ kv[i][k].clock = stamp[r] /\ o = result[r]
      BY <3>1, <3>2 DEF Written
    <3> QED
      BY <3>3 DEF OwnStamps, StampedPut, Stamped, Sent
  <2>2. /\ StampedPut(p) /\ stamp[p] = kv[m][k].clock
        /\ StampedPut(q) /\ stamp[q] = kv[m][k].clock
    BY <2>1
  <2>3. Less(floor[p], stamp[p]) /\ Less(floor[q], stamp[q])
    BY <2>2 DEF IndInv, OperationOK, StampedPut
  <2> QED
    BY <2>2, <2>3 DEF OwnStamps
<1> QED
  BY <1>1, <1>2, <1>3, OriginInvariance, PTL DEF Spec

\* A new stamp is not the one of another put of the key: the ids tell machines
\* apart, and a put of our own machine has reached our store.
LEMMA NewStampIsNew ==
  ASSUME DistinctIds, IndInv, StampInv, OneWriter', NeverWrapped', NEW m \in resps, GetTime(m),
         NEW p \in Op, p # m.op, StampedPut(p), KeyOf(p) = KeyOf(m.op)
  PROVE  stamp'[m.op] # stamp[p]
<1> DEFINE o == m.op
<1>1. /\ o \in Op /\ trace' = trace
      /\ StampedPut(o)' /\ st'[o] = "reduced"
      /\ st'[p] = st[p]
  BY GetTimeStamps
<1>2. PICK max \in Counts(o, Cached(m)) :
        /\ \A c \in Counts(o, Cached(m)) : c =< max
        /\ stamp'[o] = Stamp(max, MId[Home(o)])
  BY GetTimeStamps
<1>3. /\ Home(o) \in Node /\ Home(p) \in Node
      /\ MId[Home(o)] \in MachineId /\ max \in Count
  BY <1>1, <1>2, CommandType, CountsType, NodeAssumption DEF IndInv
<1>4. stamp'[o].m_id = MId[Home(o)]
  BY <1>2 DEF Stamp
<1>5. CASE Home(p) # Home(o)
  BY <1>3, <1>4, <1>5 DEF StampInv, OwnStamps, DistinctIds
<1>6. CASE Home(p) = Home(o)
  <2>1. st[p] \notin {"reduced", "sent"}
    BY <1>1, <1>6 DEF OneWriter, StampedPut, Home, KeyOf
  <2>2. HasClock(Home(o), KeyOf(o), stamp[p])
    BY <1>6, <2>1 DEF StampedPut, Stamped, IndInv, OperationOK
  <2>3. stamp[p] \in Clock /\ kv[Home(o)][KeyOf(o)].clock \in Clock
    BY <1>1, <1>3, CommandType DEF IndInv, TypeOK, Entry
  <2>4. kv[Home(o)][KeyOf(o)].clock.count =< max
    BY <1>2 DEF Counts
  <2>5. stamp[p].count =< kv[Home(o)][KeyOf(o)].clock.count
    BY <2>2, <2>3, LeqCount DEF HasClock
  <2>6. stamp[p].count =< max
    BY <1>3, <2>3, <2>4, <2>5 DEF Clock, Count
  <2>7. stamp'[o].count = 0 \/ Less(stamp[p], stamp'[o])
    BY <1>2, <1>3, <2>3, <2>6, StampAfter
  <2>8. Less(stamp[p], stamp'[o])
    BY <1>1, <2>7 DEF NeverWrapped
  <2> QED
    <3>1. to_int(stamp[p]) \in Int
      BY <2>3, ToIntNat
    <3> QED
      BY <2>8, <3>1 DEF Less
<1> QED
  BY <1>5, <1>6

LEMMA NextStamps ==
  ASSUME DistinctIds, IndInv, StampInv, OneWriter', NeverWrapped', [Next]_vars
  PROVE  StampInv'
<1>1. CASE NoNewStamp
  BY <1>1, StampsKept
<1>2. ASSUME NEW m \in resps, GetTime(m)
      PROVE  StampInv'
  <2>1. /\ m.op \in Op /\ trace' = trace /\ StampedPut(m.op)'
        /\ \A p \in Op : p # m.op => st'[p] = st[p] /\ stamp'[p] = stamp[p]
    BY <1>2, GetTimeStamps
  <2>2. /\ \A p \in Op : Home(p)' = Home(p) /\ KeyOf(p)' = KeyOf(p)
        /\ \A p \in Op : p # m.op => (StampedPut(p)' <=> StampedPut(p))
    BY <2>1 DEF Home, KeyOf, StampedPut
  <2>3. \A p \in Op : p # m.op /\ StampedPut(p) /\ KeyOf(p) = KeyOf(m.op)
                        => stamp'[m.op] # stamp[p]
    BY <1>2, NewStampIsNew
  <2> QED
    <3>1. OwnStamps'
      BY NextOwnStamps DEF StampInv
    <3>2. ASSUME NEW p \in Op, NEW q \in Op, StampedPut(p)', StampedPut(q)',
                 KeyOf(p)' = KeyOf(q)', stamp'[p] = stamp'[q]
          PROVE  p = q
      BY <2>1, <2>2, <2>3, <3>2 DEF StampInv
    <3> QED
      BY <3>1, <3>2 DEF StampInv
<1> QED
  BY <1>1, <1>2, OnlyGetTimeStamps

LEMMA StampsTellPutsApart ==
  ASSUME DistinctIds
  PROVE  Spec /\ []OneWriter /\ []NeverWrapped => []StampInv
<1>1. Init => StampInv
  BY DEF Init, StampInv, OwnStamps, StampedPut, Stamped
<1>2. IndInv /\ StampInv /\ OneWriter' /\ NeverWrapped' /\ [Next]_vars => StampInv'
  BY NextStamps
<1> QED
  BY <1>1, <1>2, Invariance, PTL DEF Spec

\* KV_store::put keeps the old value when the clocks are equal (memtable.cpp:9-19)
\* and RetValue compares clocks only.  That never makes replicas differ as long
\* as machine ids differ, a machine has one put of a key at a time between
\* GetTime's read of its own store and its write (protocol.h:447-486), and no
\* counter has come around.
THEOREM ReplicasAgree ==
  DistinctIds => (Spec /\ []OneWriter /\ []NeverWrapped => []ReplicaAgreement)
<1> SUFFICES ASSUME DistinctIds
             PROVE  Spec /\ []OneWriter /\ []NeverWrapped => []ReplicaAgreement
  OBVIOUS
<1>1. IndInv /\ OriginInv /\ StampInv /\ NeverWrapped => ReplicaAgreement
  <2> SUFFICES ASSUME IndInv, OriginInv, StampInv, NeverWrapped,
                      NEW m \in Node, NEW n \in Node, NEW k \in Key,
                      kv[m][k].clock = kv[n][k].clock,
                      KeyBytes # kv[m][k].val, KeyBytes # kv[n][k].val
               PROVE  kv[m][k].val = kv[n][k].val
    BY DEF ReplicaAgreement
  <2> DEFINE From(e, p) == /\ StampedPut(p) /\ KeyOf(p) = k
                           /\ e.clock = stamp[p] /\ e.val = result[p]
             Nothing(e) == e.clock = MinClock /\ e.val = NoValue
  <2>1. ASSUME NEW i \in {m, n}
        PROVE  Nothing(kv[i][k]) \/ \E p \in Op : From(kv[i][k], p)
    <3>1. i \in Node /\ kv[i][k].val # KeyBytes
      BY <2>1
    <3>2. <<k, kv[i][k].clock, kv[i][k].val>> \in Written
      BY <3>1 DEF OriginInv, StoreOrigin
    <3>3. \/ Nothing(kv[i][k])
          \/ \E p \in Op : /\ trace[p].kind = "put" /\ st[p] \in Sent
                           /\ k = KeyOf(p) /\ kv[i][k].clock = stamp[p]
                           /\ kv[i][k].val \in {result[p], KeyBytes}
      BY <3>2 DEF Written
    <3> QED
      BY <3>1, <3>3 DEF StampedPut, Stamped, Sent
  <2>2. \A p \in Op : StampedPut(p) => stamp[p] # MinClock
    BY DEF NeverWrapped, MinClock
  <2>3. CASE Nothing(kv[m][k]) /\ Nothing(kv[n][k])
    BY <2>3
  <2>4. ASSUME NEW p \in Op, NEW q \in Op, From(kv[m][k], p), From(kv[n][k], q)
        PROVE  kv[m][k].val = kv[n][k].val
    BY <2>4 DEF StampInv
  <2> QED
    BY <2>1, <2>2, <2>3, <2>4
<1> QED
  BY <1>1, OriginInvariance, StampsTellPutsApart, PTL

\* One thread per machine, none of whose continuations waits for a buffer.
SingleThreaded ==
  /\ MaxNest = 0
  /\ \A t, u \in Thread : NodeOf[t] = NodeOf[u] => t = u

\* A continuation between its read of the store and its end is alone on its
\* thread.
Uninterrupted == \A o \in Op : st[o] \in {"reduced", "sent"} => busy[ThreadOf(o)] = <<o>>

LEMMA UninterruptedKept ==
  ASSUME Uninterrupted, trace' = trace, busy' = busy,
         \A o \in Op : st'[o] \in {"reduced", "sent"} => st[o] \in {"reduced", "sent"}
  PROVE  Uninterrupted'
BY DEF Uninterrupted, ThreadOf

\* A continuation that starts without nesting finds an empty stack.
LEMMA UninterruptedEnter ==
  ASSUME TypeOK, MaxNest = 0, Uninterrupted, NEW o \in Op, trace' = trace,
         Polling(ThreadOf(o)), Enter(o),
         \A p \in Op : p # o => st'[p] = st[p]
  PROVE  Uninterrupted'
<1>1. ThreadOf(o) \in Thread /\ busy \in [Thread -> Seq(Op)]
  BY CommandType DEF TypeOK
<1>2. busy[ThreadOf(o)] = <<>>
  BY <1>1 DEF Polling
<1>3. busy'[ThreadOf(o)] = <<o>>
  BY <1>1, <1>2 DEF Enter
<1>4. \A t \in Thread : t # ThreadOf(o) => busy'[t] = busy[t]
  BY <1>1 DEF Enter
<1>5. ASSUME NEW p \in Op, p # o, st'[p] \in {"reduced", "sent"}
      PROVE  busy'[ThreadOf(p)'] = <<p>>
  <2>1. busy[ThreadOf(p)] = <<p>> /\ ThreadOf(p)' = ThreadOf(p)
    BY <1>5 DEF Uninterrupted, ThreadOf
  <2>2. ThreadOf(p) \in Thread /\ <<p>> # <<>>
    BY CommandType
  <2>3. ThreadOf(p) # ThreadOf(o)
    BY <1>2, <2>1, <2>2
  <2> QED
    BY <1>4, <2>1, <2>2, <2>3
<1>6. ThreadOf(o)' = ThreadOf(o)
  BY DEF ThreadOf
<1> QED
  BY <1>3, <1>5, <1>6 DEF Uninterrupted

LEMMA UninterruptedLeave ==
  ASSUME TypeOK, Uninterrupted, NEW o \in Op, trace' = trace, Resumed(o), Leave(o),
         st'[o] \notin {"reduced", "sent"}, \A p \in Op : p # o => st'[p] = st[p]
  PROVE  Uninterrupted'
<1>1. ThreadOf(o) \in Thread /\ busy \in [Thread -> Seq(Op)]
  BY CommandType DEF TypeOK
<1>2. \A t \in Thread : t # ThreadOf(o) => busy'[t] = busy[t]
  BY <1>1 DEF Leave
<1>3. ASSUME NEW p \in Op, p # o, st'[p] \in {"reduced", "sent"}
      PROVE  busy'[ThreadOf(p)'] = <<p>>
  <2>1. busy[ThreadOf(p)] = <<p>> /\ ThreadOf(p)' = ThreadOf(p)
    BY <1>3 DEF Uninterrupted, ThreadOf
  <2>2. ThreadOf(p) \in Thread
    BY CommandType
  <2>3. ThreadOf(p) # ThreadOf(o)
    <3>1. SUFFICES ASSUME ThreadOf(p) = ThreadOf(o) PROVE FALSE
      OBVIOUS
    <3>2. Top(ThreadOf(o)) = p
      BY <2>1, <3>1 DEF Top
    <3> QED
      BY <1>3, <3>2 DEF Resumed
  <2> QED
    BY <1>2, <2>1, <2>2, <2>3
<1> QED
  BY <1>3 DEF Uninterrupted

LEMMA NextUninterrupted ==
  MaxNest = 0 /\ IndInv /\ Uninterrupted /\ [Next]_vars => Uninterrupted'
<1> SUFFICES ASSUME MaxNest = 0, IndInv, Uninterrupted, [Next]_vars PROVE Uninterrupted'
  OBVIOUS
<1>1. TypeOK
  BY DEF IndInv
<1>2. CASE UNCHANGED <<trace, st, busy>>
  BY <1>2, UninterruptedKept
<1>3. ASSUME NEW o \in Op, Start(o)
      PROVE  Uninterrupted'
  <2>1. /\ trace' = trace /\ busy' = busy /\ st'[o] \in {"skip", "query"}
        /\ \A p \in Op : p # o => st'[p] = st[p]
    BY <1>1, <1>3 DEF Start, Benchmark, ClientCall, SendQuery, TypeOK
  <2> QED
    BY <2>1, UninterruptedKept
<1>4. ASSUME NEW o \in Op, Resume(o)
      PROVE  Uninterrupted'
  <2>1. trace' = trace /\ Resumed(o) /\ \A p \in Op : p # o => st'[p] = st[p]
    BY <1>1, <1>4 DEF Resume, SendPutReplica, LocalPut, WriteBackAndReturn, TypeOK
  <2>2. CASE SendPutReplica(o)
    <3>1. busy' = busy /\ st[o] = "reduced"
      BY <2>2 DEF SendPutReplica
    <3> QED
      BY <2>1, <3>1, UninterruptedKept
  <2>3. CASE LocalPut(o) \/ WriteBackAndReturn(o)
    <3>1. Leave(o) /\ st'[o] \in {"update", "ret"}
      BY <1>1, <2>3 DEF LocalPut, WriteBackAndReturn, TypeOK
    <3> QED
      BY <1>1, <2>1, <3>1, UninterruptedLeave
  <2> QED
    BY <1>4, <2>2, <2>3 DEF Resume
<1>5. ASSUME NEW m \in resps, Continuation(m)
      PROVE  Uninterrupted'
  <2>1. /\ m.op \in Op /\ trace' = trace /\ Polling(ThreadOf(m.op))
        /\ \A p \in Op : p # m.op => st'[p] = st[p]
    BY <1>5, ContinuationCommon
  <2>2. \/ Enter(m.op)
        \/ busy' = busy /\ (st' = st \/ st' = [st EXCEPT ![m.op] = "ret"])
    BY <1>5 DEF Continuation, TooEarlyOrLate, GetTime, AckPutTime, RetValue, RetGetPutUpdate
  <2>3. CASE Enter(m.op)
    BY <1>1, <2>1, <2>3, UninterruptedEnter
  <2>4. CASE busy' = busy /\ (st' = st \/ st' = [st EXCEPT ![m.op] = "ret"])
    <3>1. st' = st \/ st'[m.op] = "ret"
      BY <1>1, <2>1, <2>4 DEF TypeOK
    <3> QED
      BY <2>1, <2>4, <3>1, UninterruptedKept
  <2> QED
    BY <2>2, <2>3, <2>4
<1>6. CASE UNCHANGED vars \/ (\E m \in reqs : Handler(m)) \/ (\E n \in Node : Stop(n))
  <2>1. UNCHANGED <<trace, st, busy>>
    BY <1>6 DEF vars, Handler, GetTimeStamp, GetValueTimeStamp, PutReplica, Handle, Stop
  <2> QED
    BY <1>2, <2>1
<1> QED
  BY <1>3, <1>4, <1>5, <1>6 DEF Next

\* OneWriter on a server with one thread whose pool has a buffer for every
\* message: GetTime runs from its read of the store to its write
\* (protocol.h:447-486) with no event loop and no other thread between.
THEOREM OneThreadIsOneWriter == SingleThreaded => (Spec => []OneWriter)
<1> SUFFICES ASSUME SingleThreaded PROVE Spec => []OneWriter
  OBVIOUS
<1>1. Init => Uninterrupted
  BY DEF Init, Uninterrupted
<1>2. IndInv /\ Uninterrupted /\ [Next]_vars => Uninterrupted'
  BY NextUninterrupted DEF SingleThreaded
<1>3. IndInv /\ Uninterrupted => OneWriter
  <2> SUFFICES ASSUME IndInv, Uninterrupted, NEW p \in Op, NEW q \in Op,
                      st[p] \in {"reduced", "sent"}, st[q] \in {"reduced", "sent"},
                      Home(p) = Home(q)
               PROVE  p = q
    BY DEF OneWriter
  <2>1. ThreadOf(p) = ThreadOf(q)
    BY CommandType DEF IndInv, SingleThreaded, Home, ThreadOf
  <2>2. <<p>> = <<q>>
    BY <2>1 DEF Uninterrupted
  <2> QED
    BY <2>2
<1> QED
  BY <1>1, <1>2, <1>3, Invariance, PTL DEF Spec

----------------------------------------------------------------------------
(* Counters do not come around in a run with fewer operations than the     *)
(* counter has values: no counter exceeds the number of puts stamped.      *)

StampedPuts == {o \in Op : StampedPut(o)}
NStamped == Cardinality(StampedPuts)

\* The answers to queries, on their way and in a cache, and the stamps.
CountBound ==
  /\ NeverWrapped
  /\ \A o \in Op : StampedPut(o) => stamp[o].count =< NStamped
  /\ \A m \in resps : m.round = "query" => m.clock.count =< NStamped
  /\ \A o \in Op : \A m \in cache[o] : m.clock.count =< NStamped

LEMMA NStampedType ==
  /\ IsFiniteSet(StampedPuts) /\ NStamped \in Nat
  /\ NStamped =< Cardinality(Op) /\ Cardinality(Op) \in Nat
<1>1. StampedPuts \in SUBSET Op
  BY DEF StampedPuts
<1> QED
  BY <1>1, OpAssumption, FS_Subset, FS_CardinalityType DEF NStamped

\* What a store holds has a counter that a put was stamped with.
LEMMA StoreCounts ==
  ASSUME IndInv, OriginInv, CountBound, NEW n \in Node, NEW k \in Key
  PROVE  kv[n][k].clock.count =< NStamped
<1>1. <<k, kv[n][k].clock, kv[n][k].val>> \in Written
  BY DEF OriginInv, StoreOrigin
<1>2. \/ kv[n][k].clock = MinClock
      \/ \E p \in Op : trace[p].kind = "put" /\ st[p] \in Sent /\ kv[n][k].clock = stamp[p]
  BY <1>1 DEF Written
<1>3. CASE kv[n][k].clock = MinClock
  BY <1>3, NStampedType DEF MinClock
<1>4. ASSUME NEW p \in Op, trace[p].kind = "put", st[p] \in Sent, kv[n][k].clock = stamp[p]
      PROVE  kv[n][k].clock.count =< NStamped
  BY <1>4 DEF CountBound, StampedPut, Stamped, Sent
<1> QED
  BY <1>2, <1>3, <1>4

\* A step that stamps no put and brings no answer but from a store.
LEMMA CountsKept ==
  ASSUME IndInv, OriginInv, CountBound, NoNewStamp,
         \A o \in Op : StampedPut(o) => StampedPut(o)',
         \A m \in resps' : m \in resps \/ (\E n \in Node, k \in Key : m.clock = kv[n][k].clock)
                             \/ m.round # "query",
         \A o \in Op : \A m \in cache'[o] : m \in cache[o] \/ (m \in resps /\ m.round = "query")
  PROVE  CountBound'
<1>1. StampedPuts' = StampedPuts
  BY DEF StampedPuts, NoNewStamp
<1>2. NStamped' = NStamped
  BY <1>1 DEF NStamped
<1>3. NeverWrapped' /\ \A o \in Op : StampedPut(o)' => stamp'[o].count =< NStamped
  BY DEF CountBound, NeverWrapped, NoNewStamp
<1>4. \A m \in resps' : m.round = "query" => m.clock.count =< NStamped
  BY StoreCounts DEF CountBound
<1>5. \A o \in Op : \A m \in cache'[o] : m.clock.count =< NStamped
  BY DEF CountBound
<1> QED
  BY <1>2, <1>3, <1>4, <1>5 DEF CountBound

\* The next stamp is one more than a counter, and there is one more stamp.
LEMMA GetTimeCounts ==
  ASSUME Cardinality(Op) < CountMod, IndInv, OriginInv, CountBound,
         NEW m \in resps, GetTime(m)
  PROVE  CountBound'
<1> DEFINE o == m.op
<1>1. /\ o \in Op /\ trace' = trace /\ ~StampedPut(o) /\ StampedPut(o)'
      /\ \A p \in Op : p # o => st'[p] = st[p] /\ stamp'[p] = stamp[p]
  BY GetTimeStamps
<1>2. PICK max \in Counts(o, Cached(m)) : stamp'[o] = Stamp(max, MId[Home(o)])
  BY GetTimeStamps
<1>3. \A p \in Op : p # o => (StampedPut(p)' <=> StampedPut(p))
  BY <1>1 DEF StampedPut
<1>4. StampedPuts' = StampedPuts \cup {o} /\ o \notin StampedPuts
  BY <1>1, <1>3 DEF StampedPuts
<1>5. NStamped' = NStamped + 1 /\ NStamped \in Nat
  BY <1>4, NStampedType, FS_AddElement DEF NStamped
<1>6. NStamped + 1 < CountMod
  <2>1. StampedPuts' \in SUBSET Op
    BY <1>1, <1>4 DEF StampedPuts
  <2>2. NStamped' =< Cardinality(Op)
    BY <2>1, OpAssumption, FS_Subset DEF NStamped
  <2> QED
    BY <1>5, <2>2, NStampedType, WidthAssumption
<1>7. m.round = "query" /\ resps' \subseteq resps /\ \A p \in Op : cache'[p] \subseteq cache[p]
  BY <1>1 DEF GetTime, Complete, Receive, IndInv, TypeOK
<1>8. max \in Count /\ max =< NStamped
  <2>1. Home(o) \in Node /\ KeyOf(o) \in Key
    BY <1>1, CommandType DEF IndInv
  <2>2. kv[Home(o)][KeyOf(o)].clock.count =< NStamped
    BY <2>1, StoreCounts
  <2>3. \A r \in Cached(m) : r.clock.count =< NStamped
    BY <1>1, <1>7 DEF Cached, CountBound
  <2>4. max =< NStamped
    BY <1>2, <2>2, <2>3 DEF Counts
  <2> QED
    BY <1>2, <2>4, CountsType DEF IndInv
<1>9. stamp'[o].count = max + 1
  <2>1. (max + 1) % CountMod = max + 1
    BY <1>5, <1>6, <1>8, WidthAssumption DEF Count
  <2> QED
    BY <1>2, <2>1 DEF Stamp
<1>10. stamp'[o].count # 0 /\ stamp'[o].count =< NStamped + 1
  BY <1>5, <1>8, <1>9 DEF Count
<1>11. \A c \in Nat : c =< NStamped => c =< NStamped + 1
  BY <1>5
<1>12. ASSUME NEW p \in Op, StampedPut(p)'
       PROVE  stamp'[p].count # 0 /\ stamp'[p].count =< NStamped + 1
  <2>1. stamp[p].count \in Nat
    BY DEF IndInv, TypeOK, Clock, Count
  <2> QED
    BY <1>1, <1>3, <1>10, <1>11, <1>12, <2>1 DEF CountBound, NeverWrapped
<1>13. \A r \in Resp : r.clock.count \in Nat
  BY DEF Resp, Clock, Count
<1>14. \A r \in resps' : r.round = "query" => r.clock.count =< NStamped + 1
  BY <1>7, <1>11, <1>13 DEF CountBound, IndInv, TypeOK
<1>15. \A p \in Op : \A r \in cache'[p] : r.clock.count =< NStamped + 1
  BY <1>7, <1>11, <1>13 DEF CountBound, IndInv, TypeOK
<1> QED
  BY <1>5, <1>12, <1>14, <1>15 DEF CountBound, NeverWrapped

LEMMA NextCounts ==
  ASSUME Cardinality(Op) < CountMod, IndInv, OriginInv, CountBound, [Next]_vars
  PROVE  CountBound'
<1> USE DEF StampedPut, Stamped
<1>1. TypeOK
  BY DEF IndInv
<1>2. CASE \E m \in resps : GetTime(m)
  BY <1>2, GetTimeCounts
<1>3. CASE NoNewStamp
  <2>1. ASSUME NEW o \in Op, Start(o)
        PROVE  CountBound'
    <3>1. /\ trace' = trace /\ UNCHANGED <<resps, cache>> /\ st[o] = "new"
          /\ \A p \in Op : p # o => st'[p] = st[p]
      BY <1>1, <2>1 DEF Start, Benchmark, ClientCall, SendQuery, TypeOK
    <3>2. \A p \in Op : StampedPut(p) => StampedPut(p)'
      BY <3>1
    <3> QED
      BY <1>3, <3>1, <3>2, CountsKept
  <2>2. ASSUME NEW o \in Op, Resume(o)
        PROVE  CountBound'
    <3>1. /\ trace' = trace /\ UNCHANGED <<resps, cache>>
          /\ st'[o] \in {"sent", "update", "ret"}
          /\ \A p \in Op : p # o => st'[p] = st[p]
      BY <1>1, <2>2 DEF Resume, SendPutReplica, LocalPut, WriteBackAndReturn, TypeOK
    <3>2. \A p \in Op : StampedPut(p) => StampedPut(p)'
      BY <3>1
    <3> QED
      BY <1>3, <3>1, <3>2, CountsKept
  <2>3. ASSUME NEW m \in resps, Continuation(m)
        PROVE  CountBound'
    <3>1. /\ m.op \in Op /\ trace' = trace /\ resps' \subseteq resps
          /\ \A p \in Op : p # m.op => st'[p] = st[p]
      BY <2>3, ContinuationCommon
    <3>2. st' = st \/ st'[m.op] \in {"reduced", "ret"}
      BY <2>3, ContinuationMoves
    <3>3. \A p \in Op : StampedPut(p) => StampedPut(p)'
      BY <3>1, <3>2
    <3>4. \A p \in Op : \A r \in cache'[p] : r \in cache[p] \/ (r = m /\ m.round = "query")
      BY <2>3, ContinuationFlags
    <3> QED
      BY <1>3, <3>1, <3>3, <3>4, CountsKept
  <2>4. ASSUME NEW m \in reqs, Handler(m)
        PROVE  CountBound'
    <3>1. UNCHANGED <<trace, st, cache>>
      BY <2>4 DEF Handler, GetTimeStamp, GetValueTimeStamp, PutReplica, Handle
    <3>2. m.op \in Op /\ m.to \in Node
      BY Typed DEF IndInv
    <3>3. KeyOf(m.op) \in Key
      BY <1>1, <3>2, CommandType
    <3>4. PICK c, v : /\ resps' = resps \cup {Response(m, c, v)}
                      /\ m.round = "query" => c = kv[m.to][KeyOf(m.op)].clock
      BY <2>4 DEF Handler, GetTimeStamp, GetValueTimeStamp, PutReplica, Handle
    <3>5. Response(m, c, v).clock = c /\ Response(m, c, v).round = m.round
      BY DEF Response
    <3>6. \A r \in resps' : \/ r \in resps \/ r.round # "query"
                            \/ \E n \in Node, k \in Key : r.clock = kv[n][k].clock
      BY <3>2, <3>3, <3>4, <3>5
    <3> QED
      BY <1>3, <3>1, <3>6, CountsKept
  <2>5. CASE UNCHANGED vars \/ \E n \in Node : Stop(n)
    <3>1. UNCHANGED <<trace, st, resps, cache>>
      BY <2>5 DEF vars, Stop
    <3> QED
      BY <1>3, <3>1, CountsKept
  <2> QED
    BY <2>1, <2>2, <2>3, <2>4, <2>5 DEF Next
<1> QED
  BY <1>2, <1>3, OnlyGetTimeStamps

\* A trace with fewer commands than a Count_t has values (2^32) stamps no put
\* with 0, so that the exception in RealTimeOrder and the condition of
\* ReplicasAgree are about longer traces only.
THEOREM ShortRunsNeverWrap == Cardinality(Op) < CountMod => (Spec => []NeverWrapped)
<1> SUFFICES ASSUME Cardinality(Op) < CountMod PROVE Spec => []NeverWrapped
  OBVIOUS
<1>1. Init => CountBound
  BY DEF Init, CountBound, NeverWrapped, StampedPut, Stamped
<1>2. IndInv /\ OriginInv /\ CountBound /\ [Next]_vars => CountBound'
  BY NextCounts
<1>3. CountBound => NeverWrapped
  BY DEF CountBound
<1> QED
  BY <1>1, <1>2, <1>3, OriginInvariance, PTL DEF Spec

\* The conditions of ReplicasAgree hold of servers with one thread that never
\* waits for a buffer, on addresses that end in different octets, for any trace
\* shorter than the counter's range.
THEOREM SingleThreadedReplicasAgree ==
  DistinctIds /\ SingleThreaded /\ Cardinality(Op) < CountMod => (Spec => []ReplicaAgreement)
<1> SUFFICES ASSUME DistinctIds, SingleThreaded, Cardinality(Op) < CountMod
             PROVE  Spec => []ReplicaAgreement
  OBVIOUS
<1>1. Spec => []OneWriter
  BY OneThreadIsOneWriter
<1>2. Spec => []NeverWrapped
  BY ShortRunsNeverWrap
<1> QED
  BY <1>1, <1>2, ReplicasAgree, PTL
----------------------------------------------------------------------------
(* When a counter does come around.  An answer is never ahead of the store *)
(* it came from, so the largest counter that GetTime found, which it adds  *)
(* one to, is still in a store of the group.                               *)

Behind(r) == /\ r.from \in Group[KeyOf(r.op)]
             /\ Leq(r.clock, kv[r.from][KeyOf(r.op)].clock)

AnswersBehind ==
  /\ \A r \in resps : r.round = "query" => Behind(r)
  /\ \A o \in Op : \A r \in cache[o] : Behind(r)

AtLast(k) == \E n \in Group[k] : kv[n][k].clock.count = CountMod - 1

WrapInv ==
  /\ AnswersBehind
  /\ \A o \in Op : StampedPut(o) => /\ stamp[o].count = 0 => AtLast(KeyOf(o))
                                    /\ stamp[o].count = 0 \/ floor[o].count < stamp[o].count

LEMMA StoresGrow ==
  ASSUME IndInv, TypeOK', [Next]_vars
  PROVE  Grows
<1> USE DEF IndInv
<1>1. CASE kv' = kv
  BY <1>1, SameStoreGrows
<1>2. ASSUME NEW o \in Op, LocalPut(o)
      PROVE  Grows
  <2>1. /\ Home(o) \in Node /\ KeyOf(o) \in Key /\ stamp[o] \in Clock
        /\ result[o] \in Value /\ result[o] # NoValue
    BY <1>2, CommandType DEF TypeOK, LocalPut, OperationOK
  <2>2. kv' = [kv EXCEPT ![Home(o)][KeyOf(o)] = Put(@, stamp[o], result[o])]
    BY <1>2 DEF LocalPut
  <2> QED
    BY <2>1, <2>2, PutStep
<1>3. ASSUME NEW m \in reqs, PutReplica(m)
      PROVE  Grows
  <2>1. /\ m.op \in Op /\ m.to \in Node /\ m.clock \in Clock /\ m.val \in Value
    BY Typed
  <2>2. KeyOf(m.op) \in Key /\ m.val # NoValue
    BY <1>3, <2>1, CommandType DEF PutReplica, Messages, RequestOK
  <2>3. kv' = [kv EXCEPT ![m.to][KeyOf(m.op)] = Put(@, m.clock, m.val)]
    BY <1>3 DEF PutReplica
  <2> QED
    BY <2>1, <2>2, <2>3, PutStep
<1>4. \/ kv' = kv
      \/ \E o \in Op : LocalPut(o)
      \/ \E m \in reqs : PutReplica(m)
  <2>1. ASSUME NEW m \in resps, Continuation(m)
        PROVE  kv' = kv
    BY <2>1, ContinuationCommon
  <2>2. ASSUME NEW o \in Op, Start(o) PROVE kv' = kv
    BY <2>2 DEF Start, Benchmark, ClientCall, SendQuery
  <2>3. ASSUME NEW o \in Op, Resume(o), ~LocalPut(o) PROVE kv' = kv
    BY <2>3 DEF Resume, SendPutReplica, WriteBackAndReturn
  <2>4. ASSUME NEW m \in reqs, Handler(m), ~PutReplica(m) PROVE kv' = kv
    BY <2>4 DEF Handler, GetTimeStamp, GetValueTimeStamp
  <2>5. CASE UNCHANGED vars \/ \E n \in Node : Stop(n)
    BY <2>5 DEF vars, Stop
  <2> QED
    BY <2>1, <2>2, <2>3, <2>4, <2>5 DEF Next
<1> QED
  BY <1>1, <1>2, <1>3, <1>4

LEMMA BehindKept ==
  ASSUME TypeOK, TypeOK', Grows, trace' = trace, NEW r \in Resp, Behind(r)
  PROVE  Behind(r)'
<1>1. r.op \in Op /\ r.from \in Node /\ r.clock \in Clock
  BY DEF Resp
<1>2. KeyOf(r.op) \in Key /\ KeyOf(r.op)' = KeyOf(r.op)
  BY <1>1, CommandType DEF KeyOf
<1>3. Leq(r.clock, kv'[r.from][KeyOf(r.op)].clock)
  BY <1>1, <1>2, ReachedKept DEF Behind
<1> QED
  BY <1>2, <1>3 DEF Behind

\* The largest counter stays: nothing of a key is newer but with a larger id.
LEMMA AtLastKept ==
  ASSUME TypeOK, TypeOK', Grows, NEW k \in Key, AtLast(k)
  PROVE  AtLast(k)'
<1>1. PICK n \in Group[k] : kv[n][k].clock.count = CountMod - 1
  BY DEF AtLast
<1>2. n \in Node
  BY Typed
<1>3. kv[n][k].clock \in Clock /\ kv'[n][k].clock \in Clock
  BY <1>2 DEF TypeOK, Entry
<1>4. kv[n][k].clock.count =< kv'[n][k].clock.count
  BY <1>2, <1>3, LeqCount DEF Grows
<1>5. kv'[n][k].clock.count = CountMod - 1
  BY <1>1, <1>3, <1>4, WidthAssumption DEF Clock, Count
<1> QED
  BY <1>5 DEF AtLast

\* GetTime's stamp: the largest counter of its quorum is not below the floor,
\* and comes around to 0 only from the last value.
LEMMA GetTimeWraps ==
  ASSUME IndInv, OriginInv, WrapInv, NEW m \in resps, GetTime(m)
  PROVE  /\ stamp'[m.op].count = 0 => AtLast(KeyOf(m.op))
         /\ stamp'[m.op].count = 0 \/ floor[m.op].count < stamp'[m.op].count
<1> DEFINE o == m.op
           k == KeyOf(o)
<1>1. /\ o \in Op /\ Home(o) \in Node /\ k \in Key /\ m.round = "query"
      /\ Started(o) /\ m.clock \in Clock
  BY Typed, CommandType DEF IndInv, GetTime, Messages, ResponseOK
<1>2. PICK max \in Counts(o, Cached(m)) :
        /\ \A c \in Counts(o, Cached(m)) : c =< max
        /\ stamp'[o] = Stamp(max, MId[Home(o)])
  BY GetTimeStamps
<1>3. max \in Count /\ floor[o] \in Clock /\ kv[Home(o)][k].clock \in Clock
  BY <1>1, <1>2, CountsType, Typed DEF IndInv
<1>4. stamp'[o].count = (max + 1) % CountMod
  BY <1>2 DEF Stamp
<1>5. floor[o].count =< max
  <2>1. /\ kv[Home(o)][k].clock.count =< max
        /\ m.clock.count =< max
    BY <1>2 DEF Counts, Cached
  <2>2. \/ floor[o].count =< kv[Home(o)][k].clock.count
        \/ floor[o].count =< m.clock.count
    BY <1>1, <1>3, QuorumReachesFloor, LeqCount
  <2>3. /\ floor[o].count \in Int /\ m.clock.count \in Int /\ max \in Int
        /\ kv[Home(o)][k].clock.count \in Int
    BY <1>1, <1>3 DEF Clock, Count
  <2> HIDE DEF o, k
  <2> QED
    BY <2>1, <2>2, <2>3
<1>6. CASE max + 1 < CountMod
  <2>1. (max + 1) % CountMod = max + 1
    BY <1>3, <1>6, WidthAssumption DEF Count
  <2> QED
    BY <1>3, <1>4, <1>5, <2>1 DEF Count, Clock
<1>7. CASE max + 1 = CountMod
  <2>1. (max + 1) % CountMod = 0
    BY <1>3, <1>7, WidthAssumption DEF Count
  <2>2. PICK n \in Group[k] : max =< kv[n][k].clock.count
    <3>1. CASE max = kv[Home(o)][k].clock.count
      <4>1. Home(o) \in Group[k]
        BY <1>1 DEF IndInv, OperationOK
      <4> QED
        BY <1>3, <3>1, <4>1 DEF Count
    <3>2. ASSUME NEW r \in Cached(m), max = r.clock.count
          PROVE  \E n \in Group[k] : max =< kv[n][k].clock.count
      <4>1. Behind(r) /\ r.op = o /\ r \in Resp
        BY <1>1, CountsType DEF Cached, WrapInv, AnswersBehind, OriginInv, AnswerOrigin, IndInv, TypeOK
      <4>2. r.from \in Node /\ r.clock \in Clock
        BY <4>1 DEF Resp
      <4>3. kv[r.from][k].clock \in Clock
        BY <1>1, <4>2, Typed DEF IndInv
      <4> QED
        BY <3>2, <4>1, <4>2, <4>3, LeqCount DEF Behind
    <3> QED
      BY <1>2, <3>1, <3>2 DEF Counts
  <2>3. n \in Node
    BY <1>1, Typed DEF IndInv
  <2>4. kv[n][k].clock \in Clock
    BY <1>1, <2>3, Typed DEF IndInv
  <2>5. kv[n][k].clock.count = CountMod - 1
    BY <1>3, <1>7, <2>2, <2>4, WidthAssumption DEF Clock, Count
  <2> QED
    BY <1>4, <2>1, <2>5 DEF AtLast
<1> QED
  BY <1>3, <1>6, <1>7, WidthAssumption DEF Count

LEMMA NextAnswersBehind ==
  ASSUME IndInv, IndInv', OriginInv, AnswersBehind, [Next]_vars
  PROVE  AnswersBehind'
<1>1. TypeOK /\ TypeOK' /\ Grows
  BY StoresGrow DEF IndInv
<1>2. trace' = trace
  BY OnlyGetTimeStamps, GetTimeStamps DEF NoNewStamp
<1>3. /\ \A r \in resps : r \in Resp /\ (r.round = "query" => Behind(r)')
      /\ \A o \in Op : \A r \in cache[o] : Behind(r)'
  BY <1>1, <1>2, BehindKept DEF AnswersBehind, TypeOK
<1>4. CASE resps' = resps /\ cache' = cache
  BY <1>3, <1>4 DEF AnswersBehind
<1>5. ASSUME NEW m \in reqs, Handler(m)
      PROVE  AnswersBehind'
  <2>1. /\ m.op \in Op /\ m.to \in Node /\ m.to \in Group[KeyOf(m.op)] /\ KeyOf(m.op) \in Key
    BY Typed, CommandType DEF IndInv, Messages, RequestOK, Replicas
  <2>2. PICK c, v : /\ resps' = resps \cup {Response(m, c, v)} /\ cache' = cache
                    /\ m.round = "query" => c = kv[m.to][KeyOf(m.op)].clock
    BY <1>5 DEF Handler, GetTimeStamp, GetValueTimeStamp, PutReplica, Handle
  <2>3. ASSUME m.round = "query"
        PROVE  Behind(Response(m, c, v))'
    <3>1. Leq(c, kv'[m.to][KeyOf(m.op)].clock)
      BY <1>1, <2>1, <2>2, <2>3 DEF Grows
    <3> QED
      BY <1>2, <2>1, <3>1 DEF Behind, Response, KeyOf
  <2>4. Response(m, c, v).round = m.round
    BY DEF Response
  <2> QED
    BY <1>3, <2>2, <2>3, <2>4 DEF AnswersBehind
<1>6. ASSUME NEW m \in resps, Continuation(m)
      PROVE  AnswersBehind'
  <2>1. resps' \subseteq resps
    BY <1>6, ContinuationCommon
  <2>2. \A p \in Op : \A r \in cache'[p] : r \in cache[p] \/ (r = m /\ m.round = "query")
    BY <1>6, ContinuationFlags
  <2> QED
    BY <1>3, <2>1, <2>2 DEF AnswersBehind
<1>7. ASSUME NEW o \in Op, Start(o) \/ Resume(o)
      PROVE  resps' = resps /\ cache' = cache
  BY <1>7 DEF Start, Benchmark, ClientCall, SendQuery, Resume, SendPutReplica, LocalPut,
              WriteBackAndReturn
<1>8. CASE UNCHANGED vars \/ \E n \in Node : Stop(n)
  BY <1>4, <1>8 DEF vars, Stop
<1> QED
  BY <1>4, <1>5, <1>6, <1>7, <1>8 DEF Next

LEMMA NextWraps ==
  ASSUME IndInv, IndInv', OriginInv, WrapInv, [Next]_vars
  PROVE  WrapInv'
<1>1. TypeOK /\ TypeOK' /\ Grows
  BY StoresGrow DEF IndInv
<1>2. AnswersBehind'
  BY NextAnswersBehind DEF WrapInv
<1>3. \A o \in Op : KeyOf(o) \in Key /\ (AtLast(KeyOf(o)) => AtLast(KeyOf(o))')
  <2>1. trace' = trace
    BY OnlyGetTimeStamps, GetTimeStamps DEF NoNewStamp
  <2>2. \A k \in Key : AtLast(k) => AtLast(k)'
    BY <1>1, AtLastKept
  <2> QED
    BY <1>1, <2>1, <2>2, CommandType DEF AtLast, KeyOf
<1>4. CASE NoNewStamp
  BY <1>2, <1>3, <1>4 DEF WrapInv, NoNewStamp
<1>5. ASSUME NEW m \in resps, GetTime(m)
      PROVE  WrapInv'
  <2>1. /\ m.op \in Op /\ UNCHANGED <<trace, floor>>
        /\ \A p \in Op : p # m.op => st'[p] = st[p] /\ stamp'[p] = stamp[p]
    BY <1>5, GetTimeStamps
  <2>2. \A p \in Op : p # m.op => (StampedPut(p)' <=> StampedPut(p))
    BY <2>1 DEF StampedPut
  <2>3. /\ stamp'[m.op].count = 0 => AtLast(KeyOf(m.op))
        /\ stamp'[m.op].count = 0 \/ floor'[m.op].count < stamp'[m.op].count
    BY <1>5, <2>1, GetTimeWraps
  <2> QED
    BY <1>2, <1>3, <2>1, <2>2, <2>3 DEF WrapInv
<1> QED
  BY <1>4, <1>5, OnlyGetTimeStamps

\* A put whose counter came around in Count_t (protocol.h:473) meets a store of
\* its group that keeps the largest counter for good (KV_store::put never goes
\* back), and once a put with that counter returned every later one is so.
THEOREM WrappedKeysAreFinal == Spec => []WrapIsFinal
<1>1. Init => WrapInv
  BY DEF Init, WrapInv, AnswersBehind, StampedPut, Stamped
<1>2. IndInv /\ IndInv' /\ OriginInv /\ WrapInv /\ [Next]_vars => WrapInv'
  BY NextWraps
<1>3. IndInv /\ WrapInv => WrapIsFinal
  <2> SUFFICES ASSUME IndInv, WrapInv, NEW o \in Op, StampedPut(o)
               PROVE  /\ stamp[o].count = 0 => AtLast(KeyOf(o))
                      /\ floor[o].count = CountMod - 1 => stamp[o].count = 0
    BY DEF WrapIsFinal, AtLast, StampedPut, Stamped
  <2>1. stamp[o].count \in Count /\ floor[o].count \in Count
    BY Typed DEF IndInv, Clock
  <2> QED
    BY <2>1, WidthAssumption DEF WrapInv, Count
<1> QED
  BY <1>1, <1>2, <1>3, OriginInvariance, PTL DEF Spec
============================================================================
