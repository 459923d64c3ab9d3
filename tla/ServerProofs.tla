---------------------------- MODULE ServerProofs ----------------------------
(***************************************************************************)
(* A thread that left is needed by nobody, for every number of machines    *)
(* and threads and every trace, as long as the sessions of a machine's     *)
(* threads end in different threads.                                       *)
(***************************************************************************)
EXTENDS Server, FiniteSetTheorems, TLAPS

\* The last octet of an address stands in for the number of threads
\* (get_n_threads_from_svr_info); as long as no octet is below that number,
\* thread i is connected to thread i of every other machine.
Spread == \A m \in Machine : Octet[m] >= NThread

----------------------------------------------------------------------------
(* The inductive invariant.                                                *)

Types ==
  /\ phase \in [Thread -> Phases]
  /\ begin \in [Thread -> Nat]
  /\ left \in [Command -> Nat]
  /\ DOMAIN session = Thread
  /\ other_finished \in [Thread -> Nat]
  /\ done \subseteq {<<t, m>> : t \in Thread, m \in Machine}

\* Past the connections, and past the last answer.
Connected(t) == phase[t] \in {"bench", "barrier", "left"}
Ended(t) == phase[t] \in {"barrier", "left"}

\* The sessions a thread has end where ABD::init connected them to.
Sessions ==
  \A t \in Thread : /\ DOMAIN session[t] \subseteq Others(t)
                    /\ \A m \in DOMAIN session[t] : session[t][m] = Target(t, m)
                    /\ Connected(t) => DOMAIN session[t] = Others(t)

\* begin is in the thread's own part of the trace.
OwnPart == \A t \in Thread : t[2] * step_size < begin[t]

\* A thread that sent its DONE has issued and got back everything.
EndedIsFinished ==
  \A t \in Thread : Ended(t) => /\ begin[t] > End(t)
                                /\ \A c \in Command : ThreadOf(c) = t => left[c] = 0

\* A DONE is under way only from one that sent it, to another machine.
DoneWasSent == \A t \in Thread, m \in Machine : <<t, m>> \in done => Ended(t) /\ m \in Others(t)

\* The threads connected to t, and those of them whose DONE reached t.
Peers(t) == {u \in Thread : MachineOf(u) # MachineOf(t) /\ u[2] = t[2]}
Heard(t) == {u \in Peers(t) : Ended(u) /\ <<u, MachineOf(t)>> \notin done}

\* Nobody counts a DONE twice, or one that was not sent.
CountsHeard == \A t \in Thread : other_finished[t] =< Cardinality(Heard(t))

LeftHeardAll == \A t \in Thread : phase[t] = "left" => other_finished[t] >= Cardinality(Others(t))

EndInv == /\ Types /\ Sessions /\ OwnPart /\ EndedIsFinished /\ DoneWasSent
          /\ CountsHeard /\ LeftHeardAll

----------------------------------------------------------------------------
(* Facts about threads and their parts of the trace.                       *)

LEMMA SmallestMachine ==
  ASSUME NEW S \in SUBSET Machine, S # {}
  PROVE  Min(S) \in S
<1>1. S \subseteq Nat
  BY MachineAssumption
<1>2. PICK R : R = {p \in Nat \X Nat : p[1] < p[2]}
  OBVIOUS
<1>3. IsWellFoundedOn(R, Nat)
  BY <1>2, NatLessThanWellFounded, Zenon DEF OpToRel
<1>4. PICK x \in S : \A y \in S : ~ (<<y, x>> \in R)
  BY <1>1, <1>3, WFMin
<1>5. ASSUME NEW y \in S, y < x PROVE <<y, x>> \in R
  <2>1. <<y, x>> \in Nat \X Nat /\ <<y, x>>[1] < <<y, x>>[2]
    BY <1>1, <1>5
  <2> QED
    BY <1>2, <2>1, Zenon
<1>6. \A y \in S : x =< y
  <2> SUFFICES ASSUME NEW y \in S PROVE x =< y
    OBVIOUS
  <2>1. x \in Nat /\ y \in Nat
    BY <1>1
  <2>2. ~(y < x)
    BY <1>4, <1>5
  <2> QED
    BY <2>1, <2>2
<1> QED
  BY <1>6 DEF Min

\* create_threads: every thread has at least one command.
LEMMA StepSize == step_size \in Nat \ {0}
<1>1. NCmds \in Nat /\ NThread \in Nat \ {0} /\ NCmds >= NThread
  BY MachineAssumption, TraceAssumption
<1> QED
  BY <1>1 DEF step_size

\* The parts of the trace do not overlap.
LEMMA PartOf ==
  ASSUME NEW s \in Nat \ {0}, NEW b \in Nat, NEW x \in Nat, b * s < x, x =< (b + 1) * s
  PROVE  (x - 1) \div s = b
<1>1. PICK y \in Nat : y = x - 1
  BY SMT
<1>2. PICK r \in Nat : y = b * s + r /\ r < s
  <2>1. PICK p \in Nat : p = b * s
    BY SMT
  <2>2. (b + 1) * s = p + s
    BY <2>1
  <2>3. p =< y /\ y < p + s
    BY <1>1, <2>1, <2>2
  <2>4. y - p \in Nat /\ y - p < s /\ y = p + (y - p)
    BY <1>1, <2>1, <2>3
  <2> QED
    BY <2>1, <2>4
<1>3. y \div s = b
  BY <1>2
<1> QED
  BY <1>1, <1>3

LEMMA CountUp ==
  ASSUME NEW S, NEW f \in [S -> Nat], NEW u
  PROVE  [f EXCEPT ![u] = @ + 1] \in [S -> Nat]
<1>1. \A x \in S : (IF x = u THEN f[x] + 1 ELSE f[x]) \in Nat
  OBVIOUS
<1>2. [f EXCEPT ![u] = @ + 1] = [x \in S |-> IF x = u THEN f[x] + 1 ELSE f[x]]
  BY Zenon
<1> QED
  BY <1>1, <1>2

LEMMA ThreadPair ==
  ASSUME NEW t \in Thread
  PROVE  /\ t = <<t[1], t[2]>> /\ t[1] \in Machine /\ t[2] \in 0 .. NThread - 1
         /\ t[2] \in Nat
  BY MachineAssumption DEF Thread

\* A command belongs to the thread that issues it.
LEMMA IssuedByOwner ==
  ASSUME NEW t \in Thread, NEW x \in Nat, t[2] * step_size < x, x =< End(t)
  PROVE  ThreadOf(<<MachineOf(t), x>>) = t
<1>1. (x - 1) \div step_size = t[2]
  <2>1. x =< (t[2] + 1) * step_size
    BY DEF End
  <2>2. t[2] \in Nat
    BY ThreadPair
  <2> QED
    BY <2>1, <2>2, StepSize, PartOf
<1>2. ThreadOf(<<MachineOf(t), x>>) = <<t[1], (x - 1) \div step_size>>
  BY DEF ThreadOf, MachineOf
<1> QED
  BY <1>1, <1>2, ThreadPair

\* Where a session of a thread ends.
LEMMA TargetIsPeer ==
  ASSUME Spread, NEW t \in Thread, NEW m \in Machine
  PROVE  Target(t, m) = <<m, t[2]>> /\ <<m, t[2]>> \in Thread
<1>1. t[2] \in 0 .. NThread - 1 /\ NThread \in Nat /\ Octet[m] \in Nat /\ Octet[m] >= NThread
  BY ThreadPair, MachineAssumption DEF Spread
<1>2. t[2] % Octet[m] = t[2]
  BY <1>1
<1> QED
  BY <1>1, <1>2 DEF Target, get_n_threads_from_svr_info, Thread

\* One peer on every other machine.
LEMMA PeersAreFew ==
  ASSUME NEW t \in Thread
  PROVE  /\ IsFiniteSet(Others(t)) /\ IsFiniteSet(Peers(t))
         /\ Cardinality(Peers(t)) =< Cardinality(Others(t))
         /\ Cardinality(Others(t)) \in Nat /\ Cardinality(Peers(t)) \in Nat
<1>1. IsFiniteSet(Others(t))
  BY MachineAssumption, FS_Subset DEF Others
<1>2. PICK f : f = [u \in Peers(t) |-> u[1]]
  OBVIOUS
<1>3. f \in [Peers(t) -> Others(t)]
  BY <1>2, ThreadPair DEF Peers, Others, MachineOf
<1>4. ASSUME NEW u \in Peers(t), NEW v \in Peers(t), f[u] = f[v]
      PROVE  u = v
  <2>1. u \in Thread /\ v \in Thread /\ u[1] = v[1] /\ u[2] = v[2]
    BY <1>2, <1>4 DEF Peers
  <2> QED
    BY <2>1, ThreadPair
<1>5. f \in Injection(Peers(t), Others(t))
  BY <1>3, <1>4 DEF Injection, IsInjective
<1> QED
  BY <1>1, <1>5, FS_Injection, FS_CardinalityType

----------------------------------------------------------------------------
(* The invariant holds at first.                                           *)

LEMMA EndInit == ASSUME Init PROVE EndInv
<1> USE DEF Init
<1>1. Types
  <2>1. ASSUME NEW t \in Thread PROVE t[2] * step_size + 1 \in Nat
    <3>1. t[2] \in Nat /\ step_size \in Nat
      BY ThreadPair, StepSize
    <3> QED
      BY <3>1
  <2> QED
    BY <2>1 DEF Types, Phases
<1>2. Sessions
  BY DEF Sessions, Connected
<1>3. OwnPart
  <2> SUFFICES ASSUME NEW t \in Thread PROVE t[2] * step_size < t[2] * step_size + 1
    BY DEF OwnPart
  <2>1. t[2] * step_size \in Nat
    BY ThreadPair, StepSize
  <2> QED
    BY <2>1
<1>4. EndedIsFinished /\ DoneWasSent /\ LeftHeardAll
  BY DEF EndedIsFinished, DoneWasSent, LeftHeardAll, Ended
<1>5. CountsHeard
  <2> SUFFICES ASSUME NEW t \in Thread PROVE 0 =< Cardinality(Heard(t))
    BY DEF CountsHeard
  <2>1. Heard(t) \in SUBSET Peers(t)
    BY DEF Heard
  <2> QED
    BY <2>1, PeersAreFew, FS_Subset, FS_CardinalityType
<1> QED
  BY <1>1, <1>2, <1>3, <1>4, <1>5 DEF EndInv

----------------------------------------------------------------------------
(* Every step keeps it.  First what concerns a thread's own part of the    *)
(* trace and its sessions.                                                 *)

LEMMA TypesKept == ASSUME EndInv, Next PROVE Types'
<1> USE DEF EndInv, Types
<1>1. ASSUME NEW t \in Thread, Step(t) PROVE Types'
  <2>1. CASE Create(t) \/ Begin(t) \/ Leave(t)
    BY <2>1 DEF Create, Begin, Leave, Phases
  <2>2. CASE Connect(t)
    BY <2>2 DEF Connect
  <2>3. CASE Issue(t)
    <3>1. begin' \in [Thread -> Nat] /\ UNCHANGED <<phase, session, done, other_finished>>
      BY <2>3 DEF Issue
    <3>2. left' \in [Command -> Nat]
      BY <2>3 DEF Issue
    <3> QED
      BY <3>1, <3>2
  <2>4. CASE SendDone(t)
    BY <2>4 DEF SendDone, Phases, Others
  <2> QED
    BY <1>1, <2>1, <2>2, <2>3, <2>4 DEF Step
<1>2. ASSUME NEW c \in Command, Answer(c) PROVE Types'
  <2>1. left[c] - 1 \in Nat
    BY <1>2 DEF Answer
  <2> QED
    BY <1>2, <2>1 DEF Answer
<1>3. ASSUME NEW c \in Command, NEW m \in Machine, Serve(c, m) PROVE Types'
  BY <1>3 DEF Serve
<1>4. ASSUME NEW t \in Thread, NEW m \in Machine, CmdHandler(t, m) PROVE Types'
  <2>1. PICK u : u = session[t][m]
    OBVIOUS
  <2>2. /\ UNCHANGED <<phase, session, begin, left>> /\ done' \subseteq done
        /\ other_finished' = [other_finished EXCEPT ![u] = @ + 1]
    BY <1>4, <2>1 DEF CmdHandler
  <2>3. other_finished' \in [Thread -> Nat]
    BY <2>2, CountUp
  <2> QED
    BY <2>2, <2>3
<1>5. ASSUME NEW t \in Thread, NEW m \in Machine, CmdRet(t, m) PROVE Types'
  BY <1>5 DEF CmdRet
<1> QED
  BY <1>1, <1>2, <1>3, <1>4, <1>5 DEF Next

\* Nobody but Connect makes a session, and it is the one ABD::init asks for.
LEMMA SessionsKept == ASSUME EndInv, Next PROVE Sessions'
<1> USE DEF EndInv
<1>1. ASSUME UNCHANGED session,
             \A t \in Thread : Connected(t)' => Connected(t) \/ DOMAIN session[t] = Others(t)
      PROVE  Sessions'
  BY <1>1 DEF Sessions, Others, MachineOf, Target
<1>2. ASSUME NEW t \in Thread, Connect(t) PROVE Sessions'
  <2>1. PICK m : m = Min(Others(t) \ DOMAIN session[t])
    OBVIOUS
  <2>2. m \in Others(t)
    <3>1. Others(t) \ DOMAIN session[t] \in SUBSET Machine
      BY DEF Others
    <3>2. Others(t) \ DOMAIN session[t] # {}
      BY <1>2 DEF Connect, Sessions
    <3> QED
      BY <2>1, <3>1, <3>2, SmallestMachine
  <2>3. session' = [session EXCEPT ![t] = [n \in DOMAIN session[t] \cup {m} |->
                      IF n = m THEN Target(t, m) ELSE session[t][n]]]
        /\ phase' = phase /\ phase[t] = "init"
    BY <1>2, <2>1 DEF Connect
  <2> SUFFICES ASSUME NEW u \in Thread
               PROVE  /\ DOMAIN session'[u] \subseteq Others(u)
                      /\ \A n \in DOMAIN session'[u] : session'[u][n] = Target(u, n)
                      /\ Connected(u) => DOMAIN session'[u] = Others(u)
    BY <2>3 DEF Sessions, Connected, Others, MachineOf, Target
  <2>4. CASE u # t
    BY <2>3, <2>4 DEF Sessions, Types
  <2>5. CASE u = t
    <3>1. session'[t] = [n \in DOMAIN session[t] \cup {m} |->
                           IF n = m THEN Target(t, m) ELSE session[t][n]]
      BY <2>3 DEF Types
    <3>2. ~ Connected(t)
      BY <2>3 DEF Connected
    <3> QED
      BY <2>2, <2>5, <3>1, <3>2 DEF Sessions
  <2> QED
    BY <2>4, <2>5
<1>3. ASSUME NEW t \in Thread, Step(t), ~ Connect(t) PROVE Sessions'
  <2>1. UNCHANGED session
    BY <1>3 DEF Step, Create, Begin, Issue, SendDone, Leave
  <2>2. ASSUME NEW u \in Thread, Connected(u)' PROVE Connected(u) \/ DOMAIN session[u] = Others(u)
    BY <1>3, <2>2 DEF Step, Create, Begin, Issue, SendDone, Leave, Connected, Types
  <2> QED
    BY <1>1, <2>1, <2>2
<1>4. ASSUME UNCHANGED <<phase, session>> PROVE Sessions'
  BY <1>1, <1>4 DEF Connected
<1>5. ASSUME NEW c \in Command, NEW m \in Machine, Answer(c) \/ Serve(c, m) PROVE Sessions'
  BY <1>4, <1>5 DEF Answer, Serve
<1>6. ASSUME NEW t \in Thread, NEW m \in Machine, CmdHandler(t, m) \/ CmdRet(t, m)
      PROVE  Sessions'
  BY <1>4, <1>6 DEF CmdHandler, CmdRet
<1>7. ASSUME NEW c \in Command, Answer(c) PROVE Sessions'
  BY <1>4, <1>7 DEF Answer
<1> QED
  BY <1>2, <1>3, <1>5, <1>6, <1>7 DEF Next

\* A command is issued by its own thread, before that sends its DONE, and an
\* operation that has returned never starts again.
LEMMA EndedKept == ASSUME EndInv, Next PROVE OwnPart' /\ EndedIsFinished'
<1> USE DEF EndInv
<1>1. ASSUME UNCHANGED begin, \A t \in Thread : Ended(t)' => Ended(t),
             left' \in [Command -> Nat], \A c \in Command : left'[c] =< left[c]
      PROVE  OwnPart' /\ EndedIsFinished'
  <2>1. OwnPart'
    BY <1>1 DEF OwnPart
  <2>2. ASSUME NEW t \in Thread, Ended(t)', NEW c \in Command, ThreadOf(c) = t
        PROVE  left'[c] = 0
    <3>1. left[c] = 0 /\ left'[c] \in Nat
      BY <1>1, <2>2 DEF EndedIsFinished
    <3> QED
      BY <1>1, <3>1
  <2> QED
    BY <1>1, <2>1, <2>2 DEF EndedIsFinished
<1>2. \A c \in Command : left[c] =< left[c]
  BY DEF Types
<1>3. ASSUME NEW t \in Thread, Create(t) \/ Connect(t) \/ Begin(t) \/ Leave(t)
      PROVE  OwnPart' /\ EndedIsFinished'
  <2>1. UNCHANGED <<begin, left>>
    BY <1>3 DEF Create, Connect, Begin, Leave
  <2>2. \A u \in Thread : Ended(u)' => Ended(u)
    BY <1>3 DEF Create, Connect, Begin, Leave, Ended, Types
  <2> QED
    BY <1>1, <1>2, <2>1, <2>2 DEF Types
<1>4. ASSUME NEW t \in Thread, Issue(t) PROVE OwnPart' /\ EndedIsFinished'
  <2>1. PICK c : c = <<MachineOf(t), begin[t]>>
    OBVIOUS
  <2>2. ThreadOf(c) = t
    BY <1>4, <2>1, IssuedByOwner DEF Issue, OwnPart, Types
  <2>3. /\ phase' = phase /\ ~ Ended(t) /\ begin' = [begin EXCEPT ![t] = @ + 1]
        /\ \A d \in Command : d # c => left'[d] = left[d]
    BY <1>4, <2>1 DEF Issue, Types, Ended
  <2>4. OwnPart'
    <3> SUFFICES ASSUME NEW u \in Thread PROVE u[2] * step_size < begin'[u]
      BY DEF OwnPart
    <3>1. u[2] * step_size < begin[u] /\ u[2] * step_size \in Nat /\ begin[u] \in Nat
      BY ThreadPair, StepSize DEF OwnPart, Types
    <3>2. begin'[u] \in {begin[u], begin[u] + 1}
      BY <2>3 DEF Types
    <3> QED
      BY <3>1, <3>2
  <2>5. EndedIsFinished'
    <3> SUFFICES ASSUME NEW u \in Thread, Ended(u)
                 PROVE  begin'[u] > End(u) /\ \A d \in Command : ThreadOf(d) = u => left'[d] = 0
      BY <2>3 DEF EndedIsFinished, Ended
    <3>1. u # t
      BY <2>3
    <3> QED
      BY <2>2, <2>3, <3>1 DEF EndedIsFinished, Types
  <2> QED
    BY <2>4, <2>5
<1>5. ASSUME NEW t \in Thread, SendDone(t) PROVE OwnPart' /\ EndedIsFinished'
  <2>1. UNCHANGED <<begin, left>> /\ begin[t] > End(t) /\ phase' = [phase EXCEPT ![t] = "barrier"]
    BY <1>5 DEF SendDone
  <2>2. ASSUME NEW c \in Command, ThreadOf(c) = t PROVE left[c] = 0
    <3>1. PICK S : S = {d \in Command : left[d] > 0 /\ ThreadOf(d) = t}
      OBVIOUS
    <3>2. Cardinality(S) = 0
      BY <1>5, <3>1 DEF SendDone, current_traces
    <3>3. IsFiniteSet(S)
      <4>1. IsFiniteSet(1 .. NCmds) /\ IsFiniteSet(Machine)
        BY MachineAssumption, TraceAssumption, FS_Interval
      <4>2. IsFiniteSet(Command)
        BY <4>1, FS_Product, Zenon DEF Command
      <4> QED
        BY <3>1, <4>2, FS_Subset
    <3>4. S = {}
      BY <3>2, <3>3, FS_EmptySet
    <3> QED
      BY <2>2, <3>1, <3>4 DEF Types
  <2>3. OwnPart'
    BY <2>1 DEF OwnPart
  <2>4. EndedIsFinished'
    <3> SUFFICES ASSUME NEW u \in Thread, Ended(u)'
                 PROVE  begin[u] > End(u) /\ \A d \in Command : ThreadOf(d) = u => left[d] = 0
      BY <2>1 DEF EndedIsFinished
    <3>1. CASE u = t
      BY <2>1, <2>2, <3>1
    <3>2. CASE u # t
      BY <2>1, <3>2 DEF EndedIsFinished, Ended, Types
    <3> QED
      BY <3>1, <3>2
  <2> QED
    BY <2>3, <2>4
<1>6. ASSUME NEW c \in Command, Answer(c) PROVE OwnPart' /\ EndedIsFinished'
  <2>1. UNCHANGED <<begin, phase>> /\ left' = [left EXCEPT ![c] = @ - 1] /\ left[c] > 0
    BY <1>6 DEF Answer
  <2>2. left[c] - 1 \in Nat /\ left[c] - 1 =< left[c]
    BY <2>1 DEF Types
  <2>3. left' \in [Command -> Nat] /\ \A d \in Command : left'[d] =< left[d]
    BY <1>2, <2>1, <2>2 DEF Types
  <2> QED
    BY <1>1, <2>1, <2>3 DEF Ended
<1>7. ASSUME UNCHANGED <<begin, phase, left>> PROVE OwnPart' /\ EndedIsFinished'
  BY <1>1, <1>2, <1>7 DEF Ended, Types
<1>8. ASSUME NEW c \in Command, NEW m \in Machine, Serve(c, m) PROVE OwnPart' /\ EndedIsFinished'
  BY <1>7, <1>8 DEF Serve
<1>9. ASSUME NEW t \in Thread, NEW m \in Machine, CmdHandler(t, m) \/ CmdRet(t, m)
      PROVE  OwnPart' /\ EndedIsFinished'
  BY <1>7, <1>9 DEF CmdHandler, CmdRet
<1> QED
  BY <1>3, <1>4, <1>5, <1>6, <1>8, <1>9 DEF Next, Step

----------------------------------------------------------------------------
(* What concerns the DONE of a thread and its count at the others.         *)

\* A thread hears at most its peers.
LEMMA HeardIsSmall ==
  ASSUME NEW t \in Thread
  PROVE  /\ IsFiniteSet(Heard(t)) /\ Cardinality(Heard(t)) \in Nat
         /\ Cardinality(Heard(t)) =< Cardinality(Peers(t))
         /\ Cardinality(Heard(t)) = Cardinality(Peers(t)) => Heard(t) = Peers(t)
<1>1. Heard(t) \in SUBSET Peers(t)
  BY DEF Heard
<1> QED
  BY <1>1, PeersAreFew, FS_Subset, FS_CardinalityType

\* Steps that neither send nor handle a DONE.
LEMMA HeardSame ==
  ASSUME EndInv, UNCHANGED <<done, other_finished>>, \A t \in Thread : Ended(t)' <=> Ended(t)
  PROVE  DoneWasSent' /\ CountsHeard'
<1> USE DEF EndInv
<1>1. DoneWasSent'
  BY DEF DoneWasSent, Others, MachineOf
<1>2. ASSUME NEW t \in Thread PROVE Heard(t)' = Heard(t)
  BY DEF Heard, Peers, MachineOf
<1>3. CountsHeard'
  BY <1>2 DEF CountsHeard
<1> QED
  BY <1>1, <1>3

\* The DONE of t reaches its session's other end, which has not heard it yet.
LEMMA HandlerHears ==
  ASSUME Spread, EndInv, NEW t \in Thread, NEW m \in Machine, CmdHandler(t, m)
  PROVE  DoneWasSent' /\ CountsHeard'
<1> USE DEF EndInv
<1>1. Ended(t) /\ m \in Others(t)
  BY DEF CmdHandler, DoneWasSent
<1>2. PICK u : u = <<m, t[2]>>
  OBVIOUS
<1>3. u \in Thread /\ session[t][m] = u
  BY <1>1, <1>2, TargetIsPeer DEF Sessions, Connected, Ended
<1>4. /\ <<t, m>> \in done /\ done' = done \ {<<t, m>>} /\ phase' = phase
      /\ other_finished' = [other_finished EXCEPT ![u] = @ + 1]
  BY <1>3 DEF CmdHandler
<1>5. DoneWasSent'
  BY <1>4 DEF DoneWasSent, Ended, Others, MachineOf
<1>6. ASSUME NEW v \in Thread PROVE other_finished'[v] =< Cardinality(Heard(v))'
  <2>1. CASE v = u
    <3>1. Heard(u)' = Heard(u) \cup {t}
      <4>1. t \in Peers(u) /\ MachineOf(u) = m /\ Peers(u)' = Peers(u)
        BY <1>1, <1>2, <1>3 DEF Peers, Others, MachineOf
      <4>2. \A w \in Peers(u) : (<<w, m>> \in done' <=> <<w, m>> \in done /\ w # t) /\ (Ended(w)' <=> Ended(w))
        BY <1>4 DEF Ended
      <4>3. MachineOf(u)' = m
        BY <4>1 DEF MachineOf
      <4> QED
        BY <1>1, <4>1, <4>2, <4>3 DEF Heard
    <3>2. t \notin Heard(u)
      <4>1. MachineOf(u) = m
        BY <1>2 DEF MachineOf
      <4> QED
        BY <1>4, <4>1 DEF Heard
    <3>3. Cardinality(Heard(u) \cup {t}) = Cardinality(Heard(u)) + 1
      BY <1>3, <3>2, HeardIsSmall, FS_AddElement
    <3>4. other_finished'[u] = other_finished[u] + 1
      BY <1>3, <1>4 DEF Types
    <3>5. other_finished[u] =< Cardinality(Heard(u)) /\ other_finished[u] \in Nat
      BY <1>3 DEF CountsHeard, Types
    <3>6. Cardinality(Heard(u)) \in Nat
      BY <1>3, HeardIsSmall
    <3>7. Cardinality(Heard(u))' = Cardinality(Heard(u)) + 1
      BY <3>1, <3>3
    <3> QED
      BY <2>1, <3>4, <3>5, <3>6, <3>7
  <2>2. CASE v # u
    <3>1. Heard(v)' = Heard(v)
      <4>1. \A w \in Peers(v) : <<w, MachineOf(v)>> # <<t, m>>
        <5> SUFFICES ASSUME t \in Peers(v), MachineOf(v) = m PROVE FALSE
          OBVIOUS
        <5>1. v[1] = m /\ v[2] = t[2]
          BY DEF Peers, MachineOf
        <5> QED
          BY <1>2, <2>2, <5>1, ThreadPair
      <4>2. \A w \in Peers(v) : (<<w, MachineOf(v)>> \in done' <=> <<w, MachineOf(v)>> \in done)
                                /\ (Ended(w)' <=> Ended(w))
        BY <1>4, <4>1 DEF Ended
      <4>3. MachineOf(v)' = MachineOf(v) /\ Peers(v)' = Peers(v)
        BY DEF MachineOf, Peers
      <4> QED
        BY <4>2, <4>3 DEF Heard
    <3>2. other_finished'[v] = other_finished[v]
      BY <1>4, <2>2 DEF Types
    <3> QED
      BY <3>1, <3>2 DEF CountsHeard
  <2> QED
    BY <2>1, <2>2
<1> QED
  BY <1>5, <1>6 DEF CountsHeard

\* A DONE that was just sent has not been heard.
LEMMA SentIsNotHeard ==
  ASSUME EndInv, NEW t \in Thread, SendDone(t)
  PROVE  DoneWasSent' /\ CountsHeard'
<1> USE DEF EndInv
<1>1. /\ phase[t] = "bench" /\ phase' = [phase EXCEPT ![t] = "barrier"]
      /\ done' = done \cup {<<t, m>> : m \in Others(t)} /\ UNCHANGED other_finished
  BY DEF SendDone
<1>2. ~ Ended(t) /\ Ended(t)' /\ \A u \in Thread : u # t => (Ended(u)' <=> Ended(u))
  BY <1>1 DEF Ended, Types
<1>3. DoneWasSent'
  BY <1>1, <1>2 DEF DoneWasSent, Others, MachineOf
<1>4. ASSUME NEW v \in Thread PROVE Heard(v)' = Heard(v)
  <2>1. MachineOf(v)' = MachineOf(v) /\ Peers(v)' = Peers(v)
    BY DEF MachineOf, Peers
  <2>2. \A w \in Peers(v) : w # t => (<<w, MachineOf(v)>> \in done' <=> <<w, MachineOf(v)>> \in done)
                                      /\ (Ended(w)' <=> Ended(w))
    BY <1>1, <1>2 DEF Peers
  <2>3. t \in Peers(v) => <<t, MachineOf(v)>> \in done'
    <3> SUFFICES ASSUME t \in Peers(v) PROVE MachineOf(v) \in Others(t)
      BY <1>1
    <3> QED
      BY ThreadPair DEF Peers, Others, MachineOf
  <2> QED
    BY <1>2, <2>1, <2>2, <2>3 DEF Heard
<1> QED
  BY <1>1, <1>3, <1>4 DEF CountsHeard

LEMMA HeardKept == ASSUME Spread, EndInv, Next PROVE DoneWasSent' /\ CountsHeard'
<1>1. ASSUME NEW t \in Thread, Create(t) \/ Connect(t) \/ Begin(t) \/ Issue(t) \/ Leave(t)
      PROVE  DoneWasSent' /\ CountsHeard'
  <2>1. UNCHANGED <<done, other_finished>>
    BY <1>1 DEF Create, Connect, Begin, Issue, Leave
  <2>2. \A u \in Thread : Ended(u)' <=> Ended(u)
    BY <1>1 DEF Create, Connect, Begin, Issue, Leave, Ended, EndInv, Types
  <2> QED
    BY <2>1, <2>2, HeardSame
<1>2. ASSUME UNCHANGED <<done, other_finished, phase>> PROVE DoneWasSent' /\ CountsHeard'
  BY <1>2, HeardSame DEF Ended
<1>3. ASSUME NEW c \in Command, Answer(c) PROVE DoneWasSent' /\ CountsHeard'
  BY <1>2, <1>3 DEF Answer
<1>4. ASSUME NEW c \in Command, NEW m \in Machine, Serve(c, m) PROVE DoneWasSent' /\ CountsHeard'
  BY <1>2, <1>4 DEF Serve
<1>5. ASSUME NEW t \in Thread, NEW m \in Machine, CmdRet(t, m) PROVE DoneWasSent' /\ CountsHeard'
  BY <1>2, <1>5 DEF CmdRet
<1> QED
  BY <1>1, <1>3, <1>4, <1>5, SentIsNotHeard, HandlerHears DEF Next, Step

\* A count never falls, and whoever leaves has waited for it.
LEMMA LeftKept == ASSUME EndInv, Next PROVE LeftHeardAll'
<1> USE DEF EndInv
<1>1. ASSUME \A t \in Thread : other_finished'[t] >= other_finished[t],
             Types',
             \A t \in Thread : phase'[t] = "left" =>
               phase[t] = "left" \/ other_finished[t] >= Cardinality(Others(t))
      PROVE  LeftHeardAll'
  <2> SUFFICES ASSUME NEW t \in Thread, phase'[t] = "left"
               PROVE  other_finished'[t] >= Cardinality(Others(t))
    BY DEF LeftHeardAll, Others, MachineOf
  <2>1. other_finished[t] >= Cardinality(Others(t))
    BY <1>1 DEF LeftHeardAll
  <2>2. Cardinality(Others(t)) \in Nat /\ other_finished[t] \in Nat /\ other_finished'[t] \in Nat
    BY <1>1, PeersAreFew DEF Types
  <2> QED
    BY <1>1, <2>1, <2>2
<1>2. Types'
  BY TypesKept
<1>3. ASSUME NEW t \in Thread PROVE other_finished'[t] >= other_finished[t]
  <2>1. CASE UNCHANGED other_finished
    BY <2>1 DEF Types
  <2>2. ASSUME NEW u \in Thread, NEW m \in Machine, CmdHandler(u, m)
        PROVE  other_finished'[t] >= other_finished[t]
    <3>1. PICK v : v = session[u][m]
      OBVIOUS
    <3>2. other_finished' = [other_finished EXCEPT ![v] = @ + 1]
      BY <2>2, <3>1 DEF CmdHandler
    <3> QED
      BY <3>2 DEF Types
  <2> QED
    BY <2>1, <2>2 DEF Next, Step, Create, Connect, Begin, Issue, SendDone, Leave, Answer, Serve, CmdRet
<1>4. ASSUME NEW t \in Thread, phase'[t] = "left"
      PROVE  phase[t] = "left" \/ other_finished[t] >= Cardinality(Others(t))
  <2>1. ASSUME NEW u \in Thread, Step(u)
        PROVE  phase[t] = "left" \/ other_finished[t] >= Cardinality(Others(t))
    BY <1>4, <2>1 DEF Step, Create, Connect, Begin, Issue, SendDone, Leave, Types
  <2>2. CASE UNCHANGED phase
    BY <1>4, <2>2
  <2> QED
    BY <2>1, <2>2 DEF Next, Answer, Serve, CmdHandler, CmdRet
<1> QED
  BY <1>1, <1>2, <1>3, <1>4

LEMMA EndNext == ASSUME Spread, EndInv, [Next]_vars PROVE EndInv'
<1>1. CASE Next
  <2>1. Types' /\ Sessions'
    BY <1>1, TypesKept, SessionsKept
  <2>2. OwnPart' /\ EndedIsFinished'
    BY <1>1, EndedKept
  <2>3. DoneWasSent' /\ CountsHeard' /\ LeftHeardAll'
    BY <1>1, HeardKept, LeftKept
  <2> QED
    BY <2>1, <2>2, <2>3 DEF EndInv
<1>2. CASE UNCHANGED vars
  BY <1>2 DEF vars, EndInv, Types, Sessions, Connected, OwnPart, EndedIsFinished, Ended, DoneWasSent,
     CountsHeard, Heard, Peers, LeftHeardAll, Others, MachineOf, Target
<1> QED
  BY <1>1, <1>2

----------------------------------------------------------------------------

\* Who has counted as many DONEs as there are other machines has one of each
\* thread it answers.
LEMMA LeftIsNotNeeded == ASSUME Spread, EndInv PROVE NobodyStranded
<1> USE DEF EndInv
<1> SUFFICES ASSUME NEW t \in Thread, NEW u \in Thread, NEW m \in DOMAIN session[u],
                    phase[t] = "left", t = session[u][m]
             PROVE  Finished(u)
  BY DEF NobodyStranded
<1>1. m \in Others(u) /\ t = <<m, u[2]>>
  BY TargetIsPeer DEF Sessions, Others
<1>2. u \in Peers(t)
  BY <1>1 DEF Peers, Others, MachineOf
<1>3. Heard(t) = Peers(t)
  <2>1. Cardinality(Others(t)) =< other_finished[t]
    BY DEF LeftHeardAll, Types
  <2>2. other_finished[t] =< Cardinality(Heard(t))
    BY DEF CountsHeard
  <2>3. other_finished[t] \in Nat
    BY DEF Types
  <2> QED
    BY <2>1, <2>2, <2>3, HeardIsSmall, PeersAreFew
<1>4. Ended(u)
  BY <1>2, <1>3 DEF Heard
<1>5. {c \in Command : left[c] > 0 /\ ThreadOf(c) = u} = {}
  BY <1>4 DEF EndedIsFinished
<1> QED
  BY <1>4, <1>5, FS_EmptySet DEF EndedIsFinished, Finished, current_traces

\* A thread leaves server_thread, and its endpoint is destroyed, only when
\* every thread whose requests it answers has all of its operations back: for
\* every number of machines and threads, every trace and every rate limit,
\* unless an octet below the number of threads makes two of a machine's
\* sessions end in one thread.
THEOREM LeavingStrandsNobody == Spread => (Spec => []NobodyStranded)
<1> SUFFICES ASSUME Spread PROVE Spec => []NobodyStranded
  OBVIOUS
<1>1. Init => EndInv
  BY EndInit
<1>2. EndInv /\ [Next]_vars => EndInv'
  BY EndNext
<1>3. EndInv => NobodyStranded
  BY LeftIsNotNeeded
<1> QED
  BY <1>1, <1>2, <1>3, PTL DEF Spec
=============================================================================
