------------------------------- MODULE Server -------------------------------
(***************************************************************************)
(* The life of the benchmark processes (server.cpp): each machine starts   *)
(* its server threads; a thread connects to one thread of every other      *)
(* machine, works through its part of the trace, waits until its operations*)
(* have returned, and then for the DONE of the others before it leaves.    *)
(* A thread that left answers nobody.                                      *)
(*                                                                         *)
(* An operation is what ABD.tla makes of it, seen from outside: a put has  *)
(* two rounds, a get one (its write-back is awaited by nobody), and a round*)
(* ends when one of the two other members of the group has answered.       *)
(*                                                                         *)
(* eRPC is external: a session is connected once the thread at its other   *)
(* end exists, and what a thread sent before it left arrives (it runs its  *)
(* event loop for 10 ms more).                                             *)
(***************************************************************************)
EXTENDS Integers, FiniteSets, FiniteSetsExt

CONSTANTS Machine,      \* numbers, in the order of replica_info
          NThread,      \* args.n_thread, and the last field of every -a
          Octet,        \* the last octet of each machine's address
          NCmds,        \* args.n_cmds
          Trace,        \* Trace[m][i]: the i-th command of m and its group
          MaxRequest    \* RateLimit::max_request

ASSUME MachineAssumption == /\ Machine \subseteq Nat /\ IsFiniteSet(Machine)
                            /\ NThread \in Nat \ {0}
                            /\ Octet \in [Machine -> Nat \ {0}]
ASSUME TraceAssumption == /\ NCmds \in Nat /\ NCmds >= NThread
                          /\ Trace \in [Machine -> [1 .. NCmds ->
                               [kind : {"put", "get"}, group : kSubset(3, Machine)]]]
                          /\ MaxRequest \in Nat \ {0}

Thread == Machine \X (0 .. NThread - 1)
MachineOf(t) == t[1]
Others(t) == Machine \ {MachineOf(t)}

VARIABLES phase,        \* where in server_thread a thread is
          session,      \* the thread each connected session ends in
          begin,        \* the next command of a thread's part of the trace
          left,         \* per command under way, the rounds still to answer
          unserved,     \* per command, the members that have not handled the
                        \* request of the current round
          request,      \* RateLimit::request of each machine
          done, acks,   \* DONE commands and their ACKs on their way
          other_finished, others_ack

vars == <<phase, session, begin, left, unserved, request, done, acks,
          other_finished, others_ack>>

Command == Machine \X (1 .. NCmds)
KindOf(c) == Trace[c[1]][c[2]].kind

\* The other members of the group of c's key, or nobody on a foreign machine.
Members(c) ==
  LET g == Trace[c[1]][c[2]].group IN IF c[1] \in g THEN g \ {c[1]} ELSE {}

\* create_threads: thread i gets step_size commands from i * step_size on.
step_size == NCmds \div NThread
End(t) == (t[2] + 1) * step_size
ThreadOf(c) == <<c[1], (c[2] - 1) \div step_size>>

Phases == {"none", "init", "bench", "barrier", "left"}

\* Every loop of server_thread runs the event loop.
Polling(t) == phase[t] \in {"init", "bench", "barrier"}

\* get_n_threads_from_svr_info reads the address, not the last field.
get_n_threads_from_svr_info(m) == Octet[m]
Target(t, m) == <<m, t[2] % get_n_threads_from_svr_info(m)>>

current_traces(t) == Cardinality({c \in Command : left[c] > 0 /\ ThreadOf(c) = t})

----------------------------------------------------------------------------

\* create_threads and the constructors of server_thread.
Create(t) ==
  /\ phase[t] = "none"
  /\ t[2] > 0 => phase[<<t[1], t[2] - 1>>] # "none"
  /\ phase' = [phase EXCEPT ![t] = "init"]
  /\ UNCHANGED <<session, begin, left, unserved, request, done, acks,
                 other_finished, others_ack>>

\* ABD::init: one session after the other, in the order of replica_info.
Connect(t) ==
  LET m == Min(Others(t) \ DOMAIN session[t])
  IN /\ phase[t] = "init" /\ DOMAIN session[t] # Others(t)
     /\ Polling(Target(t, m))
     /\ session' = [session EXCEPT ![t] =
          [n \in DOMAIN @ \cup {m} |-> IF n = m THEN Target(t, m) ELSE @[n]]]
     /\ UNCHANGED <<phase, begin, left, unserved, request, done, acks,
                    other_finished, others_ack>>

Begin(t) ==
  /\ phase[t] = "init" /\ DOMAIN session[t] = Others(t)
  /\ phase' = [phase EXCEPT ![t] = "bench"]
  /\ UNCHANGED <<session, begin, left, unserved, request, done, acks,
                 other_finished, others_ack>>

\* One pass of the loop over the trace: a slot of the rate limiter, then the
\* first round of the command.  A skipped one gives the slot back at once.
Issue(t) ==
  LET c == <<MachineOf(t), begin[t]>>
  IN /\ phase[t] = "bench" /\ begin[t] =< End(t)
     /\ request[MachineOf(t)] < MaxRequest
     /\ begin' = [begin EXCEPT ![t] = @ + 1]
     /\ unserved' = [unserved EXCEPT ![c] = Members(c)]
     /\ IF Members(c) = {}
        THEN UNCHANGED <<left, request>>
        ELSE /\ left' = [left EXCEPT ![c] = IF KindOf(c) = "put" THEN 2 ELSE 1]
             /\ request' = [request EXCEPT ![MachineOf(t)] = @ + 1]
     /\ UNCHANGED <<phase, session, done, acks, other_finished, others_ack>>

\* The thread at the end of the session handles the request and answers.
Serve(c, m) ==
  /\ m \in unserved[c]
  /\ Polling(session[ThreadOf(c)][m])
  /\ unserved' = [unserved EXCEPT ![c] = @ \ {m}]
  /\ UNCHANGED <<phase, session, begin, left, request, done, acks,
                 other_finished, others_ack>>

\* The first answer of a round: the next round, or the operation returns and
\* its slot and trace are given back.
Answer(c) ==
  LET m == c[1]
  IN /\ left[c] > 0 /\ unserved[c] # Members(c)
     /\ Polling(ThreadOf(c))
     /\ left' = [left EXCEPT ![c] = @ - 1]
     /\ IF left[c] > 1
        THEN /\ unserved' = [unserved EXCEPT ![c] = Members(c)]
             /\ UNCHANGED request
        ELSE /\ request' = [request EXCEPT ![m] = @ - 1]
             /\ UNCHANGED unserved
     /\ UNCHANGED <<phase, session, begin, done, acks, other_finished, others_ack>>

----------------------------------------------------------------------------
(* The end of a thread.                                                    *)

\* The trace is issued and load_traces() is 0: send_cmd("DONE") to every other
\* machine.
SendDone(t) ==
  /\ phase[t] = "bench" /\ begin[t] > End(t) /\ current_traces(t) = 0
  /\ phase' = [phase EXCEPT ![t] = "barrier"]
  /\ done' = done \cup {<<t, m>> : m \in Others(t)}
  /\ UNCHANGED <<session, begin, left, unserved, request, acks, other_finished, others_ack>>

\* Variant with a fault: a DONE that comes before our own is not counted.
CmdHandler_Late(t, m) ==
  LET u == session[t][m]
  IN /\ <<t, m>> \in done /\ Polling(u)
     /\ done' = done \ {<<t, m>>}
     /\ acks' = acks \cup {<<t, m>>}
     /\ other_finished' = IF phase[u] = "barrier"
                          THEN [other_finished EXCEPT ![u] = @ + 1]
                          ELSE other_finished
     /\ UNCHANGED <<phase, session, begin, left, unserved, request, others_ack>>

\* req_handlers<Cmd> and the cmd callback: the DONE of t is counted by the
\* thread its session to m ends in, and answered with an ACK.
CmdHandler(t, m) ==
  LET u == session[t][m]
  IN /\ <<t, m>> \in done /\ Polling(u)
     /\ done' = done \ {<<t, m>>}
     /\ acks' = acks \cup {<<t, m>>}
     /\ other_finished' = [other_finished EXCEPT ![u] = @ + 1]
     /\ UNCHANGED <<phase, session, begin, left, unserved, request, others_ack>>

\* req_conts<CmdRet> and the cmd_ret callback, for every answer.
CmdRet(t, m) ==
  /\ <<t, m>> \in acks /\ Polling(t)
  /\ acks' = acks \ {<<t, m>>}
  /\ others_ack' = [others_ack EXCEPT ![t] = @ + 1]
  /\ UNCHANGED <<phase, session, begin, left, unserved, request, done, other_finished>>

\* Variant with a fault: the ACKs alone let a thread go.
Leave_AckOnly(t) ==
  /\ phase[t] = "barrier"
  /\ others_ack[t] >= Cardinality(Others(t))
  /\ phase' = [phase EXCEPT ![t] = "left"]
  /\ UNCHANGED <<session, begin, left, unserved, request, done, acks,
                 other_finished, others_ack>>

\* The end of run_event_loop; the thread's eRPC endpoint is destroyed.
Leave(t) ==
  /\ phase[t] = "barrier"
  /\ other_finished[t] >= Cardinality(Others(t))
  /\ others_ack[t] >= Cardinality(Others(t))
  /\ phase' = [phase EXCEPT ![t] = "left"]
  /\ UNCHANGED <<session, begin, left, unserved, request, done, acks,
                 other_finished, others_ack>>

Init ==
  /\ phase = [t \in Thread |-> "none"]
  /\ session = [t \in Thread |-> <<>>]
  /\ begin = [t \in Thread |-> t[2] * step_size + 1]
  /\ left = [c \in Command |-> 0]
  /\ unserved = [c \in Command |-> {}]
  /\ request = [m \in Machine |-> 0]
  /\ done = {} /\ acks = {}
  /\ other_finished = [t \in Thread |-> 0]
  /\ others_ack = [t \in Thread |-> 0]

Step(t) == Create(t) \/ Connect(t) \/ Begin(t) \/ Issue(t) \/ SendDone(t) \/ Leave(t)

Next == \/ \E t \in Thread : Step(t)
        \/ \E c \in Command : Answer(c) \/ \E m \in Machine : Serve(c, m)
        \/ \E t \in Thread, m \in Machine : CmdHandler(t, m) \/ CmdRet(t, m)

Spec == Init /\ [][Next]_vars

\* Processes are started, threads run and poll, and messages between threads
\* that are there arrive.
Fairness ==
  /\ \A t \in Thread : WF_vars(Step(t))
  /\ \A c \in Command : WF_vars(Answer(c)) /\ \A m \in Machine : WF_vars(Serve(c, m))
  /\ \A t \in Thread, m \in Machine : WF_vars(CmdHandler(t, m)) /\ WF_vars(CmdRet(t, m))

FairSpec == Spec /\ Fairness

----------------------------------------------------------------------------
(* Properties.                                                             *)

Finished(t) == begin[t] > End(t) /\ current_traces(t) = 0

\* A thread leaves only when nobody needs it any more: every thread whose
\* requests it answers has issued its commands and has all of them back.
NobodyStranded ==
  \A t, u \in Thread : phase[t] = "left" /\ t \in {session[u][m] : m \in DOMAIN session[u]}
    => Finished(u)

\* No thread waits for ever, at the connections, for a slot, for its last
\* operations or for the DONE of one that was faster or slower: all leave, and
\* main joins them.
AllLeave == <>(\A t \in Thread : phase[t] = "left")

\* What the usage text says of -a: its last field is the number of threads of
\* that server, over which the sessions of our threads are spread.
SessionsFollowThreadCount ==
  \A t \in Thread : \A m \in DOMAIN session[t] : session[t][m] = <<m, t[2] % NThread>>
=============================================================================
