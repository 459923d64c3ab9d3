------------------------------ MODULE TraceGen ------------------------------
(***************************************************************************)
(* The benchmark's trace (generate_traces.cpp): manufacture_trace_zipfian  *)
(* sums up the probabilities of the keys, and for every command draws a    *)
(* number and looks it up in the sums with a binary search.  create_threads*)
(* (server.cpp) then deals the trace to the server threads, which take     *)
(* their commands one by one.                                              *)
(*                                                                         *)
(* Probabilities are exact fractions on a common denominator, for the      *)
(* exponent 1.0 that main passes: a sum is compared with a drawn number    *)
(* rand() / RAND_MAX by cross-multiplying.  What floating point adds is    *)
(* that the last sum may end just below 1 (rounding).  The hash that turns *)
(* a number into a key (CityHash128) is external.                          *)
(***************************************************************************)
EXTENDS Integers, Sequences

CONSTANTS Setups,       \* what the command line says: n_keys, n_cmds, n_thread
          Scale,        \* a common multiple of 1 .. n_keys - 1
          RandMax,      \* RAND_MAX
          ReadPermille, \* values of read_permille
          Garbage       \* what an uninitialized size_t may hold

\* The last is what run_event_loop asserts of every thread's part.
ASSUME SetupAssumption ==
         \A s \in Setups : /\ s.n_keys \in Nat \ {0}
                           /\ \A i \in 1 .. s.n_keys - 1 : Scale % i = 0
                           /\ s.n_thread \in Nat \ {0}
                           /\ s.n_cmds \in Nat /\ s.n_cmds >= s.n_thread
ASSUME ScaleAssumption == Scale \in Nat \ {0}
ASSUME RandAssumption == /\ RandMax \in Nat \ {0}
                         /\ ReadPermille \subseteq 0 .. 1000
                         /\ Garbage \subseteq Nat

VARIABLES args,         \* the command line
          read_permille,
          sum_probs,    \* in units of 1 / (RandMax * the last weight)
          z,            \* the number drawn for the next command
          low, high,
          zip_value,    \* 0 while it is uninitialized
          trace,        \* the commands so far
          pc,
          begin, end,   \* per thread, what is left of its part of the trace
          runs          \* how often each command was taken

vars == <<args, read_permille, sum_probs, z, low, high, zip_value, trace, pc,
          begin, end, runs>>

n_keys == args.n_keys
n_thread == args.n_thread
trace_size == args.n_cmds
Thread == 0 .. n_thread - 1

\* Scale times 1 + 1/2 + ... + 1/i.
Weight == LET w[i \in 0 .. Scale] == IF i = 0 THEN 0 ELSE w[i - 1] + Scale \div i IN w
Unit(n) == IF n = 1 THEN 1 ELSE Weight[n - 1]

\* The sums; the entry for n itself is allocated and left zero.
SumProbs(n, rounding) ==
  [i \in 0 .. n |-> IF i = n THEN 0
                    ELSE Weight[i] * RandMax - (IF i = n - 1 /\ i > 0 THEN rounding ELSE 0)]

Init ==
  /\ args \in Setups
  /\ read_permille \in ReadPermille
  /\ \E rounding \in {0, 1} : sum_probs = SumProbs(n_keys, rounding)
  /\ z = 0 /\ low = 1 /\ high = n_keys /\ zip_value = 0
  /\ trace = <<>>
  /\ pc = "draw"
  /\ begin = [i \in Thread |-> 0] /\ end = [i \in Thread |-> 0]
  /\ runs = [c \in 0 .. trace_size - 1 |-> 0]

\* z = rand() / RAND_MAX.
Draw ==
  /\ pc = "draw" /\ Len(trace) < trace_size
  /\ \E rand \in 0 .. RandMax : z' = rand * Unit(n_keys)
  /\ low' = 1 /\ high' = n_keys /\ zip_value' = 0
  /\ pc' = "probe"
  /\ UNCHANGED <<args, begin, end, runs, read_permille, sum_probs, trace>>

mid == (low + high) \div 2

\* The key whose share of the interval z falls into.
Hit ==
  /\ pc = "probe"
  /\ sum_probs[mid] >= z /\ sum_probs[mid - 1] < z
  /\ zip_value' = mid
  /\ pc' = "emit"
  /\ UNCHANGED <<args, begin, end, runs, read_permille, sum_probs, z, low, high, trace>>

\* Variant with a fault: the middle stays in the interval.
GoDown_Stay ==
  /\ pc = "probe"
  /\ sum_probs[mid] >= z /\ sum_probs[mid - 1] >= z
  /\ high' = mid
  /\ pc' = IF low =< high' THEN "probe" ELSE "emit"
  /\ UNCHANGED <<args, begin, end, runs, read_permille, sum_probs, z, low, zip_value, trace>>

\* continue goes to the loop's condition.
GoDown ==
  /\ pc = "probe"
  /\ sum_probs[mid] >= z /\ sum_probs[mid - 1] >= z
  /\ high' = mid - 1
  /\ pc' = IF low =< high' THEN "probe" ELSE "emit"
  /\ UNCHANGED <<args, begin, end, runs, read_permille, sum_probs, z, low, zip_value, trace>>

\* Variant with a fault: one key too far.
GoUp_Skip ==
  /\ pc = "probe" /\ sum_probs[mid] < z
  /\ low' = mid + 2
  /\ pc' = IF low' =< high THEN "probe" ELSE "emit"
  /\ UNCHANGED <<args, begin, end, runs, read_permille, sum_probs, z, high, zip_value, trace>>

GoUp ==
  /\ pc = "probe" /\ sum_probs[mid] < z
  /\ low' = mid + 1
  /\ pc' = IF low' =< high THEN "probe" ELSE "emit"
  /\ UNCHANGED <<args, begin, end, runs, read_permille, sum_probs, z, high, zip_value, trace>>

\* Trace_cmd(zip_value, read_permille): without a hit, whatever is there.
Emit ==
  /\ pc = "emit"
  /\ \E id \in IF zip_value = 0 THEN Garbage ELSE {zip_value},
        percentile \in {0, read_permille, 999} \cap 0 .. 999 :
       trace' = Append(trace, [key |-> id, op |-> IF percentile < read_permille
                                                  THEN "get" ELSE "put"])
  /\ pc' = "draw"
  /\ UNCHANGED <<args, begin, end, runs, read_permille, sum_probs, z, low, high, zip_value>>

Search == Hit \/ GoDown \/ GoUp

----------------------------------------------------------------------------
(* Dealing the trace.                                                      *)

\* Variant with a fault: rounded up.
step_size_Up == (trace_size + n_thread - 1) \div n_thread

\* A thread's share.
step_size == trace_size \div n_thread

\* The end of a part, cut off at the end of the trace.
EndOf(from) == IF from + step_size > trace_size THEN trace_size ELSE from + step_size

\* create_threads: thread i starts with command i * step_size.
CreateThreads ==
  /\ pc = "draw" /\ Len(trace) = trace_size
  /\ begin' = [i \in Thread |-> i * step_size]
  /\ end' = [i \in Thread |-> EndOf(i * step_size)]
  /\ pc' = "run"
  /\ UNCHANGED <<args, read_permille, sum_probs, z, low, high, zip_value, trace, runs>>

\* run_event_loop of thread i, once around: while (begin != end).
RunCommand(i) ==
  /\ pc = "run" /\ begin[i] # end[i]
  /\ runs' = [runs EXCEPT ![begin[i]] = @ + 1]
  /\ begin' = [begin EXCEPT ![i] = @ + 1]
  /\ UNCHANGED <<args, read_permille, sum_probs, z, low, high, zip_value, trace, pc, end>>

Next == Draw \/ Search \/ Emit \/ CreateThreads \/ \E i \in Thread : RunCommand(i)

Spec == Init /\ [][Next]_vars
FairSpec == Spec /\ WF_vars(Next)

----------------------------------------------------------------------------
(* Properties.                                                             *)

\* The keys whose interval contains z.
Shares == {i \in 1 .. n_keys - 1 : sum_probs[i - 1] < z /\ z =< sum_probs[i]}

\* The search computes the inverse of the sums: it ends with the key whose
\* interval contains z whenever there is one, and only then with a key.
InverseOfSums == pc = "emit" => Shares = (IF zip_value = 0 THEN {} ELSE {zip_value})

Drained == pc = "run" /\ begin = end
Taken == {c \in DOMAIN runs : runs[c] > 0}

\* The threads share the trace: nobody takes a command of another thread's part,
\* all take equally many, and what the division leaves over, fewer commands than
\* there are threads, are the last ones.
EvenlyDealt ==
  /\ \A c \in DOMAIN runs : runs[c] =< 1
  /\ Drained => \E n \in 0 .. trace_size :
       Taken = 0 .. n * n_thread - 1 /\ trace_size - n * n_thread \in Thread

\* The search ends, at both ends of the interval and in the entry that is never
\* filled too, so the trace is finished, and every thread comes to the end of
\* its part.
TraceIsFinished == <>Drained
=============================================================================
