----------------------------- MODULE Placement -----------------------------
(***************************************************************************)
(* Which machines store a key.  Every machine numbers the groups of three  *)
(* on its own, from its own command line (permutations in server.cpp), and *)
(* turns the number of a group into sessions (ABD::replica_ordering); a key*)
(* selects a group by its last bytes (ABD::get_idx).                       *)
(*                                                                         *)
(* Machines are numbered in the order of their addresses.  A machine       *)
(* compares its own uri with the others' uri:threads, so the order is the  *)
(* same everywhere only if addresses differ before that suffix, as they do *)
(* for different hosts on one port (generate_config.py).                   *)
(***************************************************************************)
EXTENDS Integers, Sequences, FiniteSets, FiniteSetsExt

CONSTANTS ClusterSizes, \* numbers of machines
          Keys          \* the last 8 bytes of a key, as an integer

\* The usage text asks for at least one other machine.
ASSUME SizeAssumption == ClusterSizes \subseteq Nat \ 0 .. 1
ASSUME KeysAssumption == Keys \subseteq Nat

VARIABLES size,         \* the number of machines
          key,          \* the key that is looked up
          replicas,     \* per machine, ABD::replicas
          sent,         \* per machine, where it sent a request for the key
          pc            \* per machine, how far it is

vars == <<size, key, replicas, sent, pc>>

Machine == 1 .. size

\* args.replica_info, sorted: the others.
replica_info(me) == [i \in 1 .. size - 1 |-> IF i < me THEN i ELSE i + 1]

\* Variant with a fault: positions in the list of all machines, our own place
\* not cut out.
IndexOf_All(me, m) == IF m = me THEN -1 ELSE (m - 1) % (size - 1)

\* The first half of the pairs in tmp: -1 for us, otherwise a position in
\* replica_info.
IndexOf(me, m) ==
  IF m = me THEN -1
  ELSE CHOOSE i \in 0 .. size - 2 : replica_info(me)[i + 1] = m

\* A set of triples in the order in which nested loops produce them.
InLoopOrder(all) ==
  LET before(s, t) == \/ s[1] < t[1]
                      \/ s[1] = t[1] /\ s[2] < t[2]
                      \/ s[1] = t[1] /\ s[2] = t[2] /\ s[3] < t[3]
  IN [x \in 1 .. Cardinality(all) |->
        CHOOSE t \in all : Cardinality({s \in all : before(s, t)}) = x - 1]

\* Variant with a fault: the innermost loop ends one machine early.
Triples_Short ==
  InLoopOrder({t \in Machine \X Machine \X Machine :
                 t[1] < t[2] /\ t[2] < t[3] /\ t[3] < size})

\* i < j < k of the three nested loops.
Triples == InLoopOrder({t \in Machine \X Machine \X Machine : t[1] < t[2] /\ t[2] < t[3]})

\* Whether we are in a group, and the two positions: of the others if we are,
\* of the first two otherwise.
permutations(me) ==
  LET order == Triples
  IN [x \in DOMAIN order |->
        LET at == {IndexOf(me, order[x][j]) : j \in 1 .. 3}
            two == IF -1 \in at THEN at \ {-1} ELSE {IndexOf(me, order[x][j]) : j \in 1 .. 2}
        IN <<-1 \in at, Min(two), Max(two)>>]

\* ABD::replica_ordering, after the sessions of replica_info are connected.
ReplicaOrdering(me) ==
  /\ pc[me] = "init"
  /\ LET order == permutations(me)
         info == replica_info(me)
     IN replicas' = [replicas EXCEPT ![me] =
          [x \in DOMAIN order |->
             IF order[x][1] THEN {info[order[x][2] + 1], info[order[x][3] + 1]} ELSE {}]]
  /\ pc' = [pc EXCEPT ![me] = "ready"]
  /\ UNCHANGED <<size, key, sent>>

\* Variant with a fault: the number of machines instead of the number of groups.
get_idx_Machines(k, n) == k % size

\* The number of a key's group among n.
get_idx(k, n) == k % n

\* send_and_encrypt_msg: to the replicas of the key's group, or to nobody.
SendAndEncrypt(me) ==
  /\ pc[me] = "ready" /\ replicas[me] # <<>>
  /\ sent' = [sent EXCEPT ![me] = replicas[me][get_idx(key, Len(replicas[me])) + 1]]
  /\ pc' = [pc EXCEPT ![me] = "sent"]
  /\ UNCHANGED <<size, key, replicas>>

\* get_idx with no groups at all: a remainder by 0 ends the process.
DivideByZero(me) ==
  /\ pc[me] = "ready" /\ replicas[me] = <<>>
  /\ pc' = [pc EXCEPT ![me] = "crashed"]
  /\ UNCHANGED <<size, key, replicas, sent>>

Init == /\ size \in ClusterSizes
        /\ key \in Keys
        /\ replicas = [m \in Machine |-> <<>>]
        /\ sent = [m \in Machine |-> {}]
        /\ pc = [m \in Machine |-> "init"]

Next == \E m \in Machine : ReplicaOrdering(m) \/ SendAndEncrypt(m) \/ DivideByZero(m)

Spec == Init /\ [][Next]_vars

----------------------------------------------------------------------------
(* Properties.                                                             *)

Coordinators == {m \in Machine : sent[m] # {}}
Skipping == {m \in Machine : pc[m] = "sent" /\ sent[m] = {}}

\* Machines that number the groups independently agree on them: whoever
\* coordinates an operation on the key does so in the same group of three, of
\* which it is a member, and a machine that skips the key is not in it.
OneGroupPerKey ==
  \A m \in Coordinators :
    LET group == {m} \cup sent[m]
    IN /\ group \subseteq Machine /\ Cardinality(group) = 3
       /\ \A n \in Coordinators : {n} \cup sent[n] = group
       /\ group \cap Skipping = {}

\* Every group of three is used by some key: the data and the load are spread
\* over all of them.
EveryGroupReachable ==
  \A m \in Machine : pc[m] # "init" =>
    LET n == Len(replicas[m])
    IN {replicas[m][get_idx(k, n) + 1] : k \in 0 .. n - 1} \ {{}} = kSubset(2, Machine \ {m})

\* With three machines or more get_idx always has groups to divide by, and with
\* two of them every process dies at its first operation.
CrashOnlyBelowThree ==
  /\ \A m \in Machine : pc[m] = "crashed" => size < 3
  /\ \A m \in Machine : pc[m] = "sent" => size >= 3
=============================================================================
