---------------------------- MODULE EHashtable ----------------------------
(***************************************************************************)
(* The hash table of include/store.h: buckets with a singly linked list    *)
(* (include/list.h) and a shared mutex each.  put and get are the public   *)
(* operations; threads run them concurrently, and every access to a list   *)
(* between locking and unlocking is a step.                                *)
(*                                                                         *)
(* A list is the sequence of its entries from head on, an iterator the     *)
(* index of its node, and before_begin index 0.  Decryption inverts        *)
(* encryption.  The bucket hash is left out: HashSsl starts invalid        *)
(* (crypt/release/encrypt_openssl.h:124), so that update and finalize do   *)
(* nothing, mac stays zero and equal holds.  The build without PUSH_FRONT  *)
(* is modelled.                                                            *)
(***************************************************************************)
EXTENDS Integers, Sequences, SequencesExt, FiniteSets

CONSTANTS Threads, Keys, Values,
          size,         \* the number of buckets
          hash,         \* hash_<7, 61> of a key, modulo size
          key_hash,     \* hash_<7, 11> of a key & 0xFF
          None,         \* kv = nullptr
          MaxPuts       \* bound on the puts

ASSUME SizeAssumption == size \in Nat \ {0} /\ MaxPuts \in Nat
ASSUME HashAssumption == hash \in [Keys -> 0 .. size - 1] /\ None \notin Values

VARIABLES list,         \* per bucket
          writer,       \* per bucket, the threads holding the mutex exclusively
          readers,      \* per bucket, the threads sharing it
          call,         \* per thread, the operation under way
          puts,         \* history: number of puts so far
          latest,       \* history: per key, the value of the last put that was done
          behind        \* history: keys that were behind the first entry of a
                        \* bucket when it was updated, and not put since

vars == <<list, writer, readers, call, puts, latest, behind>>

Buckets == 0 .. size - 1
Idle == [pc |-> "idle"]

Init ==
  /\ list = [b \in Buckets |-> <<>>]
  /\ writer = [b \in Buckets |-> {}] /\ readers = [b \in Buckets |-> {}]
  /\ call = [t \in Threads |-> Idle]
  /\ puts = 0
  /\ latest = [k \in Keys |-> None]
  /\ behind = {}

\* The bucket of a thread's key.
BucketOf(t) == hash[call[t].key]

----------------------------------------------------------------------------
(* List.                                                                   *)

before_begin == 0
\* operator++, also of before_begin, which becomes begin.
Succ(pos) == pos + 1
\* What the iterator behind pos points to; cend when there is nothing.
AtEnd(l, pos) == Succ(pos) > Len(l)

\* erase_after: the node behind pos leaves the list.
erase_after(l, pos) == RemoveAt(l, Succ(pos))

\* emplace_after: behind before_begin the new node becomes head; its next is
\* null, as constructed.
emplace_after(l, pos, e) == IF pos = before_begin THEN <<e>> ELSE InsertAt(l, Succ(pos), e)

----------------------------------------------------------------------------
(* put.                                                                    *)

\* std::unique_lock.
Lock(t, b) == writer[b] = {} /\ readers[b] = {}

Put(t, k, v) ==
  /\ call[t] = Idle /\ puts < MaxPuts
  /\ Lock(t, hash[k])
  /\ writer' = [writer EXCEPT ![hash[k]] = @ \cup {t}]
  /\ call' = [call EXCEPT ![t] = [pc |-> "find", key |-> k, val |-> v, last |-> before_begin]]
  /\ puts' = puts + 1
  /\ UNCHANGED <<list, readers, latest, behind>>

\* The 8-bit hash first, then the decrypted key.
Matches(e, k) == key_hash[e.key] = key_hash[k] /\ e.key = k

\* One iteration of find: last follows entry by one node, so that it ends in
\* front of the entry or on the last node.
FindNext(t) ==
  LET l == list[BucketOf(t)] IN
  /\ call[t].pc = "find" /\ ~ AtEnd(l, call[t].last)
  /\ ~ Matches(l[Succ(call[t].last)], call[t].key)
  /\ call' = [call EXCEPT ![t].last = Succ(@)]
  /\ UNCHANGED <<list, writer, readers, puts, latest, behind>>

\* find returns; where decides about what it found.
Found(t) ==
  LET l == list[BucketOf(t)]
      updated == ~ AtEnd(l, call[t].last) IN
  /\ call[t].pc = "find"
  /\ updated => Matches(l[Succ(call[t].last)], call[t].key)
  /\ \E where \in BOOLEAN :
       call' = [call EXCEPT ![t].pc = IF ~ where THEN "unlock"
                                      ELSE IF updated THEN "erase" ELSE "insert"]
  /\ UNCHANGED <<list, writer, readers, puts, latest, behind>>

\* Variant with a fault: the old entry stays.
Erase_Not(t) ==
  /\ call[t].pc = "erase"
  /\ call' = [call EXCEPT ![t].pc = "insert"]
  /\ UNCHANGED <<list, writer, readers, puts, latest, behind>>

Erase(t) ==
  /\ call[t].pc = "erase"
  /\ list' = [list EXCEPT ![BucketOf(t)] = erase_after(@, call[t].last)]
  /\ call' = [call EXCEPT ![t].pc = "insert"]
  /\ UNCHANGED <<writer, readers, puts, latest, behind>>

Insert(t) ==
  /\ call[t].pc = "insert"
  /\ list' = [list EXCEPT ![BucketOf(t)] =
                emplace_after(@, call[t].last, [key |-> call[t].key, val |-> call[t].val])]
  /\ latest' = [latest EXCEPT ![call[t].key] = call[t].val]
  /\ behind' = (IF call[t].last = before_begin
                THEN behind \cup {e.key : e \in Range(list[BucketOf(t)])}
                ELSE behind) \ {call[t].key}
  /\ call' = [call EXCEPT ![t].pc = "unlock"]
  /\ UNCHANGED <<writer, readers, puts>>

\* The end of the unique_lock's scope, and put returns ok.
PutReturn(t) ==
  /\ call[t].pc = "unlock"
  /\ writer' = [writer EXCEPT ![BucketOf(t)] = @ \ {t}]
  /\ call' = [call EXCEPT ![t] = Idle]
  /\ UNCHANGED <<list, readers, puts, latest, behind>>

----------------------------------------------------------------------------
(* get.                                                                    *)

\* Variant with a fault: no lock.
LockShared_Not(t, b) == TRUE

\* std::shared_lock.
LockShared(t, b) == writer[b] = {}

Get(t, k) ==
  /\ call[t] = Idle
  /\ LockShared(t, hash[k])
  /\ readers' = [readers EXCEPT ![hash[k]] = @ \cup {t}]
  /\ call' = [call EXCEPT ![t] = [pc |-> "get", key |-> k, last |-> before_begin]]
  /\ UNCHANGED <<list, writer, puts, latest, behind>>

\* One iteration over the bucket.
GetNext(t) ==
  LET l == list[BucketOf(t)] IN
  /\ call[t].pc = "get" /\ ~ AtEnd(l, call[t].last)
  /\ ~ Matches(l[Succ(call[t].last)], call[t].key)
  /\ call' = [call EXCEPT ![t].last = Succ(@)]
  /\ UNCHANGED <<list, writer, readers, puts, latest, behind>>

\* A match, or the end of the list: kv is what get will return.
GetEnds(t) ==
  LET l == list[BucketOf(t)]
      kv == IF AtEnd(l, call[t].last) THEN None ELSE l[Succ(call[t].last)].val IN
  /\ call[t].pc = "get"
  /\ ~ AtEnd(l, call[t].last) => Matches(l[Succ(call[t].last)], call[t].key)
  /\ call' = [call EXCEPT ![t] = [pc |-> "got", key |-> call[t].key, kv |-> kv]]
  /\ UNCHANGED <<list, writer, readers, puts, latest, behind>>

GetReturn(t) ==
  /\ call[t].pc = "got"
  /\ readers' = [readers EXCEPT ![BucketOf(t)] = @ \ {t}]
  /\ call' = [call EXCEPT ![t] = Idle]
  /\ UNCHANGED <<list, writer, puts, latest, behind>>

----------------------------------------------------------------------------

Next ==
  \E t \in Threads :
    \/ \E k \in Keys : Get(t, k) \/ \E v \in Values : Put(t, k, v)
    \/ FindNext(t) \/ Found(t) \/ Erase(t) \/ Insert(t) \/ PutReturn(t)
    \/ GetNext(t) \/ GetEnds(t) \/ GetReturn(t)

Spec == Init /\ [][Next]_vars

----------------------------------------------------------------------------
(* Properties.                                                             *)

\* A get returns the value of the last put of its key, although entries share
\* the 8-bit hash and puts erase and insert in two steps, except where the
\* update of a bucket's first entry has dropped the key: emplace_after does not
\* link the rest of the list behind a new head.
FoundIsLatest ==
  \A t \in Threads : call[t].pc = "got" =>
    call[t].kv = IF call[t].key \in behind THEN None ELSE latest[call[t].key]

\* A key has at most one entry, in the bucket its hash names: otherwise a later
\* put would update one of them and get might find the other.
OneEntryPerKey ==
  \A b \in Buckets :
    /\ IsInjective([i \in DOMAIN list[b] |-> list[b][i].key])
    /\ \A i \in DOMAIN list[b] : hash[list[b][i].key] = b
=============================================================================
