-------------------------- MODULE EHashtableProofs --------------------------
(***************************************************************************)
(* A get finds the last put of its key, and a key has one entry, for every *)
(* number of threads, keys, buckets and puts.                              *)
(***************************************************************************)
EXTENDS EHashtable, TLAPS

----------------------------------------------------------------------------
(* The inductive invariant.                                                *)

Entry == [key : Keys, val : Values]
PutCall == [pc : {"find", "erase", "insert", "unlock"}, key : Keys, val : Values, last : Nat]
GetCall == [pc : {"get"}, key : Keys, last : Nat]
GotCall == [pc : {"got"}, key : Keys, kv : Values \cup {None}]

Types ==
  /\ list \in [Buckets -> Seq(Entry)]
  /\ writer \in [Buckets -> SUBSET Threads] /\ readers \in [Buckets -> SUBSET Threads]
  /\ call \in [Threads -> {Idle} \cup PutCall \cup GetCall \cup GotCall]
  /\ latest \in [Keys -> Values \cup {None}]
  /\ behind \subseteq Keys

Writing(t) == call[t].pc \in {"find", "erase", "insert", "unlock"}
Reading(t) == call[t].pc \in {"get", "got"}

\* Who is in a bucket holds its mutex, and a writer is alone.
Locked ==
  /\ \A t \in Threads : Writing(t) => t \in writer[BucketOf(t)]
  /\ \A t \in Threads : Reading(t) => t \in readers[BucketOf(t)]
  /\ \A t, u \in Threads : Writing(t) /\ (Writing(u) \/ Reading(u)) /\ t # u
       => BucketOf(t) # BucketOf(u)

\* No key twice in a list, and only keys of its bucket.
WellFormed(l, b) ==
  /\ \A i, j \in 1 .. Len(l) : l[i].key = l[j].key => i = j
  /\ \A i \in 1 .. Len(l) : hash[l[i].key] = b
Lists == \A b \in Buckets : WellFormed(list[b], b)

\* An entry of k is among the first n of a list.
Among(l, n, k) == \E i \in 1 .. n : l[i].key = k

\* Where an iterator stands: everything up to it was compared, an erase is in
\* front of the entry, and after it no entry of the key is left.
Positions ==
  \A t \in Threads :
    LET l == list[BucketOf(t)] IN
    /\ call[t].pc \in {"find", "get", "insert"} =>
         call[t].last =< Len(l) /\ ~ Among(l, call[t].last, call[t].key)
    /\ call[t].pc = "erase" => call[t].last < Len(l) /\ l[call[t].last + 1].key = call[t].key
    /\ call[t].pc = "insert" => ~ Among(l, Len(l), call[t].key)

\* The entry of a key has its last value; a key that was put has one, unless
\* it was dropped or a put is between its erase and its insert.
Contents ==
  \A k \in Keys :
    LET l == list[hash[k]] IN
    /\ \A i \in 1 .. Len(l) : l[i].key = k => k \notin behind /\ l[i].val = latest[k]
    /\ \/ k \in behind \/ latest[k] = None \/ Among(l, Len(l), k)
       \/ \E t \in Threads : call[t].pc = "insert" /\ call[t].key = k

TableInv == Types /\ Locked /\ Lists /\ Positions /\ Contents /\ FoundIsLatest

----------------------------------------------------------------------------
(* Lists.                                                                  *)

LEMMA Removed ==
  ASSUME NEW E, NEW l \in Seq(E), NEW p \in 1 .. Len(l)
  PROVE  /\ RemoveAt(l, p) \in Seq(E)
         /\ Len(RemoveAt(l, p)) = Len(l) - 1
         /\ \A i \in 1 .. Len(l) - 1 : RemoveAt(l, p)[i] = IF i < p THEN l[i] ELSE l[i + 1]
<1>1. PICK a : a = SubSeq(l, 1, p - 1)
  OBVIOUS
<1>2. PICK z : z = SubSeq(l, p + 1, Len(l))
  OBVIOUS
<1>3. a \in Seq(E) /\ Len(a) = p - 1 /\ \A i \in 1 .. p - 1 : a[i] = l[i]
  BY <1>1
<1>4. z \in Seq(E) /\ Len(z) = Len(l) - p /\ \A i \in 1 .. Len(l) - p : z[i] = l[p + i]
  BY <1>2
<1>5. RemoveAt(l, p) = a \o z
  BY <1>1, <1>2 DEF RemoveAt
<1>6. a \o z \in Seq(E) /\ Len(a \o z) = Len(l) - 1
  BY <1>3, <1>4
<1>7. ASSUME NEW i \in 1 .. Len(l) - 1 PROVE (a \o z)[i] = IF i < p THEN l[i] ELSE l[i + 1]
  <2>1. CASE i < p
    <3>1. (a \o z)[i] = a[i] /\ i \in 1 .. p - 1
      BY <1>3, <1>4, <2>1
    <3> QED
      BY <1>3, <2>1, <3>1
  <2>2. CASE ~ (i < p)
    <3>1. (a \o z)[i] = z[i - (p - 1)]
      BY <1>3, <1>4, <2>2
    <3>2. i - (p - 1) \in 1 .. Len(l) - p /\ p + (i - (p - 1)) = i + 1
      BY <2>2
    <3> QED
      BY <1>4, <2>2, <3>1, <3>2
  <2> QED
    BY <2>1, <2>2
<1> QED
  BY <1>5, <1>6, <1>7

LEMMA Inserted ==
  ASSUME NEW E, NEW l \in Seq(E), NEW p \in 1 .. Len(l) + 1, NEW e \in E
  PROVE  /\ InsertAt(l, p, e) \in Seq(E)
         /\ Len(InsertAt(l, p, e)) = Len(l) + 1
         /\ \A i \in 1 .. Len(l) + 1 :
              InsertAt(l, p, e)[i] = IF i < p THEN l[i] ELSE IF i = p THEN e ELSE l[i - 1]
<1>1. PICK a : a = SubSeq(l, 1, p - 1)
  OBVIOUS
<1>2. PICK z : z = SubSeq(l, p, Len(l))
  OBVIOUS
<1>3. a \in Seq(E) /\ Len(a) = p - 1 /\ \A i \in 1 .. p - 1 : a[i] = l[i]
  BY <1>1
<1>4. z \in Seq(E) /\ Len(z) = Len(l) - p + 1 /\ \A i \in 1 .. Len(l) - p + 1 : z[i] = l[p + i - 1]
  BY <1>2
<1>5. InsertAt(l, p, e) = (a \o <<e>>) \o z
  BY <1>1, <1>2 DEF InsertAt
<1>6. PICK w : w = a \o <<e>>
  OBVIOUS
<1>7. w \in Seq(E) /\ Len(w) = p /\ w[p] = e /\ \A i \in 1 .. p - 1 : w[i] = l[i]
  BY <1>3, <1>6
<1>8. w \o z \in Seq(E) /\ Len(w \o z) = Len(l) + 1
  BY <1>4, <1>7
<1>9. ASSUME NEW i \in 1 .. Len(l) + 1
      PROVE  (w \o z)[i] = IF i < p THEN l[i] ELSE IF i = p THEN e ELSE l[i - 1]
  <2>1. CASE i =< p
    <3>1. (w \o z)[i] = w[i]
      BY <1>4, <1>7, <2>1
    <3> QED
      BY <1>7, <2>1, <3>1
  <2>2. CASE ~ (i =< p)
    <3>1. (w \o z)[i] = z[i - p]
      BY <1>4, <1>7, <2>2
    <3>2. i - p \in 1 .. Len(l) - p + 1 /\ p + (i - p) - 1 = i - 1
      BY <2>2
    <3> QED
      BY <1>4, <2>2, <3>1, <3>2
  <2> QED
    BY <2>1, <2>2
<1> QED
  BY <1>5, <1>6, <1>8, <1>9

\* r is l without the entry behind p.
Without(r, l, p, b) ==
  /\ r \in Seq(Entry) /\ WellFormed(r, b) /\ p =< Len(r)
  /\ ~ Among(r, Len(r), l[p + 1].key)
  /\ \A i \in 1 .. Len(r) : \E j \in 1 .. Len(l) : r[i] = l[j]
  /\ \A j \in 1 .. Len(l) : j # p + 1 => \E i \in 1 .. Len(r) : r[i] = l[j]

\* erase_after unlinks the one entry of a key and keeps all others.
LEMMA EraseAfter ==
  ASSUME NEW b \in Buckets, NEW l \in Seq(Entry), WellFormed(l, b),
         NEW p \in Nat, p < Len(l)
  PROVE  Without(erase_after(l, p), l, p, b)
<1>0. PICK r : r = erase_after(l, p)
  OBVIOUS
<1>1. p + 1 \in 1 .. Len(l)
  OBVIOUS
<1>2. /\ r \in Seq(Entry) /\ Len(r) = Len(l) - 1
      /\ \A i \in 1 .. Len(l) - 1 : r[i] = IF i < p + 1 THEN l[i] ELSE l[i + 1]
  BY <1>0, <1>1, Removed DEF erase_after, Succ
<1>3. \A i \in 1 .. Len(r) : \E j \in 1 .. Len(l) : r[i] = l[j] /\ j # p + 1
                              /\ j = IF i < p + 1 THEN i ELSE i + 1
  BY <1>1, <1>2
<1>4. ASSUME NEW j \in 1 .. Len(l), j # p + 1 PROVE \E i \in 1 .. Len(r) : r[i] = l[j]
  <2>1. CASE j < p + 1
    BY <1>2, <2>1
  <2>2. CASE j > p + 1
    <3>1. j - 1 \in 1 .. Len(r) /\ r[j - 1] = l[j]
      BY <1>2, <2>2
    <3> QED
      BY <3>1
  <2> QED
    BY <1>4, <2>1, <2>2
<1>5. WellFormed(r, b)
  <2>1. ASSUME NEW i \in 1 .. Len(r), NEW j \in 1 .. Len(r), r[i].key = r[j].key PROVE i = j
    <3>1. PICK x \in 1 .. Len(l) : r[i] = l[x] /\ x = IF i < p + 1 THEN i ELSE i + 1
      BY <1>3
    <3>2. PICK y \in 1 .. Len(l) : r[j] = l[y] /\ y = IF j < p + 1 THEN j ELSE j + 1
      BY <1>3
    <3>3. x = y
      BY <2>1, <3>1, <3>2 DEF WellFormed
    <3> QED
      BY <1>2, <3>1, <3>2, <3>3
  <2>2. ASSUME NEW i \in 1 .. Len(r) PROVE hash[r[i].key] = b
    BY <1>3 DEF WellFormed
  <2> QED
    BY <2>1, <2>2 DEF WellFormed
<1>6. ~ Among(r, Len(r), l[p + 1].key)
  BY <1>1, <1>3 DEF Among, WellFormed
<1> QED
  BY <1>0, <1>2, <1>3, <1>4, <1>5, <1>6 DEF Without

\* r is l with e behind p, or e alone when that is before_begin.
With(r, l, p, e, b) ==
  /\ r \in Seq(Entry) /\ WellFormed(r, b)
  /\ \E i \in 1 .. Len(r) : r[i] = e
  /\ \A i \in 1 .. Len(r) : r[i] = e \/ (p # 0 /\ \E j \in 1 .. Len(l) : r[i] = l[j])
  /\ p # 0 => \A j \in 1 .. Len(l) : \E i \in 1 .. Len(r) : r[i] = l[j]

\* emplace_after adds an entry; behind before_begin it drops all others.
LEMMA EmplaceAfter ==
  ASSUME NEW b \in Buckets, NEW l \in Seq(Entry), WellFormed(l, b),
         NEW p \in Nat, p =< Len(l), NEW e \in Entry, hash[e.key] = b,
         ~ Among(l, Len(l), e.key)
  PROVE  With(emplace_after(l, p, e), l, p, e, b)
<1> SUFFICES ASSUME NEW r, r = emplace_after(l, p, e) PROVE With(r, l, p, e, b)
  OBVIOUS
<1>1. CASE p = 0
  <2>1. r = <<e>> /\ Len(r) = 1 /\ r[1] = e
    BY <1>1 DEF emplace_after, before_begin
  <2>2. \A i \in 1 .. Len(r) : i = 1
    BY <2>1
  <2>3. 1 \in 1 .. Len(r)
    BY <2>1
  <2>4. r \in Seq(Entry)
    BY <2>1
  <2> QED
    BY <1>1, <2>1, <2>2, <2>3, <2>4 DEF WellFormed, With
<1>2. CASE p # 0
  <2>1. p + 1 \in 1 .. Len(l) + 1
    OBVIOUS
  <2>9. PICK q : q = p + 1
    OBVIOUS
  <2>10. r = InsertAt(l, q, e) /\ q \in 1 .. Len(l) + 1
    BY <1>2, <2>1, <2>9 DEF emplace_after, Succ, before_begin
  <2>11. /\ r \in Seq(Entry) /\ Len(r) = Len(l) + 1
         /\ \A i \in 1 .. Len(l) + 1 :
              r[i] = IF i < q THEN l[i] ELSE IF i = q THEN e ELSE l[i - 1]
    <3>1. /\ InsertAt(l, q, e) \in Seq(Entry) /\ Len(InsertAt(l, q, e)) = Len(l) + 1
          /\ \A i \in 1 .. Len(l) + 1 :
               InsertAt(l, q, e)[i] = IF i < q THEN l[i] ELSE IF i = q THEN e ELSE l[i - 1]
      <4>1. q \in 1 .. Len(l) + 1
        BY <2>10
      <4> QED
        BY <4>1, Inserted
    <3> QED
      BY <2>10, <3>1
  <2>2. /\ r \in Seq(Entry) /\ Len(r) = Len(l) + 1
        /\ \A i \in 1 .. Len(l) + 1 :
             r[i] = IF i < p + 1 THEN l[i] ELSE IF i = p + 1 THEN e ELSE l[i - 1]
    BY <2>9, <2>11
  <2>3. r[p + 1] = e /\ p + 1 \in 1 .. Len(r)
    BY <2>1, <2>2
  <2>4. \A i \in 1 .. Len(r) : i # p + 1 => \E j \in 1 .. Len(l) :
          r[i] = l[j] /\ j = IF i < p + 1 THEN i ELSE i - 1
    BY <2>1, <2>2
  <2>5. ASSUME NEW j \in 1 .. Len(l) PROVE \E i \in 1 .. Len(r) : r[i] = l[j]
    <3>1. CASE j < p + 1
      BY <2>2, <3>1
    <3>2. CASE j >= p + 1
      <4>1. j + 1 \in 1 .. Len(r) /\ r[j + 1] = l[j]
        BY <2>2, <3>2
      <4> QED
        BY <4>1
    <3> QED
      BY <2>5, <3>1, <3>2
  <2>6. \A j \in 1 .. Len(l) : l[j].key # e.key
    BY DEF Among
  <2>7. ASSUME NEW i \in 1 .. Len(r), NEW j \in 1 .. Len(r), r[i].key = r[j].key PROVE i = j
    <3>1. CASE i = p + 1
      BY <2>3, <2>4, <2>6, <2>7, <3>1
    <3>2. CASE j = p + 1
      BY <2>3, <2>4, <2>6, <2>7, <3>2
    <3>3. CASE i # p + 1 /\ j # p + 1
      <4>1. PICK x \in 1 .. Len(l) : r[i] = l[x] /\ x = IF i < p + 1 THEN i ELSE i - 1
        BY <2>4, <3>3
      <4>2. PICK y \in 1 .. Len(l) : r[j] = l[y] /\ y = IF j < p + 1 THEN j ELSE j - 1
        BY <2>4, <3>3
      <4>3. x = y
        BY <2>7, <4>1, <4>2 DEF WellFormed
      <4> QED
        BY <2>2, <3>3, <4>1, <4>2, <4>3
    <3> QED
      BY <3>1, <3>2, <3>3
  <2>8. ASSUME NEW i \in 1 .. Len(r) PROVE hash[r[i].key] = b
    BY <2>3, <2>4 DEF WellFormed
  <2>12. WellFormed(r, b)
    BY <2>7, <2>8 DEF WellFormed
  <2>13. \A i \in 1 .. Len(r) : r[i] = e \/ \E j \in 1 .. Len(l) : r[i] = l[j]
    BY <2>3, <2>4
  <2> QED
    BY <1>2, <2>2, <2>3, <2>5, <2>12, <2>13 DEF With
<1> QED
  BY <1>1, <1>2

----------------------------------------------------------------------------
(* What a thread's record looks like.                                      *)

LEMMA Shape ==
  ASSUME Types, NEW t \in Threads
  PROVE  /\ Writing(t) => call[t] \in PutCall
         /\ call[t].pc = "get" => call[t] \in GetCall
         /\ call[t].pc = "got" => call[t] \in GotCall
         /\ Writing(t) \/ Reading(t) => call[t].key \in Keys /\ BucketOf(t) \in Buckets
<1>1. call[t] \in {Idle} \cup PutCall \cup GetCall \cup GotCall
  BY DEF Types
<1>2. Idle.pc = "idle"
  BY DEF Idle
<1>3. /\ call[t] \in PutCall => call[t].pc \in {"find", "erase", "insert", "unlock"}
      /\ call[t] \in GetCall => call[t].pc = "get"
      /\ call[t] \in GotCall => call[t].pc = "got"
  BY DEF PutCall, GetCall, GotCall
<1>4. /\ Writing(t) => call[t] \in PutCall
      /\ call[t].pc = "get" => call[t] \in GetCall
      /\ call[t].pc = "got" => call[t] \in GotCall
  BY <1>1, <1>2, <1>3 DEF Writing
<1>5. Writing(t) \/ Reading(t) => call[t].key \in Keys
  BY <1>4 DEF Reading, PutCall, GetCall, GotCall
<1> QED
  BY <1>4, <1>5, HashAssumption DEF BucketOf, Buckets

\* Everybody else is in another bucket than a writer.
LEMMA WriterAlone ==
  ASSUME TableInv, NEW t \in Threads, Writing(t), NEW u \in Threads, u # t,
         Writing(u) \/ Reading(u)
  PROVE  BucketOf(u) # BucketOf(t)
  BY DEF TableInv, Locked

LEMMA TableInit == ASSUME Init PROVE TableInv
<1>1. \A b \in Buckets : list[b] = <<>> /\ Len(list[b]) = 0
  BY DEF Init
<1>2. \A t \in Threads : call[t] = Idle /\ call[t].pc = "idle"
  BY DEF Init, Idle
<1>3. Types
  BY DEF Init, Types
<1>4. Locked
  BY <1>2 DEF Locked, Writing, Reading
<1>5. Lists
  BY <1>1 DEF Lists, WellFormed
<1>6. Positions /\ FoundIsLatest
  BY <1>2 DEF Positions, FoundIsLatest
<1>7. Contents
  <2> SUFFICES ASSUME NEW k \in Keys PROVE latest[k] = None /\ Len(list[hash[k]]) = 0
    BY DEF Contents
  <2> QED
    BY <1>1, HashAssumption DEF Init, Buckets
<1> QED
  BY <1>3, <1>4, <1>5, <1>6, <1>7 DEF TableInv

----------------------------------------------------------------------------
(* Steps that only look: the lists, the mutexes and the history stay.      *)

LEMMA Looks ==
  ASSUME TableInv, NEW t \in Threads, NEW r,
         call' = [call EXCEPT ![t] = r], UNCHANGED <<list, writer, readers, latest, behind>>,
         \/ Writing(t) /\ r \in PutCall
         \/ Reading(t) /\ r \in GetCall \cup GotCall,
         call[t].pc # "insert", r.key = call[t].key,
         r.pc \in {"find", "get", "insert"} =>
           r.last =< Len(list[BucketOf(t)]) /\ ~ Among(list[BucketOf(t)], r.last, r.key),
         r.pc = "erase" => /\ r.last < Len(list[BucketOf(t)])
                           /\ list[BucketOf(t)][r.last + 1].key = r.key,
         r.pc = "insert" => ~ Among(list[BucketOf(t)], Len(list[BucketOf(t)]), r.key),
         r.pc = "got" => r.kv = IF r.key \in behind THEN None ELSE latest[r.key]
  PROVE  TableInv'
<1> USE DEF TableInv
<1>1. /\ call'[t] = r /\ DOMAIN call' = Threads
      /\ \A u \in Threads : u # t => call'[u] = call[u]
  BY DEF Types
<1>2. Types'
  BY DEF Types
<1>3. \A u \in Threads : BucketOf(u)' = BucketOf(u)
  BY <1>1 DEF BucketOf
<1>4. \A u \in Threads : (Writing(u)' <=> Writing(u)) /\ (Reading(u)' <=> Reading(u))
  <2>1. Writing(t)' <=> Writing(t)
    BY <1>1 DEF Writing, Reading, PutCall, GetCall, GotCall
  <2>2. Reading(t)' <=> Reading(t)
    BY <1>1 DEF Writing, Reading, PutCall, GetCall, GotCall
  <2> QED
    BY <1>1, <2>1, <2>2 DEF Writing, Reading
<1>5. Locked'
  BY <1>3, <1>4 DEF Locked
<1>6. Lists'
  BY DEF Lists, WellFormed
<1>7. Positions'
  <2> SUFFICES ASSUME NEW u \in Threads
               PROVE  LET l == list[BucketOf(u)] IN
                      /\ call'[u].pc \in {"find", "get", "insert"} =>
                           call'[u].last =< Len(l) /\ ~ Among(l, call'[u].last, call'[u].key)
                      /\ call'[u].pc = "erase" =>
                           call'[u].last < Len(l) /\ l[call'[u].last + 1].key = call'[u].key
                      /\ call'[u].pc = "insert" => ~ Among(l, Len(l), call'[u].key)
    BY <1>3 DEF Positions, Among
  <2>1. CASE u = t
    BY <1>1, <2>1
  <2>2. CASE u # t
    BY <1>1, <2>2 DEF Positions
  <2> QED
    BY <2>1, <2>2
<1>8. Contents'
  <2> SUFFICES ASSUME NEW k \in Keys, NEW u \in Threads, call[u].pc = "insert", call[u].key = k
               PROVE  call'[u].pc = "insert" /\ call'[u].key = k
    BY DEF Contents, Among
  <2> QED
    BY <1>1
<1>9. FoundIsLatest'
  BY <1>1 DEF FoundIsLatest
<1> QED
  BY <1>2, <1>5, <1>6, <1>7, <1>8, <1>9

\* A comparison that fails moves the iterator past an entry of another key.
LEMMA PastOther ==
  ASSUME NEW l \in Seq(Entry), NEW n \in Nat, NEW k, ~ Among(l, n, k),
         ~ AtEnd(l, n), ~ Matches(l[Succ(n)], k)
  PROVE  n + 1 \in Nat /\ n + 1 =< Len(l) /\ ~ Among(l, n + 1, k)
<1>1. n + 1 =< Len(l) /\ l[n + 1].key # k
  BY DEF AtEnd, Succ, Matches
<1>2. ASSUME NEW i \in 1 .. n + 1 PROVE l[i].key # k
  <2>1. CASE i \in 1 .. n
    BY <2>1 DEF Among
  <2>2. CASE i = n + 1
    BY <1>1, <2>2
  <2> QED
    BY <2>1, <2>2
<1> QED
  BY <1>1, <1>2 DEF Among

LEMMA FindNextKeeps == ASSUME TableInv, NEW t \in Threads, FindNext(t) PROVE TableInv'
<1>1. Writing(t) /\ call[t] \in PutCall /\ BucketOf(t) \in Buckets /\ call[t].pc = "find"
  BY Shape DEF FindNext, Writing, TableInv
<1>2. PICK r : r = [call[t] EXCEPT !.last = @ + 1]
  OBVIOUS
<1>3. call' = [call EXCEPT ![t] = r]
  BY <1>2 DEF FindNext, Succ
<1>4. /\ r \in PutCall /\ r.pc = "find" /\ r.key = call[t].key /\ r.last = call[t].last + 1
      /\ call[t].last \in Nat
  BY <1>1, <1>2 DEF PutCall
<1>5. list[BucketOf(t)] \in Seq(Entry)
  BY <1>1 DEF TableInv, Types
<1>6. ~ Among(list[BucketOf(t)], call[t].last, call[t].key)
  BY <1>1 DEF TableInv, Positions
<1>7. r.last =< Len(list[BucketOf(t)]) /\ ~ Among(list[BucketOf(t)], r.last, r.key)
  BY <1>4, <1>5, <1>6, PastOther DEF FindNext
<1> QED
  BY <1>1, <1>3, <1>4, <1>7, Looks DEF FindNext

LEMMA GetNextKeeps == ASSUME TableInv, NEW t \in Threads, GetNext(t) PROVE TableInv'
<1>1. Reading(t) /\ call[t] \in GetCall /\ BucketOf(t) \in Buckets /\ call[t].pc = "get"
  BY Shape DEF GetNext, Reading, TableInv
<1>2. PICK r : r = [call[t] EXCEPT !.last = @ + 1]
  OBVIOUS
<1>3. call' = [call EXCEPT ![t] = r]
  BY <1>2 DEF GetNext, Succ
<1>4. /\ r \in GetCall /\ r.pc = "get" /\ r.key = call[t].key /\ r.last = call[t].last + 1
      /\ call[t].last \in Nat
  BY <1>1, <1>2 DEF GetCall
<1>5. list[BucketOf(t)] \in Seq(Entry)
  BY <1>1 DEF TableInv, Types
<1>6. ~ Among(list[BucketOf(t)], call[t].last, call[t].key)
  BY <1>1 DEF TableInv, Positions
<1>7. r.last =< Len(list[BucketOf(t)]) /\ ~ Among(list[BucketOf(t)], r.last, r.key)
  BY <1>4, <1>5, <1>6, PastOther DEF GetNext
<1> QED
  BY <1>1, <1>3, <1>4, <1>7, Looks DEF GetNext

\* find ended: in front of the entry, or behind the whole list.
LEMMA FoundKeeps == ASSUME TableInv, NEW t \in Threads, Found(t) PROVE TableInv'
<1>1. Writing(t) /\ call[t] \in PutCall /\ BucketOf(t) \in Buckets /\ call[t].pc = "find"
  BY Shape DEF Found, Writing, TableInv
<1>2. PICK l : l = list[BucketOf(t)]
  OBVIOUS
<1>3. PICK where \in BOOLEAN :
        call' = [call EXCEPT ![t].pc = IF ~ where THEN "unlock"
                                       ELSE IF ~ AtEnd(l, call[t].last) THEN "erase" ELSE "insert"]
  BY <1>2 DEF Found
<1>4. PICK x : x = IF ~ where THEN "unlock" ELSE IF ~ AtEnd(l, call[t].last) THEN "erase" ELSE "insert"
  OBVIOUS
<1>5. PICK r : r = [call[t] EXCEPT !.pc = x]
  OBVIOUS
<1>6. call' = [call EXCEPT ![t] = r]
  BY <1>3, <1>4, <1>5
<1>7. x \in {"unlock", "erase", "insert"}
  BY <1>4
<1>8. /\ r \in PutCall /\ r.pc = x /\ r.key = call[t].key /\ r.last = call[t].last
      /\ call[t].last \in Nat
  BY <1>1, <1>5, <1>7 DEF PutCall
<1>9. l \in Seq(Entry) /\ call[t].last =< Len(l) /\ ~ Among(l, call[t].last, call[t].key)
  BY <1>1, <1>2 DEF TableInv, Types, Positions
<1>10. x = "erase" => call[t].last < Len(l) /\ l[call[t].last + 1].key = call[t].key
  BY <1>2, <1>4, <1>8, <1>9 DEF Found, AtEnd, Succ, Matches
<1>11. x = "insert" => ~ Among(l, Len(l), call[t].key)
  <2> SUFFICES ASSUME AtEnd(l, call[t].last) PROVE ~ Among(l, Len(l), call[t].key)
    BY <1>4
  <2>1. call[t].last = Len(l)
    BY <1>8, <1>9 DEF AtEnd, Succ
  <2> QED
    BY <1>9, <2>1
<1> QED
  BY <1>1, <1>2, <1>6, <1>7, <1>8, <1>9, <1>10, <1>11, Looks DEF Found

\* get ended: its shared lock keeps every put of the key out, so that what it
\* found is the last value.
LEMMA GetEndsKeeps == ASSUME TableInv, NEW t \in Threads, GetEnds(t) PROVE TableInv'
<1>1. Reading(t) /\ call[t] \in GetCall /\ BucketOf(t) \in Buckets /\ call[t].pc = "get"
  BY Shape DEF GetEnds, Reading, TableInv
<1>2. PICK l : l = list[BucketOf(t)]
  OBVIOUS
<1>3. PICK kv : kv = IF AtEnd(l, call[t].last) THEN None ELSE l[Succ(call[t].last)].val
  OBVIOUS
<1>4. PICK r : r = [pc |-> "got", key |-> call[t].key, kv |-> kv]
  OBVIOUS
<1>5. call' = [call EXCEPT ![t] = r]
  BY <1>2, <1>3, <1>4 DEF GetEnds
<1>6. call[t].key \in Keys /\ call[t].last \in Nat /\ BucketOf(t) = hash[call[t].key]
  BY <1>1 DEF GetCall, BucketOf
<1>7. l \in Seq(Entry) /\ call[t].last =< Len(l) /\ ~ Among(l, call[t].last, call[t].key)
  BY <1>1, <1>2 DEF TableInv, Types, Positions
<1>8. kv \in Values \cup {None} /\ kv = IF call[t].key \in behind THEN None ELSE latest[call[t].key]
  <2>1. CASE AtEnd(l, call[t].last)
    <3>1. call[t].last = Len(l)
      BY <1>6, <1>7, <2>1 DEF AtEnd, Succ
    <3>2. ~ Among(l, Len(l), call[t].key)
      BY <1>7, <3>1
    <3>3. ASSUME NEW u \in Threads, call[u].pc = "insert", call[u].key = call[t].key PROVE FALSE
      <4>1. Writing(u) /\ u # t
        BY <1>1, <3>3 DEF Writing
      <4>2. BucketOf(t) # BucketOf(u)
        BY <1>1, <4>1, WriterAlone
      <4> QED
        BY <3>3, <4>2 DEF BucketOf
    <3>4. call[t].key \in behind \/ latest[call[t].key] = None
      BY <1>2, <1>6, <3>2, <3>3 DEF TableInv, Contents
    <3> QED
      BY <1>3, <2>1, <3>4
  <2>2. CASE ~ AtEnd(l, call[t].last)
    <3>1. call[t].last + 1 \in 1 .. Len(l) /\ l[call[t].last + 1].key = call[t].key
      BY <1>2, <1>6, <1>7, <2>2 DEF GetEnds, AtEnd, Succ, Matches
    <3>2. call[t].key \notin behind /\ l[call[t].last + 1].val = latest[call[t].key]
      BY <1>2, <1>6, <3>1 DEF TableInv, Contents
    <3>3. latest[call[t].key] \in Values \cup {None}
      BY <1>6 DEF TableInv, Types
    <3> QED
      BY <1>3, <2>2, <3>2, <3>3 DEF Succ
  <2> QED
    BY <2>1, <2>2
<1>9. r \in GotCall /\ r.pc = "got" /\ r.key = call[t].key /\ r.kv = kv
  BY <1>4, <1>6, <1>8 DEF GotCall
<1>10. UNCHANGED <<list, writer, readers, latest, behind>>
  BY DEF GetEnds
<1>11. r.pc = "got" => r.kv = IF r.key \in behind THEN None ELSE latest[r.key]
  BY <1>8, <1>9
<1>12. r.pc \notin {"find", "get", "insert"} /\ r.pc # "erase" /\ r.pc # "insert" /\ call[t].pc # "insert"
  BY <1>1, <1>9
<1> QED
  BY <1>1, <1>5, <1>9, <1>10, <1>11, <1>12, Looks

----------------------------------------------------------------------------
(* Steps that change a list: nobody else has an iterator in it.            *)

LEMMA Rewrites ==
  ASSUME TableInv, NEW t \in Threads, Writing(t), NEW b, b = BucketOf(t),
         NEW r \in Seq(Entry), WellFormed(r, b), list' = [list EXCEPT ![b] = r],
         NEW c \in PutCall, c.key = call[t].key, call' = [call EXCEPT ![t] = c],
         c.pc \in {"insert", "unlock"},
         c.pc = "insert" => c.last =< Len(r) /\ ~ Among(r, Len(r), c.key),
         UNCHANGED <<writer, readers>>
  PROVE  /\ list' \in [Buckets -> Seq(Entry)]
         /\ call' \in [Threads -> {Idle} \cup PutCall \cup GetCall \cup GotCall]
         /\ Locked' /\ Lists' /\ Positions'
<1> USE DEF TableInv
<1>1. b \in Buckets
  BY Shape
<1>2. /\ list' \in [Buckets -> Seq(Entry)] /\ list'[b] = r
      /\ \A d \in Buckets : d # b => list'[d] = list[d]
  BY <1>1 DEF Types
<1>3. /\ call' \in [Threads -> {Idle} \cup PutCall \cup GetCall \cup GotCall] /\ call'[t] = c
      /\ \A u \in Threads : u # t => call'[u] = call[u]
  BY DEF Types
<1>4. \A u \in Threads : BucketOf(u)' = BucketOf(u)
  BY <1>3 DEF BucketOf
<1>5. \A u \in Threads : (Writing(u)' <=> Writing(u)) /\ (Reading(u)' <=> Reading(u))
  <2>1. Writing(t)' /\ ~ Reading(t)' /\ ~ Reading(t)
    BY <1>3 DEF Writing, Reading
  <2> QED
    BY <1>3, <2>1 DEF Writing, Reading
<1>6. Locked'
  BY <1>4, <1>5 DEF Locked
<1>7. Lists'
  <2> SUFFICES ASSUME NEW d \in Buckets PROVE WellFormed(list'[d], d)
    BY DEF Lists, WellFormed, Buckets
  <2> QED
    BY <1>2 DEF Lists
<1>8. Positions'
  <2> SUFFICES ASSUME NEW u \in Threads
               PROVE  LET l == list'[BucketOf(u)] IN
                      /\ call'[u].pc \in {"find", "get", "insert"} =>
                           call'[u].last =< Len(l) /\ ~ Among(l, call'[u].last, call'[u].key)
                      /\ call'[u].pc = "erase" =>
                           call'[u].last < Len(l) /\ l[call'[u].last + 1].key = call'[u].key
                      /\ call'[u].pc = "insert" => ~ Among(l, Len(l), call'[u].key)
    BY <1>4 DEF Positions, Among
  <2>1. CASE u = t
    <3>1. list'[BucketOf(u)] = r /\ call'[u] = c
      BY <1>2, <1>3, <2>1
    <3>2. CASE c.pc = "insert"
      <4>1. c.last =< Len(r) /\ ~ Among(r, Len(r), c.key) /\ c.last \in Nat /\ Len(r) \in Nat
        BY <3>2 DEF PutCall
      <4>2. ~ Among(r, c.last, c.key)
        BY <4>1 DEF Among
      <4> QED
        BY <3>1, <3>2, <4>1, <4>2
    <3>3. CASE c.pc = "unlock"
      BY <3>1, <3>3
    <3> QED
      BY <3>2, <3>3
  <2>2. CASE u # t /\ (Writing(u) \/ Reading(u))
    <3>1. BucketOf(u) # b /\ BucketOf(u) \in Buckets
      BY <2>2, WriterAlone, Shape
    <3> QED
      BY <1>2, <1>3, <2>2, <3>1 DEF Positions
  <2>3. CASE u # t /\ ~ Writing(u) /\ ~ Reading(u)
    BY <1>3, <2>3 DEF Writing, Reading
  <2> QED
    BY <2>1, <2>2, <2>3
<1> QED
  BY <1>2, <1>3, <1>6, <1>7, <1>8

\* Keys of other buckets, and readers there, do not notice.
LEMMA EraseKeeps == ASSUME TableInv, NEW t \in Threads, Erase(t) PROVE TableInv'
<1> USE DEF TableInv
<1>1. Writing(t) /\ call[t] \in PutCall /\ BucketOf(t) \in Buckets /\ call[t].pc = "erase"
  BY Shape DEF Erase, Writing
<1>2. PICK b, k, p : b = BucketOf(t) /\ k = call[t].key /\ p = call[t].last
  OBVIOUS
<1>3. b \in Buckets /\ k \in Keys /\ p \in Nat /\ b = hash[k]
  BY <1>1, <1>2 DEF PutCall, BucketOf
<1>4. PICK l : l = list[b]
  OBVIOUS
<1>5. l \in Seq(Entry) /\ WellFormed(l, b) /\ p < Len(l) /\ l[p + 1].key = k
  BY <1>1, <1>2, <1>3, <1>4 DEF Types, Lists, Positions
<1>6. PICK r : r = erase_after(l, p)
  OBVIOUS
<1>7. /\ r \in Seq(Entry) /\ WellFormed(r, b) /\ p =< Len(r) /\ ~ Among(r, Len(r), k)
      /\ \A i \in 1 .. Len(r) : \E j \in 1 .. Len(l) : r[i] = l[j]
      /\ \A j \in 1 .. Len(l) : j # p + 1 => \E i \in 1 .. Len(r) : r[i] = l[j]
  <2>1. b \in Buckets /\ l \in Seq(Entry) /\ WellFormed(l, b) /\ p \in Nat /\ p < Len(l)
    BY <1>3, <1>5
  <2>2. Without(erase_after(l, p), l, p, b)
    BY <2>1, EraseAfter
  <2> QED
    BY <1>5, <1>6, <2>2, Zenon DEF Without
<1>8. PICK c : c = [call[t] EXCEPT !.pc = "insert"]
  OBVIOUS
<1>9. c \in PutCall /\ c.pc = "insert" /\ c.key = k /\ c.last = p
  BY <1>1, <1>2, <1>8 DEF PutCall
<1>10. /\ list' = [list EXCEPT ![b] = r] /\ call' = [call EXCEPT ![t] = c]
       /\ UNCHANGED <<writer, readers, latest, behind>>
  BY <1>2, <1>4, <1>6, <1>8 DEF Erase
<1>11. /\ list' \in [Buckets -> Seq(Entry)]
       /\ call' \in [Threads -> {Idle} \cup PutCall \cup GetCall \cup GotCall]
       /\ Locked' /\ Lists' /\ Positions'
  BY <1>1, <1>2, <1>7, <1>9, <1>10, Rewrites
<1>12. Types'
  BY <1>10, <1>11 DEF Types
<1>13. call'[t] = c /\ \A u \in Threads : u # t => call'[u] = call[u]
  BY <1>10 DEF Types
<1>14. list'[b] = r /\ \A d \in Buckets : d # b => list'[d] = list[d]
  BY <1>3, <1>10 DEF Types
<1>15. Contents'
  <2> SUFFICES ASSUME NEW q \in Keys
               PROVE  /\ \A i \in 1 .. Len(list'[hash[q]]) : list'[hash[q]][i].key = q =>
                           q \notin behind /\ list'[hash[q]][i].val = latest[q]
                      /\ \/ q \in behind \/ latest[q] = None
                         \/ Among(list'[hash[q]], Len(list'[hash[q]]), q)
                         \/ \E u \in Threads : call'[u].pc = "insert" /\ call'[u].key = q
    BY <1>10 DEF Contents, Among
  <2>0. hash[q] \in Buckets
    BY HashAssumption DEF Buckets
  <2>1. /\ \A i \in 1 .. Len(list[hash[q]]) : list[hash[q]][i].key = q =>
             q \notin behind /\ list[hash[q]][i].val = latest[q]
        /\ \/ q \in behind \/ latest[q] = None
           \/ Among(list[hash[q]], Len(list[hash[q]]), q)
           \/ \E u \in Threads : call[u].pc = "insert" /\ call[u].key = q
    BY DEF Contents
  <2>2. ASSUME NEW u \in Threads, call[u].pc = "insert", call[u].key = q
        PROVE  call'[u].pc = "insert" /\ call'[u].key = q
    BY <1>1, <1>13, <2>2
  <2>3. CASE hash[q] # b
    BY <1>14, <2>0, <2>1, <2>2, <2>3
  <2>4. CASE hash[q] = b
    <3>1. list[hash[q]] = l /\ list'[hash[q]] = r
      BY <1>4, <1>14, <2>4
    <3>2. \A i \in 1 .. Len(r) : r[i].key = q => q \notin behind /\ r[i].val = latest[q]
      BY <1>7, <2>1, <3>1
    <3>3. CASE q = k
      BY <1>9, <1>13, <3>1, <3>2, <3>3
    <3>4. CASE q # k
      <4>1. Among(l, Len(l), q) => Among(r, Len(r), q)
        BY <1>5, <1>7, <3>4 DEF Among
      <4> QED
        BY <2>1, <2>2, <3>1, <3>2, <4>1
    <3> QED
      BY <3>3, <3>4
  <2> QED
    BY <2>3, <2>4
<1>16. FoundIsLatest'
  BY <1>9, <1>10, <1>13 DEF FoundIsLatest
<1> QED
  BY <1>11, <1>12, <1>15, <1>16

\* The new value is the last one.  Behind before_begin the keys of the other
\* entries are dropped, which is what the history records.
LEMMA InsertKeeps == ASSUME TableInv, NEW t \in Threads, Insert(t) PROVE TableInv'
<1> USE DEF TableInv
<1>1. Writing(t) /\ call[t] \in PutCall /\ BucketOf(t) \in Buckets /\ call[t].pc = "insert"
  BY Shape DEF Insert, Writing
<1>2. PICK b, k, p, v : b = BucketOf(t) /\ k = call[t].key /\ p = call[t].last /\ v = call[t].val
  OBVIOUS
<1>3. b \in Buckets /\ k \in Keys /\ p \in Nat /\ v \in Values /\ b = hash[k]
  BY <1>1, <1>2 DEF PutCall, BucketOf
<1>4. PICK l : l = list[b]
  OBVIOUS
<1>5. l \in Seq(Entry) /\ WellFormed(l, b) /\ p =< Len(l) /\ ~ Among(l, Len(l), k)
  BY <1>1, <1>2, <1>3, <1>4 DEF Types, Lists, Positions
<1>6. PICK e : e = [key |-> k, val |-> v]
  OBVIOUS
<1>7. e \in Entry /\ e.key = k /\ e.val = v
  BY <1>3, <1>6 DEF Entry
<1>8. PICK r : r = emplace_after(l, p, e)
  OBVIOUS
<1>9. /\ r \in Seq(Entry) /\ WellFormed(r, b)
      /\ \E i \in 1 .. Len(r) : r[i] = e
      /\ \A i \in 1 .. Len(r) : r[i] = e \/ (p # 0 /\ \E j \in 1 .. Len(l) : r[i] = l[j])
      /\ p # 0 => \A j \in 1 .. Len(l) : \E i \in 1 .. Len(r) : r[i] = l[j]
  <2>1. /\ b \in Buckets /\ l \in Seq(Entry) /\ WellFormed(l, b) /\ p \in Nat /\ p =< Len(l)
        /\ e \in Entry /\ hash[e.key] = b /\ ~ Among(l, Len(l), e.key)
    BY <1>3, <1>5, <1>7
  <2>2. With(emplace_after(l, p, e), l, p, e, b)
    BY <2>1, EmplaceAfter
  <2> QED
    BY <1>8, <2>2, Zenon DEF With
<1>10. PICK c : c = [call[t] EXCEPT !.pc = "unlock"]
  OBVIOUS
<1>11. c \in PutCall /\ c.pc = "unlock" /\ c.key = k
  BY <1>1, <1>2, <1>10 DEF PutCall
<1>12. /\ list' = [list EXCEPT ![b] = r] /\ call' = [call EXCEPT ![t] = c]
       /\ latest' = [latest EXCEPT ![k] = v]
       /\ UNCHANGED <<writer, readers>>
  BY <1>2, <1>4, <1>6, <1>8, <1>10 DEF Insert
<1>13. /\ p # 0 => behind' = behind \ {k}
       /\ p = 0 => behind' = (behind \cup {l[i].key : i \in 1 .. Len(l)}) \ {k}
  <2>1. {x.key : x \in Range(l)} = {l[i].key : i \in 1 .. Len(l)}
    BY <1>5 DEF Range
  <2> QED
    BY <1>2, <1>4, <2>1 DEF Insert, before_begin
<1>14. /\ list' \in [Buckets -> Seq(Entry)]
       /\ call' \in [Threads -> {Idle} \cup PutCall \cup GetCall \cup GotCall]
       /\ Locked' /\ Lists' /\ Positions'
  BY <1>1, <1>2, <1>9, <1>11, <1>12, Rewrites
<1>15. Types'
  <2>1. ASSUME NEW i \in 1 .. Len(l) PROVE l[i].key \in Keys
    <3>1. l[i] \in Entry
      BY <1>5
    <3> QED
      BY <3>1 DEF Entry
  <2>2. behind' \subseteq Keys
    BY <1>13, <2>1 DEF Types
  <2> QED
    BY <1>3, <1>12, <1>14, <2>2 DEF Types
<1>16. call'[t] = c /\ \A u \in Threads : u # t => call'[u] = call[u]
  BY <1>12 DEF Types
<1>17. list'[b] = r /\ \A d \in Buckets : d # b => list'[d] = list[d]
  BY <1>3, <1>12 DEF Types
<1>18. latest'[k] = v /\ \A q \in Keys : q # k => latest'[q] = latest[q]
  BY <1>3, <1>12 DEF Types
<1>19. k \notin behind'
  BY <1>13
<1>20. \A q \in Keys : hash[q] # b => (q \in behind' <=> q \in behind)
  BY <1>3, <1>5, <1>13 DEF WellFormed
<1>21. Contents'
  <2> SUFFICES ASSUME NEW q \in Keys
               PROVE  /\ \A i \in 1 .. Len(list'[hash[q]]) : list'[hash[q]][i].key = q =>
                           q \notin behind' /\ list'[hash[q]][i].val = latest'[q]
                      /\ \/ q \in behind' \/ latest'[q] = None
                         \/ Among(list'[hash[q]], Len(list'[hash[q]]), q)
                         \/ \E u \in Threads : call'[u].pc = "insert" /\ call'[u].key = q
    BY DEF Contents, Among
  <2>0. hash[q] \in Buckets
    BY HashAssumption DEF Buckets
  <2>1. /\ \A i \in 1 .. Len(list[hash[q]]) : list[hash[q]][i].key = q =>
             q \notin behind /\ list[hash[q]][i].val = latest[q]
        /\ \/ q \in behind \/ latest[q] = None
           \/ Among(list[hash[q]], Len(list[hash[q]]), q)
           \/ \E u \in Threads : call[u].pc = "insert" /\ call[u].key = q
    BY DEF Contents
  <2>2. ASSUME q # k, NEW u \in Threads, call[u].pc = "insert", call[u].key = q
        PROVE  call'[u].pc = "insert" /\ call'[u].key = q
    BY <1>2, <1>16, <2>2
  <2>3. CASE hash[q] # b
    <3>1. q # k
      BY <1>3, <2>3
    <3> QED
      BY <1>17, <1>18, <1>20, <2>0, <2>1, <2>2, <2>3, <3>1
  <2>4. CASE q = k
    <3>1. list'[hash[q]] = r
      BY <1>3, <1>17, <2>4
    <3>2. \A i \in 1 .. Len(r) : r[i].key = k => r[i].val = v
      BY <1>5, <1>7, <1>9 DEF Among
    <3>3. Among(r, Len(r), k)
      BY <1>7, <1>9 DEF Among
    <3> QED
      BY <1>18, <1>19, <2>4, <3>1, <3>2, <3>3
  <2>5. CASE hash[q] = b /\ q # k
    <3>1. list[hash[q]] = l /\ list'[hash[q]] = r /\ latest'[q] = latest[q]
      BY <1>4, <1>17, <1>18, <2>5
    <3>2. CASE p = 0
      <4>1. \A i \in 1 .. Len(r) : r[i].key # q
        BY <1>7, <1>9, <2>5, <3>2
      <4>2. Among(l, Len(l), q) \/ q \in behind => q \in behind'
        BY <1>13, <2>5, <3>2 DEF Among
      <4> QED
        BY <2>1, <2>2, <2>5, <3>1, <4>1, <4>2
    <3>3. CASE p # 0
      <4>1. q \in behind' <=> q \in behind
        BY <1>13, <2>5, <3>3
      <4>2. \A i \in 1 .. Len(r) : r[i].key = q => q \notin behind /\ r[i].val = latest[q]
        BY <1>7, <1>9, <2>1, <2>5, <3>1
      <4>3. Among(l, Len(l), q) => Among(r, Len(r), q)
        BY <1>9, <3>3 DEF Among
      <4> QED
        BY <2>1, <2>2, <2>5, <3>1, <4>1, <4>2, <4>3
    <3> QED
      BY <3>2, <3>3
  <2> QED
    BY <2>3, <2>4, <2>5
<1>22. FoundIsLatest'
  <2> SUFFICES ASSUME NEW u \in Threads, call'[u].pc = "got"
               PROVE  call'[u].kv = IF call'[u].key \in behind' THEN None ELSE latest'[call'[u].key]
    BY DEF FoundIsLatest
  <2>1. u # t /\ call'[u] = call[u]
    BY <1>11, <1>16
  <2>2. Reading(u) /\ call[u].key \in Keys /\ hash[call[u].key] # b
    <3>1. Reading(u)
      BY <2>1 DEF Reading
    <3> QED
      BY <1>1, <1>2, <2>1, <3>1, Shape, WriterAlone DEF BucketOf
  <2>3. call[u].key # k
    BY <1>3, <2>2
  <2> QED
    BY <1>18, <1>20, <2>1, <2>2, <2>3 DEF FoundIsLatest
<1> QED
  BY <1>14, <1>15, <1>21, <1>22

----------------------------------------------------------------------------
(* Steps that lock and unlock.                                             *)

\* The lists and the history do not depend on who is idle; a thread that
\* starts stands in front of its list.
LEMMA ListsStay ==
  ASSUME TableInv, NEW t \in Threads, NEW r, call' = [call EXCEPT ![t] = r],
         UNCHANGED <<list, latest, behind>>, call[t].pc # "insert",
         \/ r = Idle
         \/ r \in PutCall /\ r.pc = "find" /\ r.last = before_begin
         \/ r \in GetCall /\ r.last = before_begin
  PROVE  Lists' /\ Positions' /\ Contents' /\ FoundIsLatest'
<1> USE DEF TableInv
<1>1. call'[t] = r /\ \A u \in Threads : u # t => call'[u] = call[u]
  BY DEF Types
<1>2. r.pc \in {"idle", "find", "get"} /\ (r.pc # "idle" => r.last = 0 /\ r.key \in Keys)
  BY DEF Idle, PutCall, GetCall, before_begin
<1>3. Lists'
  BY DEF Lists, WellFormed
<1>4. Positions'
  <2> SUFFICES ASSUME NEW u \in Threads, NEW l, l = list[BucketOf(u)']
               PROVE  /\ call'[u].pc \in {"find", "get", "insert"} =>
                           call'[u].last =< Len(l) /\ ~ Among(l, call'[u].last, call'[u].key)
                      /\ call'[u].pc = "erase" =>
                           call'[u].last < Len(l) /\ l[call'[u].last + 1].key = call'[u].key
                      /\ call'[u].pc = "insert" => ~ Among(l, Len(l), call'[u].key)
    BY DEF Positions, Among
  <2>1. CASE u = t
    <3>1. CASE r.pc = "idle"
      BY <1>1, <2>1, <3>1
    <3>2. CASE r.pc # "idle"
      <4>1. l = list[hash[r.key]] /\ hash[r.key] \in Buckets
        BY <1>1, <1>2, <2>1, <3>2, HashAssumption DEF BucketOf, Buckets
      <4>2. l \in Seq(Entry)
        BY <4>1 DEF Types
      <4>3. 0 =< Len(l) /\ ~ Among(l, 0, r.key)
        BY <4>2 DEF Among
      <4> QED
        BY <1>1, <1>2, <2>1, <3>2, <4>3
    <3> QED
      BY <3>1, <3>2
  <2>2. CASE u # t
    <3>1. BucketOf(u)' = BucketOf(u)
      BY <1>1, <2>2 DEF BucketOf
    <3> QED
      BY <1>1, <2>2, <3>1 DEF Positions
  <2> QED
    BY <2>1, <2>2
<1>5. Contents'
  <2> SUFFICES ASSUME NEW k \in Keys, NEW u \in Threads, call[u].pc = "insert", call[u].key = k
               PROVE  call'[u].pc = "insert" /\ call'[u].key = k
    BY DEF Contents, Among
  <2> QED
    BY <1>1
<1>6. FoundIsLatest'
  BY <1>1, <1>2 DEF FoundIsLatest
<1> QED
  BY <1>3, <1>4, <1>5, <1>6

LEMMA PutKeeps ==
  ASSUME TableInv, NEW t \in Threads, NEW k \in Keys, NEW v \in Values, Put(t, k, v)
  PROVE  TableInv'
<1> USE DEF TableInv
<1>1. PICK r : r = [pc |-> "find", key |-> k, val |-> v, last |-> before_begin]
  OBVIOUS
<1>2. r \in PutCall /\ r.pc = "find" /\ r.last = before_begin /\ r.key = k
  BY <1>1 DEF PutCall, before_begin
<1>3. PICK b : b = hash[k]
  OBVIOUS
<1>4. /\ call[t] = Idle /\ call[t].pc = "idle" /\ writer[b] = {} /\ readers[b] = {}
      /\ writer' = [writer EXCEPT ![b] = @ \cup {t}] /\ call' = [call EXCEPT ![t] = r]
      /\ UNCHANGED <<list, readers, latest, behind>> /\ b \in Buckets
  <2>1. call[t].pc = "idle" /\ call[t] = Idle
    BY DEF Put, Idle
  <2>2. /\ Lock(t, b) /\ writer' = [writer EXCEPT ![b] = @ \cup {t}]
        /\ call' = [call EXCEPT ![t] = r] /\ UNCHANGED <<list, readers, latest, behind>>
    BY <1>1, <1>3, Zenon DEF Put
  <2>3. b \in Buckets
    BY <1>3, HashAssumption DEF Buckets
  <2> QED
    BY <2>1, <2>2, <2>3 DEF Lock
<1>5. call'[t] = r /\ \A u \in Threads : u # t => call'[u] = call[u]
  BY <1>4 DEF Types
<1>6. Types'
  BY <1>2, <1>4 DEF Types
<1>7. Writing(t)' /\ ~ Reading(t)' /\ BucketOf(t)' = b
  BY <1>2, <1>3, <1>5 DEF Writing, Reading, BucketOf
<1>8. \A u \in Threads : u # t =>
        /\ (Writing(u)' <=> Writing(u)) /\ (Reading(u)' <=> Reading(u))
        /\ BucketOf(u)' = BucketOf(u)
  BY <1>5 DEF Writing, Reading, BucketOf
<1>9. \A u \in Threads : Writing(u) \/ Reading(u) => BucketOf(u) # b
  BY <1>4 DEF Locked
<1>10. writer'[b] = {t} /\ \A d \in Buckets : d # b => writer'[d] = writer[d]
  BY <1>4 DEF Types
<1>11. Locked'
  <2>1. ASSUME NEW u \in Threads, Writing(u)' PROVE u \in writer'[BucketOf(u)']
    BY <1>7, <1>8, <1>9, <1>10, <2>1, Shape DEF Locked
  <2>2. ASSUME NEW u \in Threads, Reading(u)' PROVE u \in readers'[BucketOf(u)']
    BY <1>4, <1>7, <1>8, <2>2 DEF Locked
  <2>3. ASSUME NEW u \in Threads, NEW w \in Threads, Writing(u)', Writing(w)' \/ Reading(w)', u # w
        PROVE  BucketOf(u)' # BucketOf(w)'
    BY <1>7, <1>8, <1>9, <2>3 DEF Locked
  <2> QED
    BY <2>1, <2>2, <2>3 DEF Locked
<1> QED
  BY <1>2, <1>4, <1>6, <1>11, ListsStay

LEMMA GetKeeps ==
  ASSUME TableInv, NEW t \in Threads, NEW k \in Keys, Get(t, k)
  PROVE  TableInv'
<1> USE DEF TableInv
<1>1. PICK r : r = [pc |-> "get", key |-> k, last |-> before_begin]
  OBVIOUS
<1>2. r \in GetCall /\ r.pc = "get" /\ r.last = before_begin /\ r.key = k
  BY <1>1 DEF GetCall, before_begin
<1>3. PICK b : b = hash[k]
  OBVIOUS
<1>4. /\ call[t] = Idle /\ call[t].pc = "idle" /\ writer[b] = {}
      /\ readers' = [readers EXCEPT ![b] = @ \cup {t}] /\ call' = [call EXCEPT ![t] = r]
      /\ UNCHANGED <<list, writer, latest, behind>> /\ b \in Buckets
  BY <1>1, <1>3, HashAssumption DEF Get, Idle, LockShared, Buckets
<1>5. call'[t] = r /\ \A u \in Threads : u # t => call'[u] = call[u]
  BY <1>4 DEF Types
<1>6. Types'
  BY <1>2, <1>4 DEF Types
<1>7. Reading(t)' /\ ~ Writing(t)' /\ BucketOf(t)' = b
  BY <1>2, <1>3, <1>5 DEF Writing, Reading, BucketOf
<1>8. \A u \in Threads : u # t =>
        /\ (Writing(u)' <=> Writing(u)) /\ (Reading(u)' <=> Reading(u))
        /\ BucketOf(u)' = BucketOf(u)
  BY <1>5 DEF Writing, Reading, BucketOf
<1>9. \A u \in Threads : Writing(u) => BucketOf(u) # b
  BY <1>4 DEF Locked
<1>10. t \in readers'[b] /\ \A d \in Buckets : readers[d] \subseteq readers'[d]
  BY <1>4 DEF Types
<1>11. Locked'
  <2>1. ASSUME NEW u \in Threads, Writing(u)' PROVE u \in writer'[BucketOf(u)']
    BY <1>4, <1>7, <1>8, <2>1 DEF Locked
  <2>2. ASSUME NEW u \in Threads, Reading(u)' PROVE u \in readers'[BucketOf(u)']
    BY <1>7, <1>8, <1>10, <2>2, Shape DEF Locked
  <2>3. ASSUME NEW u \in Threads, NEW w \in Threads, Writing(u)', Writing(w)' \/ Reading(w)', u # w
        PROVE  BucketOf(u)' # BucketOf(w)'
    BY <1>7, <1>8, <1>9, <2>3 DEF Locked
  <2> QED
    BY <2>1, <2>2, <2>3 DEF Locked
<1> QED
  BY <1>2, <1>4, <1>6, <1>11, ListsStay

LEMMA ReturnsKeep ==
  ASSUME TableInv, NEW t \in Threads, PutReturn(t) \/ GetReturn(t)
  PROVE  TableInv'
<1> USE DEF TableInv
<1>1. /\ call[t].pc \in {"unlock", "got"} /\ call' = [call EXCEPT ![t] = Idle]
      /\ UNCHANGED <<list, latest, behind>>
  BY DEF PutReturn, GetReturn
<1>2. call'[t] = Idle /\ \A u \in Threads : u # t => call'[u] = call[u]
  BY <1>1 DEF Types
<1>3. /\ writer' \in [Buckets -> SUBSET Threads] /\ readers' \in [Buckets -> SUBSET Threads]
      /\ \A d \in Buckets, u \in Threads : u # t =>
           (u \in writer[d] => u \in writer'[d]) /\ (u \in readers[d] => u \in readers'[d])
  <2>1. CASE PutReturn(t)
    BY <2>1 DEF PutReturn, Types
  <2>2. CASE GetReturn(t)
    BY <2>2 DEF GetReturn, Types
  <2> QED
    BY <2>1, <2>2
<1>4. Types'
  BY <1>1, <1>3 DEF Types
<1>5. ~ Writing(t)' /\ ~ Reading(t)'
  BY <1>2 DEF Writing, Reading, Idle
<1>6. \A u \in Threads : u # t =>
        /\ (Writing(u)' <=> Writing(u)) /\ (Reading(u)' <=> Reading(u))
        /\ BucketOf(u)' = BucketOf(u)
  BY <1>2 DEF Writing, Reading, BucketOf
<1>7. Locked'
  <2>1. ASSUME NEW u \in Threads, Writing(u)' PROVE u \in writer'[BucketOf(u)']
    BY <1>3, <1>5, <1>6, <2>1, Shape DEF Locked
  <2>2. ASSUME NEW u \in Threads, Reading(u)' PROVE u \in readers'[BucketOf(u)']
    BY <1>3, <1>5, <1>6, <2>2, Shape DEF Locked
  <2>3. ASSUME NEW u \in Threads, NEW w \in Threads, Writing(u)', Writing(w)' \/ Reading(w)', u # w
        PROVE  BucketOf(u)' # BucketOf(w)'
    BY <1>5, <1>6, <2>3 DEF Locked
  <2> QED
    BY <2>1, <2>2, <2>3 DEF Locked
<1> QED
  BY <1>1, <1>4, <1>7, ListsStay

LEMMA TableNext == ASSUME TableInv, [Next]_vars PROVE TableInv'
<1>1. CASE Next
  BY <1>1, GetKeeps, PutKeeps, FindNextKeeps, FoundKeeps, EraseKeeps, InsertKeeps, ReturnsKeep,
     GetNextKeeps, GetEndsKeeps DEF Next
<1>2. CASE UNCHANGED vars
  BY <1>2 DEF vars, TableInv, Types, Locked, Writing, Reading, BucketOf, Lists, WellFormed,
     Positions, Among, Contents, FoundIsLatest
<1> QED
  BY <1>1, <1>2

LEMMA TableInvariance == Spec => []TableInv
<1>1. Init => TableInv
  BY TableInit
<1>2. TableInv /\ [Next]_vars => TableInv'
  BY TableNext
<1> QED
  BY <1>1, <1>2, PTL DEF Spec

----------------------------------------------------------------------------

\* ehashtable's get returns the value of the last put of its key, for any
\* number of threads that call put and get, and None only for a key that was
\* never put or that an update of its bucket's first entry dropped.
THEOREM GetFindsTheLastPut == Spec => []FoundIsLatest
<1>1. TableInv => FoundIsLatest
  BY DEF TableInv
<1> QED
  BY <1>1, TableInvariance, PTL

\* No interleaving of puts leaves two entries of a key in the table, or one in
\* a bucket that a lookup would not search.
THEOREM NoKeyTwice == Spec => []OneEntryPerKey
<1>1. TableInv => OneEntryPerKey
  <2> SUFFICES ASSUME TableInv, NEW b \in Buckets
               PROVE  /\ IsInjective([i \in DOMAIN list[b] |-> list[b][i].key])
                      /\ \A i \in DOMAIN list[b] : hash[list[b][i].key] = b
    BY DEF OneEntryPerKey
  <2>1. DOMAIN list[b] = 1 .. Len(list[b]) /\ WellFormed(list[b], b)
    BY DEF TableInv, Types, Lists
  <2> QED
    BY <2>1 DEF WellFormed, IsInjective
<1> QED
  BY <1>1, TableInvariance, PTL
=============================================================================
