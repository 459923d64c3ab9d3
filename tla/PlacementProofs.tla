--------------------------- MODULE PlacementProofs ---------------------------
(***************************************************************************)
(* Machines agree on the group of a key, and keys reach every group, for   *)
(* clusters of every size.                                                 *)
(***************************************************************************)
EXTENDS Placement, FiniteSetTheorems, TLAPS

----------------------------------------------------------------------------
(* The groups of n machines, and what a machine should make of them.       *)

All(n) == {t \in (1 .. n) \X (1 .. n) \X (1 .. n) : t[1] < t[2] /\ t[2] < t[3]}
Group(t) == {t[1], t[2], t[3]}

Groups(n, m) ==
  [x \in 1 .. Cardinality(All(n)) |->
     LET g == Group(InLoopOrder(All(n))[x]) IN IF m \in g THEN g \ {m} ELSE {}]

\* What a machine that has ordered its replicas has, and where it sent.
PlaceInv ==
  /\ size \in Nat /\ key \in Nat
  /\ pc \in [Machine -> {"init", "ready", "sent", "crashed"}]
  /\ DOMAIN replicas = Machine /\ DOMAIN sent = Machine
  /\ \A m \in Machine :
       /\ pc[m] # "init" => replicas[m] = Groups(size, m)
       /\ pc[m] # "sent" => sent[m] = {}
       /\ pc[m] = "sent" => /\ replicas[m] # <<>>
                            /\ sent[m] = replicas[m][get_idx(key, Len(replicas[m])) + 1]
       /\ pc[m] = "crashed" => replicas[m] = <<>>

----------------------------------------------------------------------------
(* The order of the nested loops numbers the groups.                       *)

Before(s, t) == \/ s[1] < t[1]
                \/ s[1] = t[1] /\ s[2] < t[2]
                \/ s[1] = t[1] /\ s[2] = t[2] /\ s[3] < t[3]
Below(S, t) == {s \in S : Before(s, t)}

LEMMA TripleParts ==
  ASSUME NEW n \in Nat, NEW t \in All(n)
  PROVE  /\ t = <<t[1], t[2], t[3]>>
         /\ t[1] \in 1 .. n /\ t[2] \in 1 .. n /\ t[3] \in 1 .. n
         /\ t[1] \in Nat /\ t[2] \in Nat /\ t[3] \in Nat
         /\ t[1] < t[2] /\ t[2] < t[3]
  BY DEF All

LEMMA AllFinite ==
  ASSUME NEW n \in Nat
  PROVE  IsFiniteSet(All(n)) /\ Cardinality(All(n)) \in Nat
<1>1. PICK I : I = 1 .. n
  OBVIOUS
<1>2. IsFiniteSet(I)
  BY <1>1, FS_Interval
<1>3. PICK f : f = [t \in All(n) |-> <<<<t[1], t[2]>>, t[3]>>]
  OBVIOUS
<1>4. IsFiniteSet(I \X I)
  BY <1>2, FS_Product, Zenon
<1>5. IsFiniteSet((I \X I) \X I)
  BY <1>2, <1>4, FS_Product, Zenon
<1>6. f \in [All(n) -> (I \X I) \X I]
  BY <1>1, <1>3, TripleParts
<1>7. ASSUME NEW s \in All(n), NEW t \in All(n), f[s] = f[t] PROVE s = t
  <2>1. s[1] = t[1] /\ s[2] = t[2] /\ s[3] = t[3]
    BY <1>3, <1>7
  <2> QED
    BY <2>1, TripleParts
<1>8. f \in Injection(All(n), (I \X I) \X I)
  BY <1>6, <1>7 DEF Injection, IsInjective
<1>9. IsFiniteSet(All(n))
  BY <1>5, <1>8, FS_Injection
<1> QED
  BY <1>9, FS_CardinalityType

\* The number of groups produced before a group tells it from all others.
LEMMA RankDiffers ==
  ASSUME NEW n \in Nat, NEW s \in All(n), NEW t \in All(n), Before(s, t)
  PROVE  Cardinality(Below(All(n), s)) < Cardinality(Below(All(n), t))
<1>1. /\ s[1] \in Nat /\ s[2] \in Nat /\ s[3] \in Nat
      /\ t[1] \in Nat /\ t[2] \in Nat /\ t[3] \in Nat
  BY TripleParts
<1>2. ASSUME NEW u \in All(n), Before(u, s) PROVE Before(u, t)
  <2>1. u[1] \in Nat /\ u[2] \in Nat /\ u[3] \in Nat
    BY TripleParts
  <2> QED
    BY <1>1, <1>2, <2>1 DEF Before
<1>3. ~ Before(s, s)
  BY <1>1 DEF Before
<1>4. Below(All(n), s) \in SUBSET Below(All(n), t) /\ Below(All(n), s) # Below(All(n), t)
  <2>1. s \in Below(All(n), t) /\ s \notin Below(All(n), s)
    BY <1>3 DEF Below
  <2> QED
    BY <1>2, <2>1 DEF Below
<1>5. IsFiniteSet(Below(All(n), t)) /\ IsFiniteSet(Below(All(n), s))
  BY AllFinite, FS_Subset DEF Below
<1>6. /\ Cardinality(Below(All(n), s)) =< Cardinality(Below(All(n), t))
      /\ Cardinality(Below(All(n), s)) # Cardinality(Below(All(n), t))
  BY <1>4, <1>5, FS_Subset
<1>7. Cardinality(Below(All(n), s)) \in Nat /\ Cardinality(Below(All(n), t)) \in Nat
  BY <1>5, FS_CardinalityType
<1> QED
  BY <1>6, <1>7

\* A number belongs to one group, and a group has one number.
LEMMA LoopOrder ==
  ASSUME NEW n \in Nat
  PROVE  /\ \A x \in 1 .. Cardinality(All(n)) : InLoopOrder(All(n))[x] \in All(n)
         /\ \A t \in All(n) : \E x \in 1 .. Cardinality(All(n)) : InLoopOrder(All(n))[x] = t
<1>1. PICK N : N = Cardinality(All(n))
  OBVIOUS
<1>2. N \in Nat
  BY <1>1, AllFinite
<1>3. PICK rank : rank = [t \in All(n) |-> Cardinality(Below(All(n), t))]
  OBVIOUS
<1>4. ASSUME NEW t \in All(n) PROVE rank[t] \in 0 .. N - 1
  <2>1. ~ Before(t, t)
    BY TripleParts DEF Before
  <2>2. Below(All(n), t) \in SUBSET (All(n) \ {t})
    BY <2>1 DEF Below
  <2>3. IsFiniteSet(All(n) \ {t}) /\ Cardinality(All(n) \ {t}) = N - 1
    BY <1>1, AllFinite, FS_RemoveElement
  <2>4. /\ IsFiniteSet(Below(All(n), t))
        /\ Cardinality(Below(All(n), t)) =< N - 1
    BY <2>2, <2>3, FS_Subset
  <2>5. Cardinality(Below(All(n), t)) \in Nat
    BY <2>4, FS_CardinalityType
  <2>6. Cardinality(Below(All(n), t)) \in 0 .. N - 1
    BY <1>2, <2>4, <2>5
  <2> QED
    BY <1>3, <2>6
<1>5. ASSUME NEW s \in All(n), NEW t \in All(n), rank[s] = rank[t] PROVE s = t
  <2>1. ~ Before(s, t)
    BY <1>3, <1>4, <1>5, RankDiffers
  <2>2. ~ Before(t, s)
    BY <1>3, <1>4, <1>5, RankDiffers
  <2>3. /\ s[1] \in Nat /\ s[2] \in Nat /\ s[3] \in Nat
        /\ t[1] \in Nat /\ t[2] \in Nat /\ t[3] \in Nat
    BY TripleParts
  <2>4. s[1] = t[1] /\ s[2] = t[2] /\ s[3] = t[3]
    BY <2>1, <2>2, <2>3 DEF Before
  <2> QED
    BY <2>4, TripleParts
<1>6. rank \in Surjection(All(n), 0 .. N - 1)
  <2>1. rank \in Injection(All(n), 0 .. N - 1)
    BY <1>3, <1>4, <1>5 DEF Injection, IsInjective
  <2>2. IsFiniteSet(0 .. N - 1) /\ Cardinality(0 .. N - 1) = N
    BY <1>2, FS_Interval
  <2> QED
    BY <1>1, <2>1, <2>2, FS_Injection
<1>7. \A x \in 1 .. N : \E t \in All(n) : rank[t] = x - 1
  <2> SUFFICES ASSUME NEW x \in 1 .. N PROVE \E t \in All(n) : rank[t] = x - 1
    OBVIOUS
  <2>1. x - 1 \in 0 .. N - 1
    BY <1>2
  <2> QED
    BY <1>6, <2>1 DEF Surjection
<1>8. InLoopOrder(All(n)) = [x \in 1 .. N |->
        CHOOSE t \in All(n) : Cardinality(Below(All(n), t)) = x - 1]
  BY <1>1 DEF InLoopOrder, Below, Before
<1>9. ASSUME NEW x \in 1 .. N
      PROVE  InLoopOrder(All(n))[x] \in All(n) /\ rank[InLoopOrder(All(n))[x]] = x - 1
  <2>1. InLoopOrder(All(n))[x] = CHOOSE t \in All(n) : Cardinality(Below(All(n), t)) = x - 1
    BY <1>8
  <2>2. \E t \in All(n) : Cardinality(Below(All(n), t)) = x - 1
    BY <1>3, <1>7
  <2>3. InLoopOrder(All(n))[x] \in All(n) /\ Cardinality(Below(All(n), InLoopOrder(All(n))[x])) = x - 1
    BY <2>1, <2>2, Zenon
  <2> QED
    BY <1>3, <2>3
<1>10. ASSUME NEW t \in All(n) PROVE \E x \in 1 .. N : InLoopOrder(All(n))[x] = t
  <2>1. PICK x : x = rank[t] + 1
    OBVIOUS
  <2>2. x \in 1 .. N /\ x - 1 = rank[t]
    BY <1>2, <1>4, <2>1
  <2> QED
    BY <1>5, <1>9, <2>2
<1> QED
  BY <1>1, <1>9, <1>10

----------------------------------------------------------------------------
(* Positions in replica_info and back.                                     *)

LEMMA PositionOf ==
  ASSUME size \in Nat, NEW me \in Machine, NEW m \in Machine, m # me
  PROVE  /\ IndexOf(me, m) \in 0 .. size - 2
         /\ replica_info(me)[IndexOf(me, m) + 1] = m
<1>1. \E i \in 0 .. size - 2 : replica_info(me)[i + 1] = m
  <2>1. PICK i : i = IF m < me THEN m - 1 ELSE m - 2
    OBVIOUS
  <2>2. i \in 0 .. size - 2 /\ i + 1 \in 1 .. size - 1
    BY <2>1 DEF Machine
  <2>3. replica_info(me)[i + 1] = m
    BY <2>1, <2>2 DEF replica_info, Machine
  <2> QED
    BY <2>2, <2>3
<1>2. IndexOf(me, m) = CHOOSE i \in 0 .. size - 2 : replica_info(me)[i + 1] = m
  BY DEF IndexOf
<1> QED
  BY <1>1, <1>2

LEMMA MinMaxOfTwo ==
  ASSUME NEW a \in Int, NEW b \in Int
  PROVE  {Min({a, b}), Max({a, b})} = {a, b}
<1>1. CASE a =< b
  <2>1. Min({a, b}) = a
    BY <1>1 DEF Min
  <2>2. Max({a, b}) = b
    BY <1>1 DEF Max
  <2> QED
    BY <2>1, <2>2
<1>2. CASE b < a
  <2>1. Min({a, b}) = b
    BY <1>2 DEF Min
  <2>2. Max({a, b}) = a
    BY <1>2 DEF Max
  <2> QED
    BY <2>1, <2>2
<1> QED
  BY <1>1, <1>2

\* From the two positions a machine has for a group it is in, it gets back the
\* other two members.
LEMMA TwoOthers ==
  ASSUME size \in Nat, NEW me \in Machine, NEW p \in Machine, NEW q \in Machine,
         p # me, q # me, NEW two, two = {IndexOf(me, p), IndexOf(me, q)}
  PROVE  {replica_info(me)[Min(two) + 1], replica_info(me)[Max(two) + 1]} = {p, q}
<1>1. PICK a, b : a = IndexOf(me, p) /\ b = IndexOf(me, q)
  OBVIOUS
<1>2. /\ a \in Int /\ b \in Int
      /\ replica_info(me)[a + 1] = p /\ replica_info(me)[b + 1] = q
  BY <1>1, PositionOf
<1>3. {Min(two), Max(two)} = {a, b}
  BY <1>1, <1>2, MinMaxOfTwo
<1>4. CASE Min(two) = a /\ Max(two) = b
  BY <1>2, <1>4
<1>5. CASE Min(two) = b /\ Max(two) = a
  BY <1>2, <1>5
<1>6. CASE Min(two) = Max(two)
  <2>1. Min(two) = a /\ Max(two) = a /\ b = a
    BY <1>3, <1>6
  <2>2. p = q
    BY <1>2, <2>1
  <2> QED
    BY <1>2, <2>1, <2>2
<1> QED
  BY <1>3, <1>4, <1>5, <1>6

\* permutations and replica_ordering together: a machine stores, under the
\* number of each group it is in, the other two.
LEMMA OrderedGroups ==
  ASSUME size \in Nat, NEW me \in Machine
  PROVE  LET order == permutations(me)
             info == replica_info(me)
         IN [x \in DOMAIN order |->
               IF order[x][1] THEN {info[order[x][2] + 1], info[order[x][3] + 1]} ELSE {}]
            = Groups(size, me)
<1>1. PICK N : N = Cardinality(All(size))
  OBVIOUS
<1>2. PICK L : L = InLoopOrder(All(size))
  OBVIOUS
<1>3. Triples = L
  BY <1>2 DEF Triples, All, Machine
<1>4. DOMAIN L = 1 .. N
  BY <1>1, <1>2 DEF InLoopOrder
<1>5. PICK at : at = [x \in 1 .. N |-> {IndexOf(me, L[x][j]) : j \in 1 .. 3}]
  OBVIOUS
<1>6. PICK two : two = [x \in 1 .. N |->
        IF -1 \in at[x] THEN at[x] \ {-1} ELSE {IndexOf(me, L[x][j]) : j \in 1 .. 2}]
  OBVIOUS
<1>7. permutations(me) = [x \in 1 .. N |-> <<-1 \in at[x], Min(two[x]), Max(two[x])>>]
  BY <1>3, <1>4, <1>5, <1>6 DEF permutations
<1>8. ASSUME NEW x \in 1 .. N
      PROVE  (IF -1 \in at[x]
              THEN {replica_info(me)[Min(two[x]) + 1], replica_info(me)[Max(two[x]) + 1]} ELSE {})
             = IF me \in Group(L[x]) THEN Group(L[x]) \ {me} ELSE {}
  <2>1. PICK a, b, c : a = L[x][1] /\ b = L[x][2] /\ c = L[x][3]
    OBVIOUS
  <2>2. L[x] \in All(size)
    BY <1>1, <1>2, LoopOrder
  <2>3. /\ a \in Machine /\ b \in Machine /\ c \in Machine
        /\ a # b /\ a # c /\ b # c
    BY <2>1, <2>2, TripleParts DEF Machine
  <2>4. at[x] = {IndexOf(me, a), IndexOf(me, b), IndexOf(me, c)}
    BY <1>5, <2>1
  <2>5. Group(L[x]) = {a, b, c}
    BY <2>1 DEF Group
  <2>6. IndexOf(me, me) = -1
    BY DEF IndexOf
  <2>7. \A m \in Machine : m # me => IndexOf(me, m) \in Nat /\ IndexOf(me, m) # -1
    BY PositionOf
  <2>8. -1 \in at[x] <=> me \in {a, b, c}
    BY <2>3, <2>4, <2>6, <2>7
  <2>9. ASSUME NEW p \in Machine, NEW q \in Machine, p # me, q # me, me \in {a, b, c},
               {p, q} = {a, b, c} \ {me}
        PROVE  {replica_info(me)[Min(two[x]) + 1], replica_info(me)[Max(two[x]) + 1]} = {p, q}
    <3>1. {a, b, c} = {me, p, q}
      BY <2>9
    <3>2. at[x] = {-1, IndexOf(me, p), IndexOf(me, q)}
      BY <2>4, <2>6, <3>1
    <3>3. two[x] = {IndexOf(me, p), IndexOf(me, q)}
      BY <1>6, <2>7, <2>9, <3>2
    <3> QED
      BY <2>9, <3>3, TwoOthers
  <2>10. CASE me = a
    BY <2>3, <2>5, <2>8, <2>9, <2>10
  <2>11. CASE me = b
    BY <2>3, <2>5, <2>8, <2>9, <2>11
  <2>12. CASE me = c
    BY <2>3, <2>5, <2>8, <2>9, <2>12
  <2>13. CASE me \notin {a, b, c}
    BY <2>5, <2>8, <2>13
  <2> QED
    BY <2>10, <2>11, <2>12, <2>13
<1>9. PICK P : P = permutations(me)
  OBVIOUS
<1>10. DOMAIN P = 1 .. N /\ \A x \in 1 .. N :
         P[x][1] = (-1 \in at[x]) /\ P[x][2] = Min(two[x]) /\ P[x][3] = Max(two[x])
  BY <1>7, <1>9
<1>11. [x \in DOMAIN P |-> IF P[x][1] THEN {replica_info(me)[P[x][2] + 1], replica_info(me)[P[x][3] + 1]}
                           ELSE {}]
       = [x \in 1 .. N |-> IF me \in Group(L[x]) THEN Group(L[x]) \ {me} ELSE {}]
  BY <1>8, <1>10
<1> QED
  BY <1>1, <1>2, <1>9, <1>11 DEF Groups

----------------------------------------------------------------------------
(* The invariant.                                                          *)

LEMMA PlaceInit == ASSUME Init PROVE PlaceInv
  BY SizeAssumption, KeysAssumption DEF Init, PlaceInv

LEMMA PlaceNext == ASSUME PlaceInv, [Next]_vars PROVE PlaceInv'
<1> USE DEF PlaceInv
<1>1. ASSUME NEW me \in Machine, ReplicaOrdering(me) PROVE PlaceInv'
  <2>1. replicas' = [replicas EXCEPT ![me] = Groups(size, me)]
    BY <1>1, OrderedGroups, Zenon DEF ReplicaOrdering
  <2>2. /\ UNCHANGED <<size, key, sent>> /\ Machine' = Machine /\ pc[me] = "init"
        /\ pc' = [pc EXCEPT ![me] = "ready"]
    BY <1>1 DEF ReplicaOrdering, Machine
  <2>3. \A m \in Machine : Groups(size, m)' = Groups(size, m)
    BY <2>2 DEF Groups
  <2> QED
    BY <2>1, <2>2, <2>3 DEF get_idx
<1>2. ASSUME NEW me \in Machine, SendAndEncrypt(me) PROVE PlaceInv'
  <2>1. /\ UNCHANGED <<size, key, replicas>> /\ Machine' = Machine
        /\ pc[me] = "ready" /\ replicas[me] # <<>>
        /\ sent' = [sent EXCEPT ![me] = replicas[me][get_idx(key, Len(replicas[me])) + 1]]
        /\ pc' = [pc EXCEPT ![me] = "sent"]
    BY <1>2 DEF SendAndEncrypt, Machine
  <2>2. \A m \in Machine : Groups(size, m)' = Groups(size, m)
    BY <2>1 DEF Groups
  <2> QED
    BY <2>1, <2>2 DEF get_idx
<1>3. ASSUME NEW me \in Machine, DivideByZero(me) PROVE PlaceInv'
  <2>1. /\ UNCHANGED <<size, key, replicas, sent>> /\ Machine' = Machine
        /\ pc[me] = "ready" /\ replicas[me] = <<>> /\ pc' = [pc EXCEPT ![me] = "crashed"]
    BY <1>3 DEF DivideByZero, Machine
  <2>2. \A m \in Machine : Groups(size, m)' = Groups(size, m)
    BY <2>1 DEF Groups
  <2> QED
    BY <2>1, <2>2 DEF get_idx
<1>4. CASE UNCHANGED vars
  BY <1>4 DEF vars, Machine, Groups, get_idx
<1> QED
  BY <1>1, <1>2, <1>3, <1>4 DEF Next

LEMMA PlaceInvariance == Spec => []PlaceInv
<1>1. Init => PlaceInv
  BY PlaceInit
<1>2. PlaceInv /\ [Next]_vars => PlaceInv'
  BY PlaceNext
<1> QED
  BY <1>1, <1>2, PTL DEF Spec

----------------------------------------------------------------------------
(* What it says about groups.                                              *)

LEMMA GroupsLen ==
  ASSUME NEW n \in Nat, NEW m
  PROVE  /\ Len(Groups(n, m)) = Cardinality(All(n))
         /\ DOMAIN Groups(n, m) = 1 .. Cardinality(All(n))
         /\ Groups(n, m) = <<>> <=> Cardinality(All(n)) = 0
<1>1. PICK N \in Nat : N = Cardinality(All(n))
  BY AllFinite
<1>2. DOMAIN Groups(n, m) = 1 .. N
  BY <1>1 DEF Groups
<1>3. PICK S : \A x \in 1 .. N : Groups(n, m)[x] \in S
  <2>1. \A x \in 1 .. N : Groups(n, m)[x] \in {Groups(n, m)[y] : y \in 1 .. N}
    OBVIOUS
  <2> QED
    BY <2>1
<1>4. Groups(n, m) \in [1 .. N -> S]
  <2>1. Groups(n, m) = [x \in 1 .. N |-> Groups(n, m)[x]]
    BY <1>1 DEF Groups
  <2> QED
    BY <1>3, <2>1
<1>5. Groups(n, m) \in Seq(S) /\ Len(Groups(n, m)) = N
  BY <1>4
<1>6. N = 0 => Groups(n, m) = <<>>
  BY <1>5
<1>7. Groups(n, m) = <<>> => N = 0
  BY <1>5
<1> QED
  BY <1>1, <1>2, <1>5, <1>6, <1>7

\* A group has three members.
LEMMA GroupOfThree ==
  ASSUME NEW n \in Nat, NEW t \in All(n)
  PROVE  Group(t) \subseteq 1 .. n /\ Cardinality(Group(t)) = 3 /\ IsFiniteSet(Group(t))
<1>1. PICK a, b, c : a = t[1] /\ b = t[2] /\ c = t[3]
  OBVIOUS
<1>2. a \in 1 .. n /\ b \in 1 .. n /\ c \in 1 .. n /\ a # b /\ a # c /\ b # c
  BY <1>1, TripleParts
<1>3. IsFiniteSet({a}) /\ Cardinality({a}) = 1
  BY FS_Singleton
<1>4. IsFiniteSet({a} \cup {b}) /\ Cardinality({a} \cup {b}) = 2
  BY <1>2, <1>3, FS_AddElement
<1>5. IsFiniteSet(({a} \cup {b}) \cup {c}) /\ Cardinality(({a} \cup {b}) \cup {c}) = 3
  BY <1>2, <1>4, FS_AddElement
<1>6. Group(t) = ({a} \cup {b}) \cup {c}
  BY <1>1 DEF Group
<1> QED
  BY <1>2, <1>5, <1>6

\* Three machines form a group.
Forms(n, a, b, c) == \E t \in All(n) : \A y : y \in Group(t) <=> y = a \/ y = b \/ y = c

LEMMA GroupExists ==
  ASSUME NEW n \in Nat, NEW a \in 1 .. n, NEW b \in 1 .. n, NEW c \in 1 .. n,
         a # b, a # c, b # c
  PROVE  Forms(n, a, b, c)
<1>1. ASSUME NEW x \in 1 .. n, NEW y \in 1 .. n, NEW z \in 1 .. n, x < y, y < z,
             {x, y, z} = {a, b, c}
      PROVE  Forms(n, a, b, c)
  <2>1. <<x, y, z>> \in All(n)
    BY <1>1 DEF All
  <2>2. \A w : w \in Group(<<x, y, z>>) <=> w = a \/ w = b \/ w = c
    BY <1>1 DEF Group
  <2> QED
    BY <2>1, <2>2 DEF Forms
<1>2. CASE a < b /\ b < c
  BY <1>1, <1>2
<1>3. CASE a < c /\ c < b
  BY <1>1, <1>3
<1>4. CASE b < a /\ a < c
  BY <1>1, <1>4
<1>5. CASE b < c /\ c < a
  BY <1>1, <1>5
<1>6. CASE c < a /\ a < b
  BY <1>1, <1>6
<1>7. CASE c < b /\ b < a
  BY <1>1, <1>7
<1> QED
  BY <1>2, <1>3, <1>4, <1>5, <1>6, <1>7

\* The group of the key, whoever looks for it.
KeyGroup == Group(InLoopOrder(All(size))[(key % Cardinality(All(size))) + 1])

\* What a machine sent the key's request to: its number in the cluster's list
\* of groups is the same everywhere.
LEMMA SentToGroup ==
  ASSUME PlaceInv, NEW m \in Machine, pc[m] = "sent"
  PROVE  /\ sent[m] = IF m \in KeyGroup THEN KeyGroup \ {m} ELSE {}
         /\ KeyGroup \subseteq Machine /\ Cardinality(KeyGroup) = 3 /\ IsFiniteSet(KeyGroup)
<1>0. PICK N, g : N = Cardinality(All(size)) /\ g = KeyGroup
  OBVIOUS
<1>1. replicas[m] = Groups(size, m) /\ replicas[m] # <<>> /\ size \in Nat /\ key \in Nat
      /\ sent[m] = replicas[m][get_idx(key, Len(replicas[m])) + 1]
  BY DEF PlaceInv
<1>2. N \in Nat /\ N # 0
  BY <1>0, <1>1, AllFinite, GroupsLen
<1>3. PICK x : x = (key % N) + 1
  OBVIOUS
<1>4. x \in 1 .. N
  BY <1>1, <1>2, <1>3
<1>5. sent[m] = Groups(size, m)[x]
  BY <1>0, <1>1, <1>3, GroupsLen DEF get_idx
<1>6. g = Group(InLoopOrder(All(size))[x])
  BY <1>0, <1>3 DEF KeyGroup
<1>7. Groups(size, m)[x] = IF m \in g THEN g \ {m} ELSE {}
  BY <1>0, <1>4, <1>6 DEF Groups
<1>8. InLoopOrder(All(size))[x] \in All(size)
  BY <1>0, <1>1, <1>4, LoopOrder
<1>9. g \subseteq Machine /\ Cardinality(g) = 3 /\ IsFiniteSet(g)
  BY <1>1, <1>6, <1>8, GroupOfThree DEF Machine
<1> QED
  BY <1>0, <1>5, <1>7, <1>9

LEMMA AgreedGroup == ASSUME PlaceInv PROVE OneGroupPerKey
<1>1. PICK g : g = KeyGroup
  OBVIOUS
<1>3. ASSUME NEW m \in Machine, pc[m] = "sent"
      PROVE  /\ sent[m] = IF m \in g THEN g \ {m} ELSE {}
             /\ g \subseteq Machine /\ Cardinality(g) = 3 /\ IsFiniteSet(g)
  BY <1>1, <1>3, SentToGroup
<1>4. ASSUME NEW m \in Coordinators PROVE {m} \cup sent[m] = g /\ pc[m] = "sent" /\ m \in Machine
  <2>1. m \in Machine /\ sent[m] # {} /\ pc[m] = "sent"
    BY DEF Coordinators, PlaceInv
  <2>2. m \in g /\ sent[m] = g \ {m}
    BY <1>3, <2>1
  <2> QED
    BY <2>1, <2>2
<1>5. ASSUME NEW m \in Skipping PROVE m \notin g
  <2>1. m \in Machine /\ pc[m] = "sent" /\ sent[m] = {}
    BY DEF Skipping
  <2>2. g # {m}
    <3>1. Cardinality({m}) = 1
      BY FS_Singleton
    <3> QED
      BY <1>3, <2>1, <3>1
  <2> QED
    BY <1>3, <2>1, <2>2
<1> QED
  BY <1>3, <1>4, <1>5 DEF OneGroupPerKey

LEMMA TwoMembers ==
  ASSUME NEW S, IsFiniteSet(S), Cardinality(S) = 2
  PROVE  \E p, q : p # q /\ S = {p, q}
<1>1. S # {}
  BY FS_EmptySet
<1>2. PICK p : p \in S
  BY <1>1
<1>3. IsFiniteSet(S \ {p}) /\ Cardinality(S \ {p}) = 1
  BY <1>2, FS_RemoveElement
<1>4. PICK q : S \ {p} = {q}
  BY <1>3, FS_Singleton
<1>5. p # q /\ S = {p, q}
  BY <1>2, <1>4, Zenon
<1> QED
  BY <1>5

LEMMA WithoutOne ==
  ASSUME NEW g, IsFiniteSet(g), Cardinality(g) = 3, NEW m \in g
  PROVE  Cardinality(g \ {m}) = 2
  BY FS_RemoveElement

LEMMA PairIsGroup ==
  ASSUME NEW n \in Nat, NEW m \in 1 .. n, NEW S \in kSubset(2, (1 .. n) \ {m})
  PROVE  \E t \in All(n) : m \in Group(t) /\ Group(t) \ {m} = S /\ S # {}
<1>1. S \in SUBSET (1 .. n) /\ m \notin S /\ Cardinality(S) = 2
  BY DEF kSubset
<1>2. IsFiniteSet(S)
  <2>1. IsFiniteSet(1 .. n)
    BY FS_Interval
  <2> QED
    BY <1>1, <2>1, FS_Subset
<1>3. PICK p, q : p # q /\ S = {p, q}
  BY <1>1, <1>2, TwoMembers
<1>4. p \in 1 .. n /\ q \in 1 .. n /\ m # p /\ m # q
  BY <1>1, <1>3
<1>5. PICK t \in All(n) : \A y : y \in Group(t) <=> y = m \/ y = p \/ y = q
  <2>1. Forms(n, m, p, q)
    BY <1>3, <1>4, GroupExists
  <2> QED
    BY <2>1 DEF Forms
<1>6. m \in Group(t) /\ Group(t) \ {m} = {p, q} /\ {p, q} # {}
  BY <1>4, <1>5, Zenon
<1> QED
  BY <1>3, <1>6

LEMMA ReachedGroups == ASSUME PlaceInv PROVE EveryGroupReachable
<1> SUFFICES ASSUME NEW m \in Machine, pc[m] # "init", NEW n, n = Len(replicas[m])
             PROVE  {replicas[m][get_idx(k, n) + 1] : k \in 0 .. n - 1} \ {{}}
                    = kSubset(2, Machine \ {m})
  BY DEF EveryGroupReachable
<1>1. size \in Nat /\ replicas[m] = Groups(size, m) /\ n \in Nat /\ n = Cardinality(All(size))
  <2>1. size \in Nat /\ replicas[m] = Groups(size, m)
    BY DEF PlaceInv
  <2>2. Len(Groups(size, m)) = Cardinality(All(size)) /\ Cardinality(All(size)) \in Nat
    BY <2>1, AllFinite, GroupsLen
  <2> QED
    BY <2>1, <2>2
<1>2. PICK L : L = InLoopOrder(All(size))
  OBVIOUS
<1>3. ASSUME NEW x \in 1 .. n
      PROVE  /\ L[x] \in All(size)
             /\ replicas[m][x] = IF m \in Group(L[x]) THEN Group(L[x]) \ {m} ELSE {}
  BY <1>1, <1>2, LoopOrder DEF Groups
<1>4. ASSUME NEW k \in 0 .. n - 1 PROVE get_idx(k, n) + 1 = k + 1 /\ k + 1 \in 1 .. n
  BY <1>1 DEF get_idx
<1>5. ASSUME NEW k \in 0 .. n - 1, replicas[m][get_idx(k, n) + 1] # {}
      PROVE  replicas[m][get_idx(k, n) + 1] \in kSubset(2, Machine \ {m})
  <2>1. PICK x \in 1 .. n : x = get_idx(k, n) + 1
    BY <1>4
  <2>2. m \in Group(L[x]) /\ replicas[m][x] = Group(L[x]) \ {m} /\ L[x] \in All(size)
    BY <1>3, <1>5, <2>1
  <2>3. Group(L[x]) \subseteq Machine /\ Cardinality(Group(L[x])) = 3 /\ IsFiniteSet(Group(L[x]))
    BY <1>1, <2>2, GroupOfThree DEF Machine
  <2>4. Cardinality(Group(L[x]) \ {m}) = 2
    BY <2>2, <2>3, WithoutOne
  <2> QED
    BY <2>1, <2>2, <2>3, <2>4 DEF kSubset
<1>6. ASSUME NEW S \in kSubset(2, Machine \ {m})
      PROVE  S # {} /\ \E k \in 0 .. n - 1 : S = replicas[m][get_idx(k, n) + 1]
  <2>1. PICK t \in All(size) : m \in Group(t) /\ Group(t) \ {m} = S /\ S # {}
    BY <1>1, PairIsGroup DEF Machine
  <2>2. PICK x \in 1 .. n : L[x] = t
    BY <1>1, <1>2, LoopOrder
  <2>3. replicas[m][x] = S
    BY <1>3, <2>1, <2>2
  <2>8. PICK k : k = x - 1
    OBVIOUS
  <2>9. k \in 0 .. n - 1 /\ k + 1 = x
    BY <1>1, <2>8
  <2> QED
    BY <1>4, <2>1, <2>3, <2>9
<1>7. PICK R, K : /\ R = {replicas[m][get_idx(k, n) + 1] : k \in 0 .. n - 1}
                  /\ K = kSubset(2, Machine \ {m})
  OBVIOUS
<1>8. R \ {{}} \subseteq K
  BY <1>5, <1>7
<1>9. K \subseteq R \ {{}}
  BY <1>6, <1>7
<1> QED
  BY <1>7, <1>8, <1>9

LEMMA CrashesBelowThree == ASSUME PlaceInv PROVE CrashOnlyBelowThree
<1>1. size \in Nat
  BY DEF PlaceInv
<1>2. size >= 3 => All(size) # {}
  <2> SUFFICES ASSUME size >= 3 PROVE All(size) # {}
    OBVIOUS
  <2>1. 1 \in 1 .. size /\ 2 \in 1 .. size /\ 3 \in 1 .. size
    BY <1>1
  <2>2. Forms(size, 1, 2, 3)
    BY <1>1, <2>1, GroupExists
  <2> QED
    BY <2>2 DEF Forms
<1>3. size < 3 => All(size) = {}
  BY <1>1, TripleParts
<1>4. Cardinality(All(size)) = 0 <=> size < 3
  BY <1>1, <1>2, <1>3, AllFinite, FS_EmptySet
<1>5. ASSUME NEW m \in Machine, pc[m] = "crashed" PROVE size < 3
  BY <1>1, <1>4, <1>5, GroupsLen DEF PlaceInv
<1>6. ASSUME NEW m \in Machine, pc[m] = "sent" PROVE size >= 3
  BY <1>1, <1>4, <1>6, GroupsLen DEF PlaceInv
<1> QED
  BY <1>5, <1>6 DEF CrashOnlyBelowThree

----------------------------------------------------------------------------

\* permutations, replica_ordering and get_idx, run by each machine on its own
\* list of the others, put a key in the same group of three machines everywhere:
\* for clusters of every size and every key.
THEOREM MachinesAgreeOnGroups == Spec => []OneGroupPerKey
<1>1. PlaceInv => OneGroupPerKey
  BY AgreedGroup
<1> QED
  BY <1>1, PlaceInvariance, PTL

\* The numbers that get_idx gives out reach every pair of other machines once a
\* machine has ordered its replicas: no group of three is left without keys.
THEOREM KeysReachEveryGroup == Spec => []EveryGroupReachable
<1>1. PlaceInv => EveryGroupReachable
  BY ReachedGroups
<1> QED
  BY <1>1, PlaceInvariance, PTL

\* get_idx divides by the number of groups, which is 0 exactly for clusters of
\* fewer than three machines.
THEOREM DivisionNeedsThree == Spec => []CrashOnlyBelowThree
<1>1. PlaceInv => CrashOnlyBelowThree
  BY CrashesBelowThree
<1> QED
  BY <1>1, PlaceInvariance, PTL
=============================================================================
