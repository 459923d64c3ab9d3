--------------------------- MODULE TraceGenProofs ---------------------------
(***************************************************************************)
(* Proofs about TraceGen for any number of keys, commands and threads: the *)
(* binary search inverts the sums, and the trace is dealt evenly.          *)
(***************************************************************************)
EXTENDS TraceGen, WellFoundedInduction, TLAPS

----------------------------------------------------------------------------
(* Numbers.  Induction over the natural numbers is used in the form that a *)
(* set of them has a least element.                                        *)

LEMMA LeastElement ==
  ASSUME NEW T \in SUBSET Nat, T # {}
  PROVE  \E x \in T : \A y \in T : x =< y
<1>1. \E x \in T : \A y \in T : ~(<<y, x>> \in OpToRel(<, Nat))
  BY NatLessThanWellFounded, WFMin
<1>2. \A x, y \in T : y < x => <<y, x>> \in OpToRel(<, Nat)
  BY DEF OpToRel
<1>3. \E x \in T : \A y \in T : ~(y < x)
  BY <1>1, <1>2, Zenon
<1>4. \A x, y \in T : ~(y < x) => x =< y
  OBVIOUS
<1> QED
  BY <1>3, <1>4, Zenon

LEMMA ProductGrows ==
  ASSUME NEW x \in Nat, NEW y \in Nat, NEW w \in Nat, x =< y
  PROVE  /\ x * w \in Nat /\ y * w \in Nat
         /\ x * w =< y * w
         /\ x < y => x * w + w =< y * w
<1>1. PICK d \in Nat : y = x + d
  <2>1. y - x \in Nat /\ y = x + (y - x)
    OBVIOUS
  <2> QED
    BY <2>1
<1>2. y * w = x * w + d * w
  BY <1>1
<1>3. d * w \in Nat /\ x * w \in Nat /\ y * w \in Nat
  OBVIOUS
<1>4. ASSUME x < y
      PROVE  w =< d * w
  <2>1. PICK e \in Nat : d = e + 1
    <3>1. d - 1 \in Nat /\ d = (d - 1) + 1
      BY <1>1, <1>4
    <3> QED
      BY <3>1
  <2>2. d * w = e * w + w /\ e * w \in Nat
    BY <2>1
  <2> QED
    BY <2>2
<1> QED
  BY <1>2, <1>3, <1>4

\* Division with remainder.
LEMMA Division ==
  ASSUME NEW a \in Nat, NEW b \in Nat \ {0}
  PROVE  /\ a \div b \in Nat
         /\ a % b \in 0 .. b - 1
         /\ a = b * (a \div b) + (a % b)
OBVIOUS

----------------------------------------------------------------------------
(* The sums of the probabilities.                                          *)

\* w holds Scale times 1 + 1/2 + ... + 1/i for the i up to n.
IsSum(w, n) ==
  /\ w \in [0 .. n -> Nat]
  /\ w[0] = 0
  /\ \A i \in 1 .. n : w[i] = w[i - 1] + Scale \div i

LEMMA SummandNat == \A i \in Nat \ {0} : Scale \div i \in Nat
BY ScaleAssumption, Division

\* The sums up to n, with one more.
LEMMA OneMoreSum ==
  ASSUME NEW n \in Nat, NEW w, IsSum(w, n)
  PROVE  \E v : IsSum(v, n + 1)
<1> DEFINE v == [i \in 0 .. n + 1 |-> IF i = n + 1 THEN w[n] + Scale \div (n + 1) ELSE w[i]]
<1>1. Scale \div (n + 1) \in Nat
  BY SummandNat
<1>2. \A i \in 0 .. n : w[i] \in Nat /\ v[i] = w[i]
  BY DEF IsSum
<1>3. v[n + 1] = w[n] + Scale \div (n + 1)
  OBVIOUS
<1>4. v \in [0 .. n + 1 -> Nat]
  <2>1. \A i \in 0 .. n + 1 : i # n + 1 => i \in 0 .. n
    OBVIOUS
  <2>2. w[n] + Scale \div (n + 1) \in Nat
    <3>1. w[n] \in Nat
      <4>1. n \in 0 .. n
        OBVIOUS
      <4> QED
        BY <1>2, <4>1, Zenon
    <3>2. \A a, b \in Nat : a + b \in Nat
      OBVIOUS
    <3> QED
      BY <1>1, <3>1, <3>2, Zenon
  <2> QED
    BY <1>2, <2>1, <2>2
<1>5. v[0] = 0
  BY <1>2 DEF IsSum
<1>6. ASSUME NEW i \in 1 .. n + 1
      PROVE  v[i] = v[i - 1] + Scale \div i
  <2>1. CASE i = n + 1
    BY <1>2, <1>3, <2>1
  <2>2. CASE i # n + 1
    <3>1. i \in 1 .. n /\ i \in 0 .. n /\ i - 1 \in 0 .. n
      BY <2>2
    <3>2. w[i] = w[i - 1] + Scale \div i
      BY <3>1 DEF IsSum
    <3> QED
      BY <1>2, <3>1, <3>2
  <2> QED
    BY <2>1, <2>2
<1> HIDE DEF v
<1>7. IsSum(v, n + 1)
  BY <1>4, <1>5, <1>6 DEF IsSum
<1> QED
  BY <1>7

LEMMA SumsExist ==
  ASSUME NEW n \in Nat
  PROVE  \E w : IsSum(w, n)
<1> DEFINE T == {i \in Nat : ~\E w : IsSum(w, i)}
<1> SUFFICES ASSUME T # {} PROVE FALSE
  OBVIOUS
<1>1. PICK x \in T : \A y \in T : x =< y
  BY LeastElement
<1>2. IsSum([i \in 0 .. 0 |-> 0], 0)
  BY DEF IsSum
<1>3. x \in Nat /\ x # 0
  BY <1>2
<1>4. x - 1 \in Nat /\ x - 1 \notin T /\ (x - 1) + 1 = x
  BY <1>1, <1>3
<1>5. \E w : IsSum(w, x - 1)
  BY <1>4
<1>6. \E w : IsSum(w, (x - 1) + 1)
  BY <1>4, <1>5, OneMoreSum
<1> QED
  BY <1>4, <1>6

\* The recursive function has the values its definition says.
LEMMA WeightIsSum == IsSum(Weight, Scale)
<1> DEFINE Def(w) == [i \in 0 .. Scale |-> IF i = 0 THEN 0 ELSE w[i - 1] + Scale \div i]
<1>1. Weight = CHOOSE w : w = Def(w)
  BY DEF Weight
<1>2. \E w : w = Def(w)
  <2>1. PICK w : IsSum(w, Scale)
    BY SumsExist, ScaleAssumption
  <2>2. w = [i \in 0 .. Scale |-> w[i]]
    BY <2>1 DEF IsSum
  <2>3. \A i \in 0 .. Scale : w[i] = IF i = 0 THEN 0 ELSE w[i - 1] + Scale \div i
    BY <2>1, ScaleAssumption DEF IsSum
  <2>4. w = Def(w)
    BY <2>2, <2>3
  <2> QED
    BY <2>4
<1>3. Weight = Def(Weight)
  <2> HIDE DEF Def
  <2> QED
    BY <1>1, <1>2, Zenon
<1>4. /\ Weight = [i \in 0 .. Scale |-> Weight[i]]
      /\ \A i \in 0 .. Scale : Weight[i] = IF i = 0 THEN 0 ELSE Weight[i - 1] + Scale \div i
  BY <1>3
<1> HIDE DEF Def
<1>5. Weight[0] = 0
  <2>1. 0 \in 0 .. Scale
    BY ScaleAssumption
  <2> QED
    BY <1>4, <2>1, Zenon
<1>6. \A i \in 1 .. Scale : Weight[i] = Weight[i - 1] + Scale \div i
  <2>1. \A i \in 1 .. Scale : i \in 0 .. Scale /\ i # 0
    BY ScaleAssumption
  <2> QED
    BY <1>4, <2>1, Zenon
<1>7. \A i \in 0 .. Scale : Weight[i] \in Nat
  <2> DEFINE T == {i \in 0 .. Scale : Weight[i] \notin Nat}
  <2> SUFFICES ASSUME T # {} PROVE FALSE
    OBVIOUS
  <2>1. T \in SUBSET Nat
    BY ScaleAssumption
  <2>2. PICK x \in T : \A y \in T : x =< y
    BY <2>1, LeastElement
  <2>3. x \in 0 .. Scale /\ x # 0 /\ Weight[x] \notin Nat
    BY <1>5, <2>2
  <2>4. x \in 1 .. Scale /\ x \in Nat \ {0} /\ x - 1 \in 0 .. Scale
    BY <2>3, ScaleAssumption
  <2>5. x - 1 \notin T
    BY <2>2, <2>4
  <2>6. Weight[x - 1] \in Nat
    BY <2>4, <2>5
  <2> QED
    BY <1>6, <2>3, <2>4, <2>6, SummandNat
<1> QED
  BY <1>4, <1>5, <1>6, <1>7 DEF IsSum

LEMMA WeightGrows ==
  ASSUME NEW i \in 0 .. Scale, NEW j \in 0 .. Scale, i =< j
  PROVE  Weight[i] =< Weight[j]
<1> DEFINE T == {n \in i .. Scale : ~(Weight[i] =< Weight[n])}
<1> SUFFICES ASSUME T # {} PROVE FALSE
  OBVIOUS
<1>1. T \in SUBSET Nat
  BY ScaleAssumption
<1>2. PICK x \in T : \A y \in T : x =< y
  BY <1>1, LeastElement
<1>3. \A n \in 0 .. Scale : Weight[n] \in Nat
  BY WeightIsSum DEF IsSum
<1>4. x \in i .. Scale /\ x # i /\ ~(Weight[i] =< Weight[x])
  BY <1>2, <1>3
<1>5. /\ x \in 1 .. Scale /\ x - 1 \in i .. Scale /\ x - 1 \in 0 .. Scale
      /\ x \in Nat \ {0}
  BY <1>4, ScaleAssumption
<1>6. x - 1 \notin T
  BY <1>2, <1>5
<1>7. Weight[i] =< Weight[x - 1]
  BY <1>5, <1>6
<1>8. Weight[x] = Weight[x - 1] + Scale \div x /\ Scale \div x \in Nat
  BY <1>5, WeightIsSum, SummandNat DEF IsSum
<1> QED
  BY <1>3, <1>4, <1>5, <1>7, <1>8

\* The last key's number divides Scale: its sum is defined and adds something.
LEMMA LastSummand ==
  ASSUME NEW a \in Setups, a.n_keys # 1
  PROVE  /\ a.n_keys - 1 \in 1 .. Scale
         /\ Scale \div (a.n_keys - 1) \in Nat \ {0}
<1>1. PICK d : d = a.n_keys - 1
  OBVIOUS
<1>2. d \in Nat \ {0} /\ Scale \in Nat \ {0} /\ Scale % d = 0
  <2>1. a.n_keys \in Nat \ {0, 1}
    BY SetupAssumption
  <2>2. d \in 1 .. a.n_keys - 1
    BY <1>1, <2>1
  <2> QED
    BY <2>1, <2>2, SetupAssumption, ScaleAssumption
<1>3. PICK q \in Nat : q = Scale \div d /\ Scale = d * q
  <2>1. /\ Scale \div d \in Nat
        /\ Scale = d * (Scale \div d) + (Scale % d)
    BY <1>2, Division
  <2>2. d * (Scale \div d) \in Int
    BY <1>2, <2>1
  <2>3. Scale = d * (Scale \div d)
    BY <1>2, <2>1, <2>2
  <2> QED
    BY <2>1, <2>3
<1>4. q # 0
  BY <1>2, <1>3
<1>5. d =< Scale
  <2>1. 1 * d =< q * d
    <3>1. 1 =< q /\ 1 \in Nat /\ d \in Nat
      BY <1>2, <1>4
    <3> QED
      BY <3>1, ProductGrows
  <2>2. 1 * d = d /\ q * d = d * q
    BY <1>2
  <2> QED
    BY <1>3, <2>1, <2>2
<1> QED
  BY <1>1, <1>2, <1>3, <1>4, <1>5

\* What the search relies on in the sums: they do not fall, the rounding of the
\* last one included, and the entry behind them is 0.
Rising(s, n) ==
  /\ \A i \in 0 .. n - 1 : s[i] \in Nat
  /\ \A i, j \in 0 .. n - 1 : i =< j => s[i] =< s[j]
  /\ s[n] = 0

LEMMA SumsRise ==
  ASSUME NEW a \in Setups, NEW rounding \in {0, 1}
  PROVE  Rising(SumProbs(a.n_keys, rounding), a.n_keys)
<1> PICK n : n = a.n_keys
  OBVIOUS
<1> PICK s : s = SumProbs(n, rounding)
  OBVIOUS
<1> SUFFICES Rising(s, n)
  OBVIOUS
<1> DEFINE W(i) == Weight[i] * RandMax
<1>1. n \in Nat \ {0} /\ RandMax \in Nat \ {0} /\ Scale \in Nat \ {0}
  BY SetupAssumption, RandAssumption, ScaleAssumption
<1>2. CASE n = 1
  <2>1. Weight[0] = 0 /\ Weight[0] * RandMax = 0
    <3>1. Weight[0] = 0
      BY WeightIsSum DEF IsSum
    <3> QED
      BY <1>1, <3>1
  <2>2. s[0] = 0 /\ s[1] = 0
    <3>1. s[0] = Weight[0] * RandMax - 0 /\ s[1] = 0
      BY <1>2 DEF SumProbs
    <3> QED
      BY <2>1, <3>1
  <2>3. \A i \in 0 .. n - 1 : i = 0
    BY <1>2
  <2> QED
    BY <1>2, <2>2, <2>3 DEF Rising
<1>3. CASE n # 1
  <2>1. n - 1 \in Nat \ {0} /\ n - 1 \in 1 .. n - 1 /\ n - 2 \in Nat
    BY <1>1, <1>3
  <2>2. n - 1 \in 1 .. Scale
    BY <1>3, LastSummand
  <2>3. PICK q \in Nat : q = Scale \div (n - 1)
    BY <1>3, LastSummand
  <2>4. q # 0 /\ n - 1 =< Scale
    BY <1>1, <1>3, <2>2, <2>3, LastSummand
  <2>5. \A i \in 0 .. n - 1 : i \in 0 .. Scale /\ Weight[i] \in Nat
    <3>1. \A i \in 0 .. n - 1 : i \in 0 .. Scale
      BY <1>1, <2>1, <2>4
    <3>2. \A i \in 0 .. Scale : Weight[i] \in Nat
      BY WeightIsSum DEF IsSum
    <3> QED
      BY <3>1, <3>2
  <2>6. Weight[n - 1] = Weight[n - 2] + Scale \div (n - 1)
    <3>1. (n - 1) - 1 = n - 2
      BY <1>1
    <3> QED
      BY <2>2, <3>1, WeightIsSum DEF IsSum
  <2>7. \A i \in 0 .. n - 1 : i # n - 1 => Weight[i] < Weight[n - 1]
    <3>1. SUFFICES ASSUME NEW i \in 0 .. n - 1, i # n - 1 PROVE Weight[i] < Weight[n - 1]
      OBVIOUS
    <3>2. n - 2 \in 0 .. n - 1 /\ n - 1 \in 0 .. n - 1 /\ i =< n - 2
      BY <1>1, <2>1, <3>1
    <3>3. Weight[i] =< Weight[n - 2]
      BY <2>5, <3>2, WeightGrows
    <3>4. Weight[i] \in Nat /\ Weight[n - 2] \in Nat /\ Weight[n - 1] \in Nat
      BY <2>5, <3>2
    <3>5. Weight[n - 1] = Weight[n - 2] + q
      BY <2>3, <2>6
    <3>6. \A x, y, d \in Nat : x =< y /\ d # 0 => x < y + d
      OBVIOUS
    <3> QED
      BY <2>4, <3>3, <3>4, <3>5, <3>6
  <2>8. \A i \in 0 .. n - 1 : W(i) \in Nat
    BY <1>1, <2>5
  <2>9. \A i, j \in 0 .. n - 1 : i =< j => W(i) =< W(j)
    BY <1>1, <2>5, WeightGrows, ProductGrows
  <2>10. \A i \in 0 .. n - 1 : i # n - 1 => W(i) + RandMax =< W(n - 1)
    <3>1. n - 1 \in 0 .. n - 1
      BY <1>1
    <3>2. SUFFICES ASSUME NEW i \in 0 .. n - 1, i # n - 1 PROVE W(i) + RandMax =< W(n - 1)
      OBVIOUS
    <3>3. Weight[i] \in Nat /\ Weight[n - 1] \in Nat /\ Weight[i] < Weight[n - 1]
      BY <2>5, <2>7, <3>1, <3>2
    <3>4. Weight[i] =< Weight[n - 1]
      BY <3>3
    <3> QED
      BY <1>1, <3>3, <3>4, ProductGrows
  <2>11. /\ \A i \in 0 .. n - 1 : i # n - 1 => s[i] = W(i)
         /\ s[n - 1] = W(n - 1) - rounding
         /\ s[n] = 0
    <3>1. \A i \in 0 .. n - 1 : i \in 0 .. n /\ i # n
      BY <1>1
    <3>2. n - 1 \in 0 .. n - 1 /\ n - 1 > 0 /\ n \in 0 .. n
      BY <1>1, <2>1
    <3>3. \A i \in 0 .. n - 1 : s[i] = W(i) - (IF i = n - 1 /\ i > 0 THEN rounding ELSE 0)
      BY <3>1 DEF SumProbs
    <3>4. s[n] = 0
      BY <3>2 DEF SumProbs
    <3> HIDE DEF W
    <3> QED
      BY <2>8, <3>2, <3>3, <3>4
  <2> HIDE DEF W
  <2>12. n - 1 \in 0 .. n - 1 /\ 0 \in 0 .. n - 1 /\ 0 # n - 1
    BY <1>1, <2>1
  <2>13. W(n - 1) >= 1 /\ W(n - 1) \in Nat
    <3>1. W(0) + RandMax =< W(n - 1) /\ W(0) \in Nat /\ W(n - 1) \in Nat
      BY <2>8, <2>10, <2>12
    <3> QED
      BY <1>1, <3>1
  <2>14. \A i \in 0 .. n - 1 : s[i] \in Nat
    BY <2>8, <2>11, <2>13
  <2>15. \A i, j \in 0 .. n - 1 : i =< j => s[i] =< s[j]
    <3>1. SUFFICES ASSUME NEW i \in 0 .. n - 1, NEW j \in 0 .. n - 1, i =< j
                   PROVE  s[i] =< s[j]
      OBVIOUS
    <3>2. CASE i = n - 1
      BY <1>1, <2>14, <3>1, <3>2
    <3>3. CASE i # n - 1 /\ j = n - 1
      BY <1>1, <2>8, <2>10, <2>11, <2>12, <3>3
    <3>4. CASE i # n - 1 /\ j # n - 1
      BY <2>9, <2>11, <3>1, <3>4
    <3> QED
      BY <3>2, <3>3, <3>4
  <2> QED
    BY <2>11, <2>14, <2>15 DEF Rising
<1> QED
  BY <1>2, <1>3

LEMMA UnitNat ==
  ASSUME NEW a \in Setups
  PROVE  Unit(a.n_keys) \in Nat
<1>1. CASE a.n_keys = 1
  BY <1>1 DEF Unit
<1>2. CASE a.n_keys # 1
  <2>1. a.n_keys - 1 \in 0 .. Scale
    BY <1>2, LastSummand, ScaleAssumption
  <2>2. \A i \in 0 .. Scale : Weight[i] \in Nat
    BY WeightIsSum DEF IsSum
  <2> QED
    BY <1>2, <2>1, <2>2 DEF Unit
<1> QED
  BY <1>1, <1>2

----------------------------------------------------------------------------
(* The binary search.  Its interval holds every key whose share the drawn  *)
(* number can be in.                                                       *)

Probing ==
  /\ low \in 1 .. n_keys /\ high \in 1 .. n_keys /\ low =< high
  /\ zip_value = 0
  /\ \A i \in Shares : low =< i /\ i =< high

SearchInv ==
  /\ args \in Setups
  /\ Rising(sum_probs, n_keys)
  /\ z \in Nat
  /\ pc = "probe" => Probing
  /\ InverseOfSums

LEMMA MidBetween ==
  ASSUME args \in Setups, Probing
  PROVE  /\ n_keys \in Nat \ {0}
         /\ mid \in 1 .. n_keys /\ mid - 1 \in 0 .. n_keys - 1
         /\ low =< mid /\ mid =< high
         /\ mid = n_keys => low = n_keys
<1>1. n_keys \in Nat \ {0}
  BY SetupAssumption DEF n_keys
<1> QED
  BY <1>1 DEF Probing, mid

\* No key before a sum that is too small has a share, none after one that is
\* large enough.
LEMMA SharesLie ==
  ASSUME args \in Setups, Rising(sum_probs, n_keys), z \in Nat, NEW i \in Shares
  PROVE  /\ i \in 1 .. n_keys - 1
         /\ \A j \in 0 .. n_keys - 1 : sum_probs[j] < z => j < i
         /\ \A j \in 0 .. n_keys - 1 : sum_probs[j] >= z => i =< j
<1>1. n_keys \in Nat \ {0}
  BY SetupAssumption DEF n_keys
<1>2. i \in 1 .. n_keys - 1 /\ sum_probs[i - 1] < z /\ z =< sum_probs[i]
  BY DEF Shares
<1>3. i - 1 \in 0 .. n_keys - 1 /\ i \in 0 .. n_keys - 1
  BY <1>1, <1>2
<1>4. \A j \in 0 .. n_keys - 1 : sum_probs[j] \in Nat
  BY DEF Rising
<1>5. ASSUME NEW j \in 0 .. n_keys - 1, sum_probs[j] < z, ~(j < i)
      PROVE  FALSE
  <2>1. sum_probs[i] =< sum_probs[j]
    BY <1>3, <1>5 DEF Rising
  <2> QED
    BY <1>2, <1>3, <1>4, <1>5, <2>1
<1>6. ASSUME NEW j \in 0 .. n_keys - 1, sum_probs[j] >= z, ~(i =< j)
      PROVE  FALSE
  <2>1. j =< i - 1
    BY <1>3, <1>6
  <2>2. sum_probs[j] =< sum_probs[i - 1]
    BY <1>3, <2>1 DEF Rising
  <2> QED
    BY <1>2, <1>3, <1>4, <1>6, <2>2
<1> QED
  BY <1>2, <1>5, <1>6

\* The end of an interval that lost its last element.
LEMMA NarrowedInv ==
  ASSUME SearchInv, pc = "probe", UNCHANGED <<args, sum_probs, z, zip_value>>,
         pc' = IF low' =< high' THEN "probe" ELSE "emit",
         low' \in Int, high' \in Int, low' >= low, high' =< high,
         \A i \in Shares : low' =< i /\ i =< high'
  PROVE  SearchInv'
<1>1. n_keys' = n_keys /\ Shares' = Shares /\ n_keys \in Nat \ {0}
  BY SetupAssumption DEF n_keys, Shares, SearchInv
<1>2. Probing
  BY DEF SearchInv
<1>3. CASE low' =< high'
  <2>1. Probing'
    BY <1>1, <1>2, <1>3 DEF Probing
  <2> QED
    BY <1>1, <1>3, <2>1 DEF SearchInv, InverseOfSums
<1>4. CASE ~(low' =< high')
  <2>1. Shares = {}
    <3>1. \A i \in Shares : i \in Int
      BY <1>1 DEF Shares
    <3> QED
      BY <1>4, <3>1
  <2>2. zip_value' = 0
    BY <1>2 DEF Probing
  <2>3. pc' = "emit"
    BY <1>4
  <2> QED
    BY <1>1, <2>1, <2>2, <2>3 DEF SearchInv, InverseOfSums
<1> QED
  BY <1>3, <1>4

LEMMA SearchStep ==
  ASSUME SearchInv, Search
  PROVE  SearchInv'
<1>1. pc = "probe" /\ Probing /\ args \in Setups /\ z \in Nat /\ Rising(sum_probs, n_keys)
  BY DEF Search, Hit, GoDown, GoUp, SearchInv
<1>2. /\ n_keys \in Nat \ {0}
      /\ mid \in 1 .. n_keys /\ mid - 1 \in 0 .. n_keys - 1
      /\ low =< mid /\ mid =< high
      /\ mid = n_keys => low = n_keys
  BY <1>1, MidBetween
<1>3. low \in Int /\ high \in Int /\ \A i \in Shares : low =< i /\ i =< high
  BY <1>1, <1>2 DEF Probing
<1>4. /\ n_keys' = n_keys /\ UNCHANGED <<args, sum_probs, z>>
      /\ Shares' = Shares
  BY DEF Search, Hit, GoDown, GoUp, n_keys, Shares
<1>5. \A i \in Shares : i \in Int /\ i =< n_keys - 1
  BY <1>2 DEF Shares
<1>6. CASE Hit
  <2>1. sum_probs[mid] >= z /\ sum_probs[mid - 1] < z /\ zip_value' = mid /\ pc' = "emit"
    BY <1>6 DEF Hit
  <2>2. mid # n_keys
    <3>1. SUFFICES ASSUME mid = n_keys PROVE FALSE
      OBVIOUS
    <3>2. sum_probs[mid] = 0 /\ sum_probs[mid - 1] \in Nat
      BY <1>1, <1>2, <3>1 DEF Rising
    <3> QED
      BY <1>1, <2>1, <3>2
  <2>3. mid \in 1 .. n_keys - 1 /\ mid \in 0 .. n_keys - 1
    BY <1>2, <2>2
  <2>4. sum_probs[mid] \in Nat /\ sum_probs[mid - 1] \in Nat
    BY <1>1, <1>2, <2>3 DEF Rising
  <2>5. mid \in Shares
    BY <1>1, <2>1, <2>3, <2>4 DEF Shares
  <2>6. \A i \in Shares : i = mid
    <3>1. SUFFICES ASSUME NEW i \in Shares PROVE i = mid
      OBVIOUS
    <3>2. mid - 1 < i /\ i =< mid
      BY <1>1, <1>2, <2>1, <2>3, SharesLie
    <3> QED
      BY <1>2, <1>5, <3>2
  <2>7. Shares = {mid} /\ mid # 0
    <3>1. Shares = {mid}
      BY <2>5, <2>6, Zenon
    <3>2. mid # 0
      BY <1>2
    <3> QED
      BY <3>1, <3>2
  <2> QED
    BY <1>1, <1>4, <2>1, <2>7 DEF SearchInv, InverseOfSums
<1>7. CASE GoDown
  <2>1. /\ sum_probs[mid - 1] >= z /\ high' = mid - 1 /\ low' = low
        /\ pc' = (IF low' =< high' THEN "probe" ELSE "emit") /\ zip_value' = zip_value
    BY <1>7 DEF GoDown
  <2>2. \A i \in Shares : i =< mid - 1
    BY <1>1, <1>2, <2>1, SharesLie
  <2>3. high' \in Int /\ high' =< high
    BY <1>2, <1>3, <2>1
  <2> QED
    BY <1>1, <1>3, <1>4, <2>1, <2>2, <2>3, NarrowedInv
<1>8. CASE GoUp
  <2>1. /\ sum_probs[mid] < z /\ low' = mid + 1 /\ high' = high
        /\ pc' = (IF low' =< high' THEN "probe" ELSE "emit") /\ zip_value' = zip_value
    BY <1>8 DEF GoUp
  <2>2. \A i \in Shares : mid < i
    <3>1. CASE mid = n_keys
      BY <1>2, <1>3, <1>5, <3>1
    <3>2. CASE mid # n_keys
      <4>1. mid \in 0 .. n_keys - 1
        BY <1>2, <3>2
      <4> QED
        BY <1>1, <2>1, <4>1, SharesLie
    <3> QED
      BY <3>1, <3>2
  <2>3. \A i \in Shares : mid + 1 =< i
    BY <1>2, <1>5, <2>2
  <2>4. low' \in Int /\ low' >= low
    BY <1>2, <1>3, <2>1
  <2> QED
    BY <1>1, <1>3, <1>4, <2>1, <2>3, <2>4, NarrowedInv
<1> QED
  BY <1>6, <1>7, <1>8 DEF Search

LEMMA DrawStep ==
  ASSUME SearchInv, Draw
  PROVE  SearchInv'
<1>1. PICK rand \in 0 .. RandMax : z' = rand * Unit(n_keys)
  BY DEF Draw
<1>2. args \in Setups /\ n_keys \in Nat \ {0} /\ Unit(n_keys) \in Nat
  BY SetupAssumption, UnitNat DEF SearchInv, n_keys
<1>3. z' \in Nat
  BY <1>1, <1>2, RandAssumption
<1>4. /\ n_keys' = n_keys /\ UNCHANGED <<args, sum_probs>>
      /\ low' = 1 /\ high' = n_keys /\ zip_value' = 0 /\ pc' = "probe"
  BY DEF Draw, n_keys
<1>5. \A i \in Shares' : i \in 1 .. n_keys - 1
  BY <1>4 DEF Shares
<1>6. Probing'
  BY <1>2, <1>4, <1>5 DEF Probing
<1> QED
  BY <1>3, <1>4, <1>6 DEF SearchInv, InverseOfSums

LEMMA InitSearch == Init => SearchInv
<1> SUFFICES ASSUME Init PROVE SearchInv
  OBVIOUS
<1>1. Rising(sum_probs, n_keys)
  BY SumsRise DEF Init, n_keys
<1> QED
  BY <1>1 DEF Init, SearchInv, InverseOfSums

LEMMA NextSearch == SearchInv /\ [Next]_vars => SearchInv'
<1> SUFFICES ASSUME SearchInv, [Next]_vars PROVE SearchInv'
  OBVIOUS
<1>1. CASE Draw
  BY <1>1, DrawStep
<1>2. CASE Search
  BY <1>2, SearchStep
<1>3. CASE Emit \/ CreateThreads \/ (\E i \in Thread : RunCommand(i)) \/ UNCHANGED vars
  <2>1. UNCHANGED <<args, sum_probs, z, low, high, zip_value>>
    BY <1>3 DEF Emit, CreateThreads, RunCommand, vars
  <2>2. pc' \in {"draw", "run"} \/ pc' = pc
    BY <1>3 DEF Emit, CreateThreads, RunCommand, vars
  <2>3. n_keys' = n_keys /\ Shares' = Shares
    BY <2>1 DEF n_keys, Shares
  <2> QED
    BY <2>1, <2>2, <2>3 DEF SearchInv, InverseOfSums, Probing
<1> QED
  BY <1>1, <1>2, <1>3 DEF Next

\* The binary search of manufacture_trace_zipfian (generate_traces.cpp) ends
\* with the one key whose share of the interval the drawn number falls into if
\* there is one, for any number of keys, any draw, also where rounding leaves
\* the last sum short and where it probes the entry that is never filled.
THEOREM SearchInvertsSums == Spec => []InverseOfSums
<1>1. SearchInv => InverseOfSums
  BY DEF SearchInv
<1> QED
  BY <1>1, InitSearch, NextSearch, PTL DEF Spec

----------------------------------------------------------------------------
(* Dealing the trace.                                                      *)

\* Command c is in the part of thread i.
InPart(i, c) == i * step_size =< c /\ c < i * step_size + step_size

\* The parts are not empty, lie within the trace, and leave fewer commands over
\* than there are threads.
LEMMA StepSize ==
  ASSUME args \in Setups
  PROVE  /\ n_thread \in Nat \ {0} /\ trace_size \in Nat /\ step_size \in Nat \ {0}
         /\ n_thread * step_size \in Nat
         /\ trace_size - n_thread * step_size \in 0 .. n_thread - 1
<1>1. n_thread \in Nat \ {0} /\ trace_size \in Nat /\ trace_size >= n_thread
  BY SetupAssumption DEF n_thread, trace_size
<1>2. /\ step_size \in Nat /\ trace_size % n_thread \in 0 .. n_thread - 1
      /\ trace_size = n_thread * step_size + (trace_size % n_thread)
  BY <1>1, Division DEF step_size
<1>3. n_thread * step_size \in Nat
  BY <1>1, <1>2
<1>4. trace_size - n_thread * step_size = trace_size % n_thread
  BY <1>1, <1>2, <1>3
<1>5. step_size # 0
  <2>1. SUFFICES ASSUME step_size = 0 PROVE FALSE
    OBVIOUS
  <2>2. n_thread * step_size = 0
    BY <1>1, <2>1
  <2> QED
    BY <1>1, <1>2, <2>2
<1> QED
  BY <1>1, <1>2, <1>3, <1>4, <1>5

LEMMA Parts ==
  ASSUME args \in Setups, NEW i \in Thread
  PROVE  /\ i \in Nat /\ i * step_size \in Nat
         /\ i * step_size + step_size =< n_thread * step_size
         /\ i * step_size + step_size =< trace_size
         /\ EndOf(i * step_size) = i * step_size + step_size
<1>1. /\ n_thread \in Nat \ {0} /\ trace_size \in Nat /\ step_size \in Nat \ {0}
      /\ n_thread * step_size \in Nat
      /\ trace_size - n_thread * step_size \in 0 .. n_thread - 1
  BY StepSize
<1>2. i \in Nat /\ i < n_thread /\ i =< n_thread
  BY <1>1 DEF Thread
<1>3. i * step_size \in Nat /\ i * step_size + step_size =< n_thread * step_size
  BY <1>1, <1>2, ProductGrows
<1>4. \A x, y, t \in Nat : x =< y /\ t - y \in 0 .. n_thread - 1 => x =< t
  BY <1>1
<1>5. i * step_size + step_size =< trace_size
  BY <1>1, <1>3, <1>4
<1> QED
  BY <1>1, <1>2, <1>3, <1>5 DEF EndOf

LEMMA PartsDisjoint ==
  ASSUME args \in Setups, NEW i \in Thread, NEW j \in Thread, NEW c \in Nat,
         InPart(i, c), InPart(j, c)
  PROVE  i = j
<1>1. /\ i \in Nat /\ j \in Nat /\ step_size \in Nat
      /\ i * step_size \in Nat /\ j * step_size \in Nat
  BY Parts, StepSize
<1>2. i < j => i * step_size + step_size =< j * step_size
  BY <1>1, ProductGrows
<1>3. j < i => j * step_size + step_size =< i * step_size
  BY <1>1, ProductGrows
<1>4. ~(i < j)
  BY <1>1, <1>2 DEF InPart
<1>5. ~(j < i)
  BY <1>1, <1>3 DEF InPart
<1> QED
  BY <1>1, <1>4, <1>5

\* The parts of all threads are the beginning of the trace.
LEMMA PartsCover ==
  ASSUME args \in Setups, NEW c \in Nat
  PROVE  c < n_thread * step_size <=> \E i \in Thread : InPart(i, c)
<1>1. /\ n_thread \in Nat \ {0} /\ step_size \in Nat \ {0}
      /\ n_thread * step_size \in Nat
  BY StepSize
<1>2. ASSUME NEW i \in Thread, InPart(i, c)
      PROVE  c < n_thread * step_size
  BY <1>1, <1>2, Parts DEF InPart
<1>3. ASSUME c < n_thread * step_size
      PROVE  \E i \in Thread : InPart(i, c)
  <2>1. PICK i \in Nat, r \in 0 .. step_size - 1 : c = step_size * i + r
    BY <1>1, Division
  <2>2. step_size * i = i * step_size /\ i * step_size \in Nat
    BY <1>1
  <2>3. InPart(i, c)
    BY <1>1, <2>1, <2>2 DEF InPart
  <2>4. i < n_thread
    <3>1. SUFFICES ASSUME n_thread =< i PROVE FALSE
      BY <1>1
    <3>2. n_thread * step_size =< i * step_size
      BY <1>1, <3>1, ProductGrows
    <3> QED
      BY <1>1, <1>3, <2>2, <2>3, <3>2 DEF InPart
  <2>5. i \in Thread
    BY <1>1, <2>4 DEF Thread
  <2> QED
    BY <2>3, <2>5
<1> QED
  BY <1>2, <1>3

\* The command has been taken by the thread whose part it is in.
TakenBy(i, c) == i * step_size =< c /\ c < begin[i]

Dealing ==
  /\ \A i \in Thread : /\ begin[i] \in Nat
                       /\ i * step_size =< begin[i]
                       /\ begin[i] =< end[i]
                       /\ end[i] = i * step_size + step_size
  /\ begin \in [Thread -> Nat] /\ end \in [Thread -> Nat]
  /\ \A c \in 0 .. trace_size - 1 :
       runs[c] = IF \E i \in Thread : TakenBy(i, c) THEN 1 ELSE 0

DealInv ==
  /\ args \in Setups
  /\ runs \in [0 .. trace_size - 1 -> Nat]
  /\ pc # "run" => \A c \in 0 .. trace_size - 1 : runs[c] = 0
  /\ pc = "run" => Dealing

LEMMA CreateDeals ==
  ASSUME DealInv, CreateThreads
  PROVE  DealInv'
<1>1. /\ args' = args /\ runs' = runs /\ pc' = "run" /\ pc # "run"
      /\ begin' = [i \in Thread |-> i * step_size]
      /\ end' = [i \in Thread |-> EndOf(i * step_size)]
  BY DEF CreateThreads
<1>2. Thread' = Thread /\ step_size' = step_size /\ trace_size' = trace_size
  BY <1>1 DEF Thread, step_size, trace_size, n_thread
<1>3. args \in Setups
  BY DEF DealInv
<1>4. step_size \in Nat \ {0} /\ trace_size \in Nat
  BY <1>3, StepSize
<1>5. \A i \in Thread : /\ begin'[i] = i * step_size /\ begin'[i] \in Nat
                        /\ end'[i] = i * step_size + step_size
  BY <1>1, <1>3, Parts
<1>6. begin' \in [Thread -> Nat] /\ end' \in [Thread -> Nat]
  BY <1>1, <1>4, <1>5
<1>7. \A i \in Thread : i * step_size =< begin'[i] /\ begin'[i] =< end'[i]
  BY <1>4, <1>5
<1>8. ASSUME NEW c \in 0 .. trace_size - 1
      PROVE  runs'[c] = 0 /\ \A i \in Thread : ~TakenBy(i, c)'
  <2>1. \A i \in Thread : ~(i * step_size =< c /\ c < begin'[i])
    BY <1>4, <1>5
  <2> QED
    BY <1>1, <1>2, <2>1 DEF DealInv, TakenBy
<1>9. Dealing'
  BY <1>2, <1>5, <1>6, <1>7, <1>8 DEF Dealing
<1> QED
  BY <1>1, <1>2, <1>9 DEF DealInv

LEMMA RunDeals ==
  ASSUME DealInv, NEW i \in Thread, RunCommand(i)
  PROVE  DealInv'
<1> PICK b : b = begin[i]
  OBVIOUS
<1>1. /\ UNCHANGED <<args, pc, end>> /\ pc = "run" /\ b # end[i]
      /\ runs' = [runs EXCEPT ![b] = @ + 1]
      /\ begin' = [begin EXCEPT ![i] = @ + 1]
  BY DEF RunCommand
<1>2. Thread' = Thread /\ step_size' = step_size /\ trace_size' = trace_size
  BY <1>1 DEF Thread, step_size, trace_size, n_thread
<1>3. args \in Setups /\ Dealing /\ runs \in [0 .. trace_size - 1 -> Nat]
  BY <1>1 DEF DealInv
<1>4. /\ step_size \in Nat \ {0} /\ trace_size \in Nat
      /\ \A j \in Thread : j * step_size \in Nat /\ j * step_size + step_size =< trace_size
  BY <1>3, StepSize, Parts
<1>5. /\ begin \in [Thread -> Nat] /\ end \in [Thread -> Nat]
      /\ \A j \in Thread : /\ begin[j] \in Nat /\ end[j] \in Nat
                           /\ j * step_size =< begin[j] /\ begin[j] =< end[j]
                           /\ end[j] = j * step_size + step_size
  BY <1>3 DEF Dealing
<1>6. b \in Nat /\ b < end[i] /\ b \in 0 .. trace_size - 1 /\ InPart(i, b)
  BY <1>1, <1>4, <1>5 DEF InPart
<1>7. /\ begin'[i] = b + 1 /\ \A j \in Thread : j # i => begin'[j] = begin[j]
      /\ begin' \in [Thread -> Nat]
  BY <1>1, <1>5, <1>6
<1>8. \A j \in Thread : ~TakenBy(j, b)
  <2>1. SUFFICES ASSUME NEW j \in Thread, TakenBy(j, b) PROVE FALSE
    OBVIOUS
  <2>2. InPart(j, b)
    BY <1>4, <1>5, <1>6, <2>1 DEF InPart, TakenBy
  <2>3. j = i
    BY <1>3, <1>6, <2>2, PartsDisjoint
  <2> QED
    BY <1>6, <2>1, <2>3 DEF TakenBy
<1>9. runs[b] = 0
  BY <1>3, <1>6, <1>8 DEF Dealing
<1>10. /\ runs'[b] = 1 /\ runs' \in [0 .. trace_size - 1 -> Nat]
       /\ \A c \in 0 .. trace_size - 1 : c # b => runs'[c] = runs[c]
  BY <1>1, <1>3, <1>6, <1>9
<1>11. TakenBy(i, b)'
  BY <1>2, <1>4, <1>6, <1>7 DEF TakenBy, InPart
<1>12. \A c \in 0 .. trace_size - 1, j \in Thread :
         c # b => (TakenBy(j, c)' <=> TakenBy(j, c))
  BY <1>2, <1>4, <1>5, <1>6, <1>7 DEF TakenBy
<1>13. \A c \in 0 .. trace_size - 1 :
         runs'[c] = IF \E j \in Thread : TakenBy(j, c)' THEN 1 ELSE 0
  <2>1. SUFFICES ASSUME NEW c \in 0 .. trace_size - 1
                 PROVE  runs'[c] = IF \E j \in Thread : TakenBy(j, c)' THEN 1 ELSE 0
    OBVIOUS
  <2>2. CASE c = b
    BY <1>10, <1>11, <2>2
  <2>3. CASE c # b
    <3>1. (\E j \in Thread : TakenBy(j, c)') <=> (\E j \in Thread : TakenBy(j, c))
      BY <1>12, <2>3
    <3>2. runs[c] = IF \E j \in Thread : TakenBy(j, c) THEN 1 ELSE 0
      BY <1>3 DEF Dealing
    <3> QED
      BY <1>10, <2>3, <3>1, <3>2
  <2> QED
    BY <2>2, <2>3
<1>14. \A j \in Thread : /\ begin'[j] \in Nat
                         /\ j * step_size =< begin'[j] /\ begin'[j] =< end[j]
  <2>1. begin'[i] \in Nat /\ i * step_size =< begin'[i] /\ begin'[i] =< end[i]
    BY <1>4, <1>5, <1>6, <1>7
  <2> QED
    BY <1>5, <1>7, <2>1
<1>15. Dealing'
  BY <1>1, <1>2, <1>5, <1>7, <1>13, <1>14 DEF Dealing
<1> QED
  BY <1>1, <1>2, <1>3, <1>10, <1>15 DEF DealInv

LEMMA InitDeals == Init => DealInv
<1> SUFFICES ASSUME Init PROVE DealInv
  OBVIOUS
<1>1. args \in Setups /\ pc = "draw" /\ runs = [c \in 0 .. trace_size - 1 |-> 0]
  BY DEF Init
<1> QED
  BY <1>1 DEF DealInv

LEMMA NextDeals == DealInv /\ [Next]_vars => DealInv'
<1> SUFFICES ASSUME DealInv, [Next]_vars PROVE DealInv'
  OBVIOUS
<1>1. CASE CreateThreads
  BY <1>1, CreateDeals
<1>2. CASE \E i \in Thread : RunCommand(i)
  BY <1>2, RunDeals
<1>3. CASE Draw \/ Search \/ Emit \/ UNCHANGED vars
  <2>1. UNCHANGED <<args, begin, end, runs>>
    BY <1>3 DEF Draw, Search, Hit, GoDown, GoUp, Emit, vars
  <2>2. (pc # "run" /\ pc' # "run") \/ pc' = pc
    BY <1>3 DEF Draw, Search, Hit, GoDown, GoUp, Emit, vars
  <2>3. Thread' = Thread /\ step_size' = step_size /\ trace_size' = trace_size
    BY <2>1 DEF Thread, step_size, trace_size, n_thread
  <2>4. Dealing => Dealing'
    BY <2>1, <2>3 DEF Dealing, TakenBy
  <2> QED
    BY <2>1, <2>2, <2>3, <2>4 DEF DealInv
<1> QED
  BY <1>1, <1>2, <1>3 DEF Next

\* create_threads (server.cpp) deals the trace without gaps and overlaps for
\* any length and number of threads: no command is run twice, the threads run
\* equally many, and what they leave over at the end is less than one for each.
THEOREM TraceDealtEvenly == Spec => []EvenlyDealt
<1>1. DealInv => EvenlyDealt
  <2> SUFFICES ASSUME DealInv PROVE EvenlyDealt
    OBVIOUS
  <2>1. DOMAIN runs = 0 .. trace_size - 1 /\ args \in Setups
    BY DEF DealInv
  <2>2. \A c \in 0 .. trace_size - 1 : runs[c] =< 1
    <3>1. \A c \in 0 .. trace_size - 1 : runs[c] \in {0, 1}
      BY DEF DealInv, Dealing
    <3> QED
      BY <3>1
  <2>3. ASSUME Drained
        PROVE  \E n \in 0 .. trace_size :
                 Taken = 0 .. n * n_thread - 1 /\ trace_size - n * n_thread \in Thread
    <3>1. /\ n_thread \in Nat \ {0} /\ trace_size \in Nat /\ step_size \in Nat \ {0}
          /\ n_thread * step_size \in Nat
          /\ trace_size - n_thread * step_size \in 0 .. n_thread - 1
      BY <2>1, StepSize
    <3>2. step_size * n_thread = n_thread * step_size
      BY <3>1
    <3>3. step_size =< n_thread * step_size
      BY <3>1, ProductGrows
    <3>4. step_size \in 0 .. trace_size /\ n_thread * step_size =< trace_size
      BY <3>1, <3>3
    <3>5. Dealing /\ \A i \in Thread : begin[i] = i * step_size + step_size
      BY <2>3 DEF Drained, DealInv, Dealing
    <3>6. \A c \in 0 .. trace_size - 1 : runs[c] > 0 <=> \E i \in Thread : InPart(i, c)
      BY <3>5 DEF Dealing, TakenBy, InPart
    <3>7. \A c \in 0 .. trace_size - 1 : c \in Nat
      BY <3>1
    <3>8. \A c \in 0 .. trace_size - 1 : runs[c] > 0 <=> c < n_thread * step_size
      BY <2>1, <3>6, <3>7, PartsCover
    <3>9. Taken = 0 .. n_thread * step_size - 1
      BY <2>1, <3>1, <3>4, <3>8 DEF Taken
    <3> QED
      BY <3>1, <3>2, <3>4, <3>9 DEF Thread
  <2> QED
    BY <2>1, <2>2, <2>3 DEF EvenlyDealt
<1> QED
  BY <1>1, InitDeals, NextDeals, PTL DEF Spec
=============================================================================
