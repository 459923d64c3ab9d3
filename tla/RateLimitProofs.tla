-------------------------- MODULE RateLimitProofs --------------------------
(***************************************************************************)
(* The rate limiter of server.cpp for any number of threads and commands   *)
(* and any limit below the width of the counter.                           *)
(***************************************************************************)
EXTENDS RateLimit, FiniteSetTheorems, TLAPS

LimitInv == TypeOK /\ SlotsCounted

LEMMA HeldFinite == IsFiniteSet(Held) /\ Cardinality(Held) \in Nat
<1>1. Held \subseteq Op
  BY DEF Held
<1> QED
  BY <1>1, OpAssumption, FS_Subset, FS_CardinalityType

\* Steps that neither take nor give back a slot.
LEMMA SameSlots ==
  ASSUME LimitInv, NEW o \in Op, NEW l \in Label \ {"held"}, pc[o] # "held",
         pc' = [pc EXCEPT ![o] = l], request' = request,
         r' \in [Op -> 0 .. SizeMod - 1]
  PROVE  LimitInv'
<1>1. pc' \in [Op -> Label]
  BY DEF LimitInv, TypeOK
<1>2. Held' = Held
  BY DEF Held, LimitInv, TypeOK
<1> QED
  BY <1>1, <1>2 DEF LimitInv, TypeOK, SlotsCounted

LEMMA SlotTaken ==
  ASSUME LimitInv, NEW o \in Op, Exchange(o)
  PROVE  LimitInv'
<1>1. /\ pc' = [pc EXCEPT ![o] = "held"] /\ pc[o] = "exchange" /\ r' = r
      /\ request < max_request /\ request' = (request + 1) % SizeMod
  BY DEF Exchange, GoTo
<1>2. pc' \in [Op -> Label]
  BY <1>1 DEF LimitInv, TypeOK, Label
<1>3. Held' = Held \cup {o} /\ o \notin Held
  BY <1>1 DEF Held, LimitInv, TypeOK
<1>4. Cardinality(Held') = Cardinality(Held) + 1
  BY <1>3, HeldFinite, FS_AddElement
<1>5. request \in Nat /\ request' = request + 1 /\ request' \in 0 .. SizeMod - 1
  BY <1>1, LimitAssumption DEF LimitInv, TypeOK
<1>6. SlotsCounted'
  BY <1>1, <1>4, <1>5, LimitAssumption DEF LimitInv, SlotsCounted
<1> QED
  BY <1>1, <1>2, <1>5, <1>6 DEF LimitInv, TypeOK

LEMMA SlotGivenBack ==
  ASSUME LimitInv, NEW o \in Op, Release(o)
  PROVE  LimitInv'
<1>1. /\ pc' = [pc EXCEPT ![o] = "released"] /\ pc[o] = "held" /\ r' = r
      /\ request' = (request - 1) % SizeMod
  BY DEF Release, GoTo
<1>2. pc' \in [Op -> Label]
  BY <1>1 DEF LimitInv, TypeOK, Label
<1>3. Held' = Held \ {o} /\ o \in Held
  BY <1>1 DEF Held, LimitInv, TypeOK
<1>4. Cardinality(Held') = Cardinality(Held) - 1
  BY <1>3, HeldFinite, FS_RemoveElement
<1>5. Cardinality(Held) \in Nat \ {0}
  BY <1>3, HeldFinite, FS_EmptySet
<1>6. request' = request - 1 /\ request' \in 0 .. SizeMod - 1
  BY <1>1, <1>5, LimitAssumption DEF LimitInv, TypeOK, SlotsCounted
<1>7. SlotsCounted'
  BY <1>4, <1>5, <1>6, LimitAssumption DEF LimitInv, SlotsCounted
<1> QED
  BY <1>1, <1>2, <1>6, <1>7 DEF LimitInv, TypeOK

LEMMA LimitInit == Init => LimitInv
<1> SUFFICES ASSUME Init PROVE LimitInv
  OBVIOUS
<1>1. Held = {}
  BY DEF Init, Held
<1>2. TypeOK
  BY LimitAssumption DEF Init, TypeOK, Label
<1> QED
  BY <1>1, <1>2, FS_EmptySet, LimitAssumption DEF Init, LimitInv, SlotsCounted

LEMMA LimitStep == LimitInv /\ [Next]_vars => LimitInv'
<1> SUFFICES ASSUME LimitInv, [Next]_vars PROVE LimitInv'
  OBVIOUS
<1>1. CASE UNCHANGED vars
  BY <1>1 DEF vars, LimitInv, TypeOK, SlotsCounted, Held
<1>2. ASSUME NEW o \in Op, Step(o) \/ ExchangeFails(o) \/ Release(o)
      PROVE  LimitInv'
  <2>1. CASE Aquire(o)
    BY <2>1, SameSlots DEF Aquire, GoTo, Label, LimitInv, TypeOK
  <2>2. CASE Load(o)
    BY <2>2, SameSlots DEF Load, GoTo, Label, LimitInv, TypeOK
  <2>3. CASE Exchange(o)
    BY <2>3, SlotTaken
  <2>4. CASE Full(o)
    BY <2>4, SameSlots DEF Full, GoTo, Label, LimitInv, TypeOK
  <2>5. CASE Polled(o)
    BY <2>5, SameSlots DEF Polled, GoTo, Label, LimitInv, TypeOK
  <2>6. CASE ExchangeFails(o)
    BY <2>6 DEF ExchangeFails, LimitInv, TypeOK, SlotsCounted, Held
  <2>7. CASE Release(o)
    BY <2>7, SlotGivenBack
  <2> QED
    BY <1>2, <2>1, <2>2, <2>3, <2>4, <2>5, <2>6, <2>7 DEF Step
<1> QED
  BY <1>1, <1>2 DEF Next

\* RateLimit::aquire and release (server.cpp:47-69) count the operations under
\* way exactly and never admit more than max_request of them.
THEOREM LimitHolds == Spec => []SlotsCounted
<1>1. LimitInv => SlotsCounted
  BY DEF LimitInv
<1> QED
  BY <1>1, LimitInit, LimitStep, PTL DEF Spec

----------------------------------------------------------------------------
(* Refinement of Slots.                                                    *)

Over == {o \in Op : pc[o] = "released"}

\* A step to a label that is neither "held" nor "released" takes no slot and
\* gives none back.
LEMMA SlotsUnchanged ==
  ASSUME TypeOK, NEW o \in Op, NEW l \in Label \ {"held", "released"},
         pc[o] \notin {"held", "released"}, pc' = [pc EXCEPT ![o] = l]
  PROVE  Held' = Held /\ Over' = Over
BY DEF TypeOK, Held, Over

\* The exchange that succeeds finds a free slot.
LEMMA ExchangeTakes ==
  ASSUME LimitInv, NEW o \in Op, Exchange(o)
  PROVE  AsSlots!Take(o)
<1>1. /\ pc' = [pc EXCEPT ![o] = "held"] /\ pc[o] = "exchange"
      /\ request < max_request /\ request' = (request + 1) % SizeMod
  BY DEF Exchange, GoTo
<1>2. Held' = Held \cup {o} /\ Over' = Over /\ o \notin Held \cup Over
  BY <1>1 DEF LimitInv, TypeOK, Held, Over
<1>3. /\ max_request - request > 0
      /\ max_request - request' = (max_request - request) - 1
  BY <1>1, LimitAssumption DEF LimitInv, TypeOK
<1> QED
  BY <1>2, <1>3 DEF AsSlots!Take, Over

\* A release never takes the counter below 0, by SlotsCounted.
LEMMA ReleaseGivesBack ==
  ASSUME LimitInv, NEW o \in Op, Release(o)
  PROVE  AsSlots!GiveBack(o)
<1>1. /\ pc' = [pc EXCEPT ![o] = "released"] /\ pc[o] = "held"
      /\ request' = (request - 1) % SizeMod
  BY DEF Release, GoTo
<1>2. Held' = Held \ {o} /\ Over' = Over \cup {o} /\ o \in Held
  BY <1>1 DEF LimitInv, TypeOK, Held, Over
<1>3. Cardinality(Held) \in Nat \ {0}
  BY <1>2, HeldFinite, FS_EmptySet
<1>4. max_request - request' = (max_request - request) + 1
  BY <1>1, <1>3, LimitAssumption DEF LimitInv, TypeOK, SlotsCounted
<1> QED
  BY <1>2, <1>4 DEF AsSlots!GiveBack, Over

LEMMA StepImplementsSlots ==
  ASSUME LimitInv, [Next]_vars
  PROVE  [AsSlots!Next]_(AsSlots!vars)
<1> USE DEF GoTo, Label, LimitInv
<1>1. CASE UNCHANGED vars
  BY <1>1 DEF vars, Held, AsSlots!vars
<1>2. ASSUME NEW o \in Op, Step(o) \/ ExchangeFails(o) \/ Release(o)
      PROVE  [AsSlots!Next]_(AsSlots!vars)
  <2>1. CASE Exchange(o)
    BY <2>1, ExchangeTakes DEF AsSlots!Next
  <2>2. CASE Release(o)
    BY <2>2, ReleaseGivesBack DEF AsSlots!Next
  <2>3. CASE ExchangeFails(o)
    BY <2>3 DEF ExchangeFails, Held, AsSlots!vars
  <2>4. CASE Aquire(o) \/ Load(o) \/ Full(o) \/ Polled(o)
    <3>1. Held' = Held /\ Over' = Over /\ request' = request
      BY <2>4, SlotsUnchanged DEF Aquire, Load, Full, Polled
    <3> QED
      BY <3>1 DEF Over, AsSlots!vars
  <2> QED
    BY <1>2, <2>1, <2>2, <2>3, <2>4 DEF Step
<1> QED
  BY <1>1, <1>2 DEF Next

\* RateLimit::aquire and release (server.cpp:47-69) are a set of max_request
\* slots taken and given back atomically, for any threads and commands: the
\* split load and exchange of aquire are invisible.
THEOREM RateLimitImplementsSlots == Spec => ImplementsSlots
<1>1. Init => AsSlots!Init
  BY LimitAssumption DEF Init, Held, AsSlots!Init
<1>2. LimitInv /\ [Next]_vars => [AsSlots!Next]_(AsSlots!vars)
  BY StepImplementsSlots
<1> QED
  BY <1>1, <1>2, LimitInit, LimitStep, PTL DEF Spec, ImplementsSlots, AsSlots!Spec
=============================================================================
