--------------------------- MODULE MemTableProofs ---------------------------
(***************************************************************************)
(* Proofs about MemTable for any keys, calls and clocks: the largest clock *)
(* survives, and the lock-free code implements the atomic store.           *)
(***************************************************************************)
EXTENDS MemTable, TLAPS

\* Clocks are compared as the integers they are packed into (lamport.h:29-33).
LEMMA ToIntNat ==
  ASSUME NEW a \in Clock
  PROVE  to_int(a) \in Nat
<1>1. a.count \in Nat /\ a.m_id \in Nat /\ MIdMod \in Nat
  BY WidthAssumption DEF Clock, Count, MachineId
<1> QED
  BY <1>1 DEF to_int

LEMMA MinIsClock == MinClock \in Clock
BY WidthAssumption DEF MinClock, Clock, Count, MachineId

LEMMA LeqOrders ==
  /\ \A a \in Clock : Leq(a, a)
  /\ \A a, b, c \in Clock : Leq(a, b) /\ Leq(b, c) => Leq(a, c)
BY ToIntNat DEF Leq

PutLabel == {"addOrGetData", "load", "exchange"}
GetLabel == {"find", "decrypt_node"}

\* Where a call stands and what it may rely on there.  The node of a key is
\* never removed, and its clock never falls behind a pointer once loaded.
CallOK(o) ==
  /\ pc[o] \in PutLabel => call[o].kind = "put"
  /\ pc[o] \in GetLabel => call[o].kind = "get"
  /\ pc[o] \in {"load", "exchange", "decrypt_node"} => meta[KeyOf(o)] # None
  /\ pc[o] = "exchange" => /\ old_meta[o] # None
                           /\ Leq(ClockOf(old_meta[o]), ClockOf(meta[KeyOf(o)]))
  /\ pc[o] \in {"return", "returned"} /\ call[o].kind = "put" =>
       meta[KeyOf(o)] # None /\ Leq(ClockOf(o), ClockOf(meta[KeyOf(o)]))

MemInv == TypeOK /\ \A o \in Op : CallOK(o)

LEMMA CallType ==
  ASSUME TypeOK, NEW o \in Op
  PROVE  /\ call[o].kind \in {"put", "get"}
         /\ KeyOf(o) \in Key /\ ClockOf(o) \in Clock
         /\ EntryOf(o) \in [clock : Clock, val : Op \cup {NoValue}]
<1>1. call[o] \in Call
  BY CallAssumption DEF TypeOK
<1> QED
  BY <1>1 DEF Call, KeyOf, ClockOf, EntryOf

LEMMA AbsentType == Absent \in [clock : Clock, val : Op \cup {NoValue}]
BY MinIsClock DEF Absent

\* The pointers of all keys only move to greater clocks.
MetaGrows ==
  \A k \in Key : meta[k] # None =>
    meta'[k] # None /\ Leq(ClockOf(meta[k]), ClockOf(meta'[k]))

LEMMA CallKept ==
  ASSUME MemInv, TypeOK', MetaGrows, call' = call, NEW o \in Op,
         pc'[o] = pc[o], old_meta'[o] = old_meta[o]
  PROVE  CallOK(o)'
<1> DEFINE k == KeyOf(o)
<1>1. k \in Key /\ ClockOf(o) \in Clock /\ CallOK(o)
  BY CallType DEF MemInv
<1>2. meta[k] # None => meta'[k] # None /\ Leq(ClockOf(meta[k]), ClockOf(meta'[k]))
  BY <1>1 DEF MetaGrows
<1>3. meta[k] # None => ClockOf(meta[k]) \in Clock /\ ClockOf(meta'[k]) \in Clock
  BY <1>1, <1>2, CallType DEF MemInv, TypeOK
<1>4. old_meta[o] # None => ClockOf(old_meta[o]) \in Clock
  BY CallType DEF MemInv, TypeOK
<1>5. pc[o] = "exchange" => Leq(ClockOf(old_meta[o]), ClockOf(meta'[k]))
  BY <1>1, <1>2, <1>3, <1>4, LeqOrders DEF CallOK
<1>6. pc[o] \in {"return", "returned"} /\ call[o].kind = "put" =>
        Leq(ClockOf(o), ClockOf(meta'[k]))
  BY <1>1, <1>2, <1>3, LeqOrders DEF CallOK
<1> QED
  BY <1>1, <1>2, <1>5, <1>6 DEF CallOK, KeyOf, ClockOf

LEMMA SameMetaGrows ==
  ASSUME TypeOK, meta' = meta
  PROVE  MetaGrows
BY CallType, LeqOrders DEF MetaGrows, TypeOK

LEMMA MemTypeStep ==
  ASSUME MemInv, NEW o \in Op,
         \/ Invoke(o) \/ PutStep(o) \/ ExchangeFails(o) \/ GetStep(o) \/ Return(o)
  PROVE  TypeOK'
<1>1. KeyOf(o) \in Key /\ CallOK(o) /\ TypeOK
  BY CallType DEF MemInv
<1>2. [ok |-> TRUE, entry |-> Absent] \in Result /\ [ok |-> FALSE, entry |-> Absent] \in Result
  BY AbsentType DEF Result
<1>3. CASE Invoke(o) \/ GetData(o) \/ Find(o) \/ Return(o)
  <2>1. PICK l \in Label : pc' = [pc EXCEPT ![o] = l]
    BY <1>3 DEF Invoke, GetData, Find, Return, GoTo, Label
  <2>2. UNCHANGED <<call, meta, old_meta, ret>>
    BY <1>3 DEF Invoke, GetData, Find, Return
  <2>3. pc' \in [Op -> Label]
    BY <1>1, <2>1 DEF TypeOK
  <2> QED
    BY <1>1, <2>2, <2>3 DEF TypeOK, Result
<1>4. CASE AddData(o) \/ Exchange(o)
  <2>1. /\ pc' = [pc EXCEPT ![o] = "return"]
        /\ meta' = [meta EXCEPT ![KeyOf(o)] = o]
        /\ ret' = [ret EXCEPT ![o] = [ok |-> TRUE, entry |-> Absent]]
        /\ call' = call /\ old_meta' = old_meta
    BY <1>4 DEF AddData, Exchange, GoTo, Give
  <2>2. meta' \in [Key -> Op \cup {None}]
    BY <1>1, <2>1 DEF TypeOK
  <2>3. ret' \in [Op -> Result]
    BY <1>1, <1>2, <2>1 DEF TypeOK
  <2>4. pc' \in [Op -> Label]
    BY <1>1, <2>1 DEF TypeOK, Label
  <2> QED
    BY <1>1, <2>1, <2>2, <2>3, <2>4 DEF TypeOK
<1>5. CASE Load(o) \/ ExchangeFails(o)
  BY <1>1, <1>5 DEF Load, ExchangeFails, GoTo, TypeOK, Label
<1>6. CASE GiveUp(o) \/ FindNothing(o)
  BY <1>1, <1>2, <1>6 DEF GiveUp, FindNothing, GoTo, Give, TypeOK, Label
<1>7. CASE DecryptNode(o)
  <2>1. meta[KeyOf(o)] \in Op
    BY <1>1, <1>7 DEF DecryptNode, CallOK, TypeOK
  <2>2. [ok |-> TRUE, entry |-> EntryOf(meta[KeyOf(o)])] \in Result
    BY <1>1, <2>1, CallType DEF Result
  <2> QED
    BY <1>1, <1>7, <2>2 DEF DecryptNode, GoTo, Give, TypeOK, Label
<1> QED
  BY <1>3, <1>4, <1>5, <1>6, <1>7 DEF PutStep, GetStep

LEMMA MemStep ==
  ASSUME MemInv, NEW o \in Op,
         \/ Invoke(o) \/ PutStep(o) \/ ExchangeFails(o) \/ GetStep(o) \/ Return(o)
  PROVE  MemInv'
<1>1. TypeOK' /\ TypeOK
  BY MemTypeStep DEF MemInv
<1>2. /\ call' = call
      /\ \A p \in Op : p # o => pc'[p] = pc[p] /\ old_meta'[p] = old_meta[p]
  BY DEF Invoke, PutStep, AddData, GetData, Load, Exchange, GiveUp, ExchangeFails,
         GetStep, FindNothing, Find, DecryptNode, Return, GoTo, MemInv, TypeOK
<1>3. KeyOf(o) \in Key /\ ClockOf(o) \in Clock /\ CallOK(o)
  BY <1>1, CallType DEF MemInv
<1>4. MetaGrows
  <2>1. CASE AddData(o)
    <3>1. \A k \in Key : k # KeyOf(o) => meta'[k] = meta[k]
      BY <2>1 DEF AddData, TypeOK, MemInv
    <3>2. \A k \in Key : meta[k] # None => meta'[k] = meta[k]
      BY <2>1, <3>1 DEF AddData
    <3> QED
      BY <1>1, <3>2, CallType, LeqOrders DEF MetaGrows, TypeOK
  <2>2. CASE Exchange(o)
    <3>1. /\ \A k \in Key : k # KeyOf(o) => meta'[k] = meta[k]
          /\ meta'[KeyOf(o)] = o
      BY <1>3, <2>2 DEF Exchange, TypeOK, MemInv
    <3>2. meta[KeyOf(o)] \in Op /\ Less(ClockOf(meta[KeyOf(o)]), ClockOf(o))
      BY <1>1, <1>3, <2>2 DEF Exchange, Older, CallOK, TypeOK
    <3>3. Leq(ClockOf(meta[KeyOf(o)]), ClockOf(o)) /\ o # None
      BY <1>1, <1>3, <3>2, CallType, ToIntNat, CallAssumption DEF Less, Leq
    <3> QED
      BY <1>1, <3>1, <3>3, CallType, LeqOrders DEF MetaGrows, TypeOK
  <2>3. CASE ~AddData(o) /\ ~Exchange(o)
    <3>1. meta' = meta
      BY <2>3 DEF Invoke, PutStep, GetData, Load, GiveUp, ExchangeFails,
                  GetStep, FindNothing, Find, DecryptNode, Return
    <3> QED
      BY <1>1, <3>1, SameMetaGrows
  <2> QED
    BY <2>1, <2>2, <2>3
<1>5. ASSUME NEW p \in Op, p # o
      PROVE  CallOK(p)'
  BY <1>1, <1>2, <1>4, <1>5, CallKept
<1>6. CallOK(o)'
  <2>1. KeyOf(o)' = KeyOf(o) /\ (\A p : ClockOf(p)' = ClockOf(p)) /\ call'[o].kind = call[o].kind
    BY <1>2 DEF KeyOf, ClockOf
  <2>2. CASE Invoke(o)
    <3>1. pc'[o] = IF call[o].kind = "put" THEN "addOrGetData" ELSE "find"
      BY <1>1, <2>2 DEF Invoke, GoTo, TypeOK
    <3>2. call[o].kind \in {"put", "get"}
      BY <1>1, CallType
    <3> QED
      BY <2>1, <3>1, <3>2 DEF CallOK, PutLabel, GetLabel
  <2>3. CASE AddData(o) \/ Exchange(o)
    <3>1. pc'[o] = "return" /\ meta'[KeyOf(o)] = o /\ o # None
      BY <1>1, <1>3, <2>3, CallAssumption DEF AddData, Exchange, GoTo, TypeOK
    <3> QED
      BY <1>3, <2>1, <3>1, LeqOrders DEF CallOK, PutLabel, GetLabel
  <2>4. CASE GetData(o) \/ Find(o)
    <3>1. /\ meta'[KeyOf(o)] # None
          /\ \/ pc[o] = "addOrGetData" /\ pc'[o] = "load"
             \/ pc[o] = "find" /\ pc'[o] = "decrypt_node"
      BY <1>1, <1>3, <2>4 DEF GetData, Find, GoTo, TypeOK
    <3> QED
      BY <1>3, <2>1, <3>1 DEF CallOK, PutLabel, GetLabel
  <2>5. CASE Load(o) \/ ExchangeFails(o)
    <3>1. /\ pc'[o] = "exchange" /\ pc[o] \in {"load", "exchange"}
          /\ old_meta'[o] = meta[KeyOf(o)] /\ meta' = meta
      BY <1>1, <2>5 DEF Load, ExchangeFails, GoTo, TypeOK
    <3>2. meta[KeyOf(o)] # None /\ call[o].kind = "put"
      BY <1>3, <3>1 DEF CallOK, PutLabel
    <3>3. Leq(ClockOf(meta[KeyOf(o)]), ClockOf(meta[KeyOf(o)]))
      BY <1>1, <1>3, <3>2, CallType, LeqOrders DEF TypeOK
    <3> QED
      BY <2>1, <3>1, <3>2, <3>3 DEF CallOK, PutLabel, GetLabel
  <2>6. CASE GiveUp(o)
    <3>1. /\ pc'[o] = "return" /\ pc[o] = "exchange" /\ meta' = meta
          /\ ~Less(ClockOf(old_meta[o]), ClockOf(o))
      BY <1>1, <2>6 DEF GiveUp, GoTo, TypeOK, Older
    <3>2. /\ meta[KeyOf(o)] # None
          /\ Leq(ClockOf(old_meta[o]), ClockOf(meta[KeyOf(o)]))
          /\ old_meta[o] # None
      BY <1>3, <3>1 DEF CallOK
    <3>3. ClockOf(old_meta[o]) \in Clock /\ ClockOf(meta[KeyOf(o)]) \in Clock
      BY <1>1, <1>3, <3>2, CallType DEF TypeOK
    <3>4. Leq(ClockOf(o), ClockOf(old_meta[o]))
      BY <1>3, <3>1, <3>3, ToIntNat DEF Less, Leq
    <3>5. Leq(ClockOf(o), ClockOf(meta[KeyOf(o)]))
      BY <1>3, <3>2, <3>3, <3>4, LeqOrders
    <3> QED
      BY <2>1, <3>1, <3>2, <3>5 DEF CallOK, PutLabel, GetLabel
  <2>7. CASE FindNothing(o) \/ DecryptNode(o)
    <3>1. pc'[o] = "return" /\ call[o].kind = "get"
      BY <1>1, <1>3, <2>7 DEF FindNothing, DecryptNode, GoTo, TypeOK, CallOK, GetLabel
    <3> QED
      BY <2>1, <3>1 DEF CallOK, PutLabel, GetLabel
  <2>8. CASE Return(o)
    <3>1. pc'[o] = "returned" /\ pc[o] = "return" /\ meta' = meta
      BY <1>1, <2>8 DEF Return, GoTo, TypeOK
    <3> QED
      BY <1>3, <2>1, <3>1 DEF CallOK, PutLabel, GetLabel
  <2> QED
    BY <2>2, <2>3, <2>4, <2>5, <2>6, <2>7, <2>8 DEF PutStep, GetStep
<1> QED
  BY <1>1, <1>5, <1>6 DEF MemInv

LEMMA MemInvariance == Spec => []MemInv
<1>1. Init => MemInv
  BY AbsentType DEF Init, MemInv, TypeOK, CallOK, Label, Result, NoResult, PutLabel, GetLabel
<1>2. MemInv /\ [Next]_vars => MemInv'
  <2> SUFFICES ASSUME MemInv, [Next]_vars PROVE MemInv'
    OBVIOUS
  <2>1. CASE Next
    BY <2>1, MemStep DEF Next
  <2>2. CASE UNCHANGED vars
    <3>1. TypeOK' /\ TypeOK
      BY <2>2 DEF vars, MemInv, TypeOK
    <3>2. \A o \in Op : CallOK(o)'
      BY <2>2, <3>1, SameMetaGrows, CallKept DEF vars
    <3> QED
      BY <3>1, <3>2 DEF MemInv
  <2> QED
    BY <2>1, <2>2
<1> QED
  BY <1>1, <1>2, PTL DEF Spec

\* KV_store::put (memtable.cpp:9-19) loses no put: the entry of a key is never
\* older than a put of the key that returned, for any number of threads.
THEOREM LargestClockSurvives == Spec => []ReturnedPutsCovered
<1>1. MemInv => ReturnedPutsCovered
  BY DEF MemInv, CallOK, ReturnedPutsCovered
<1> QED
  BY <1>1, MemInvariance, PTL

----------------------------------------------------------------------------
(* The refinement of Store: every step is a step of the atomic store, or   *)
(* none.  A put that finds an entry it may not replace takes effect where  *)
(* it loads that entry, not where it returns.                              *)

StatusOf(o) == CASE pc[o] = "idle" -> "idle"
                 [] pc[o] \in {"addOrGetData", "load", "find", "decrypt_node"} -> "called"
                 [] pc[o] = "exchange" -> IF Older(o) THEN "called" ELSE "effect"
                 [] pc[o] = "return" -> "effect"
                 [] pc[o] = "returned" -> "returned"

StoredIn(k) == IF meta[k] = None THEN Absent ELSE EntryOf(meta[k])

\* A call that takes no step keeps its status.
LEMMA OthersKeepStatus ==
  ASSUME NEW o \in Op,
         \/ Invoke(o) \/ PutStep(o) \/ ExchangeFails(o) \/ GetStep(o) \/ Return(o),
         TypeOK
  PROVE  /\ call' = call
         /\ \A p \in Op : p # o => StatusOf(p)' = StatusOf(p)
<1>1. /\ call' = call
      /\ \A p \in Op : p # o => pc'[p] = pc[p] /\ old_meta'[p] = old_meta[p]
  BY DEF Invoke, PutStep, AddData, GetData, Load, Exchange, GiveUp, ExchangeFails,
         GetStep, FindNothing, Find, DecryptNode, Return, GoTo, TypeOK
<1>2. \A p \in Op : p # o => Older(p)' = Older(p)
  BY <1>1 DEF Older, ClockOf
<1> QED
  BY <1>1, <1>2 DEF StatusOf

LEMMA StatusMoves ==
  ASSUME NEW o \in Op,
         \/ Invoke(o) \/ PutStep(o) \/ ExchangeFails(o) \/ GetStep(o) \/ Return(o),
         TypeOK
  PROVE  statusBar' = [statusBar EXCEPT ![o] = StatusOf(o)']
<1>1. statusBar = [p \in Op |-> StatusOf(p)]
  BY DEF statusBar, StatusOf
<1>2. statusBar' = [p \in Op |-> StatusOf(p)']
  BY DEF statusBar, StatusOf
<1>3. \A p \in Op : p # o => StatusOf(p)' = StatusOf(p)
  BY OthersKeepStatus
<1> HIDE DEF StatusOf
<1> QED
  BY <1>1, <1>2, <1>3

\* A call has no result before it is about to return.
NoResultYet == \A o \in Op : pc[o] \notin {"return", "returned"} => ret[o] = NoResult

LEMMA NoResultStep ==
  ASSUME TypeOK, NoResultYet, NEW o \in Op,
         \/ Invoke(o) \/ PutStep(o) \/ ExchangeFails(o) \/ GetStep(o) \/ Return(o)
  PROVE  NoResultYet'
<1>1. \A p \in Op : p # o => pc'[p] = pc[p] /\ ret'[p] = ret[p]
  BY DEF Invoke, PutStep, AddData, GetData, Load, Exchange, GiveUp, ExchangeFails,
         GetStep, FindNothing, Find, DecryptNode, Return, GoTo, Give, TypeOK
<1>2. \/ pc'[o] \in {"return", "returned"}
      \/ pc[o] \notin {"return", "returned"} /\ ret' = ret
  BY DEF Invoke, PutStep, AddData, GetData, Load, Exchange, GiveUp, ExchangeFails,
         GetStep, FindNothing, Find, DecryptNode, Return, GoTo, TypeOK
<1>3. NoResult' = NoResult
  BY DEF NoResult
<1> QED
  BY <1>1, <1>2, <1>3 DEF NoResultYet

\* The steps that leave the entries of all keys alone.
LEMMA SameStore ==
  ASSUME call' = call, meta' = meta
  PROVE  kvBar' = kvBar
BY DEF kvBar, EntryOf

\* The two steps of put that install its entry.
LEMMA StoreGetsEntry ==
  ASSUME TypeOK, NEW o \in Op, call' = call,
         meta' = [meta EXCEPT ![KeyOf(o)] = o]
  PROVE  kvBar' = [kvBar EXCEPT ![KeyOf(o)] = EntryOf(o)]
<1>1. KeyOf(o) \in Key /\ o # None
  BY CallType, CallAssumption
<1>2. kvBar = [k \in Key |-> StoredIn(k)] /\ kvBar' = [k \in Key |-> StoredIn(k)']
  BY DEF kvBar, StoredIn
<1>3. \A k \in Key : k # KeyOf(o) => StoredIn(k)' = StoredIn(k)
  BY DEF StoredIn, EntryOf, TypeOK
<1>4. \A k \in Key : k = KeyOf(o) => StoredIn(k)' = EntryOf(o)
  <2>1. \A k \in Key : k = KeyOf(o) => meta'[k] = o
    BY <1>1 DEF TypeOK
  <2>2. EntryOf(o)' = EntryOf(o)
    BY DEF EntryOf
  <2> QED
    BY <1>1, <2>1, <2>2 DEF StoredIn
<1> HIDE DEF StoredIn
<1>5. \A k \in Key : kvBar'[k] = IF k = KeyOf(o) THEN EntryOf(o) ELSE kvBar[k]
  BY <1>1, <1>2, <1>3, <1>4
<1> QED
  BY <1>1, <1>2, <1>5

\* The two modules extend the same definitions of clocks and entries.
LEMMA StoreOperators ==
  /\ AtomicStore!Absent = Absent
  /\ AtomicStore!NoResult = NoResult
  /\ \A old, c : AtomicStore!Newer(old, c) = Newer(old, c)
  /\ \A old, c, v : AtomicStore!Put(old, c, v) = Put(old, c, v)
<1>1. \A c, d : AtomicStore!Less(c, d) = Less(c, d)
  BY DEF AtomicStore!Less, Less, AtomicStore!to_int, to_int
<1>2. AtomicStore!Absent = Absent
  BY DEF AtomicStore!Absent, Absent, AtomicStore!MinClock, MinClock
<1>3. \A old, c : AtomicStore!Newer(old, c) = Newer(old, c)
  BY <1>1 DEF AtomicStore!Newer, Newer
<1> QED
  BY <1>2, <1>3 DEF AtomicStore!NoResult, NoResult, AtomicStore!Put, Put

LEMMA EffectOfPut ==
  ASSUME MemInv, NEW o \in Op,
         AddData(o) \/ Exchange(o)
  PROVE  AtomicStore!PutEffect(o)
<1> DEFINE k == KeyOf(o)
<1>1. TypeOK /\ CallOK(o) /\ k \in Key /\ ClockOf(o) \in Clock
  BY CallType DEF MemInv
<1>2. /\ pc'[o] = "return" /\ call' = call
      /\ meta' = [meta EXCEPT ![KeyOf(o)] = o]
      /\ ret' = [ret EXCEPT ![o] = [ok |-> TRUE, entry |-> Absent]]
  BY <1>1 DEF AddData, Exchange, GoTo, Give, TypeOK
<1>3. call[o].kind = "put" /\ statusBar[o] = "called"
  BY <1>1 DEF AddData, Exchange, CallOK, PutLabel, statusBar
<1>4. statusBar' = [statusBar EXCEPT ![o] = "effect"]
  <2>1. StatusOf(o)' = "effect"
    BY <1>2 DEF StatusOf
  <2> QED
    BY <1>1, <2>1, StatusMoves DEF PutStep
<1>5. kvBar' = [kvBar EXCEPT ![k] = [clock |-> ClockOf(o), val |-> o]]
  BY <1>1, <1>2, StoreGetsEntry DEF EntryOf, ClockOf
<1>6. Newer(kvBar[k], ClockOf(o))
  <2>1. CASE AddData(o)
    BY <1>1, <2>1 DEF AddData, kvBar, Newer, Absent
  <2>2. CASE Exchange(o)
    BY <1>1, <2>2 DEF Exchange, Older, CallOK, kvBar, Newer, EntryOf, ClockOf
  <2> QED
    BY <2>1, <2>2
<1>7. kvBar' = [kvBar EXCEPT ![k] = Put(@, ClockOf(o), o)]
  BY <1>1, <1>5, <1>6 DEF Put, kvBar
<1>8. Newer(kvBar[k], ClockOf(o)) = TRUE
  BY <1>6 DEF Newer
<1> QED
  BY <1>2, <1>3, <1>4, <1>7, <1>8, StoreOperators
     DEF AtomicStore!PutEffect, KeyOf, ClockOf

\* A put that loads a pointer sees the entry of that moment: if it may not
\* replace it, this is where the atomic store turns it down.
LEMMA LoadRefines ==
  ASSUME MemInv, NoResultYet, NEW o \in Op,
         Load(o) \/ ExchangeFails(o)
  PROVE  AtomicStore!PutEffect(o) \/ UNCHANGED AtomicStore!vars
<1> DEFINE k == KeyOf(o)
<1>1. TypeOK /\ CallOK(o) /\ k \in Key /\ ClockOf(o) \in Clock /\ ret[o] = NoResult
  BY CallType DEF MemInv, NoResultYet, Load, ExchangeFails
<1>2. /\ pc[o] \in {"load", "exchange"} /\ pc'[o] = "exchange" /\ call' = call /\ meta' = meta /\ ret' = ret
      /\ old_meta'[o] = meta[k] /\ meta[k] # None /\ call[o].kind = "put"
  BY <1>1 DEF Load, ExchangeFails, GoTo, TypeOK, CallOK, PutLabel
<1>3. kvBar' = kvBar /\ kvBar[k] = EntryOf(meta[k])
  BY <1>1, <1>2, SameStore DEF kvBar
<1>4. statusBar[o] = "called" /\ statusBar' = [statusBar EXCEPT ![o] = StatusOf(o)']
  BY <1>1, StatusMoves DEF PutStep, Load, ExchangeFails, statusBar
<1>5. StatusOf(o)' = IF Older(o)' THEN "called" ELSE "effect"
  BY <1>2 DEF StatusOf
<1>6. Older(o)' = Less(kvBar[k].clock, ClockOf(o))
  BY <1>2, <1>3 DEF Older, ClockOf, EntryOf
<1>7. kvBar[k].val # NoValue
  BY <1>1, <1>2, <1>3, CallAssumption DEF EntryOf, TypeOK
<1>8. CASE Older(o)'
  <2>1. statusBar' = statusBar
    BY <1>4, <1>5, <1>8 DEF statusBar
  <2> QED
    BY <1>2, <1>3, <2>1 DEF AtomicStore!vars
<1>9. CASE ~Older(o)'
  <2>1. Newer(kvBar[k], ClockOf(o)) = FALSE
    BY <1>6, <1>7, <1>9 DEF Newer
  <2>2. statusBar' = [statusBar EXCEPT ![o] = "effect"]
    BY <1>4, <1>5, <1>9
  <2>3. ret' = [ret EXCEPT ![o] = [ok |-> FALSE, entry |-> Absent]]
    BY <1>1, <1>2 DEF NoResult, TypeOK
  <2>4. kvBar' = [kvBar EXCEPT ![k] = Put(@, ClockOf(o), o)]
    BY <1>1, <1>3, <2>1 DEF Put, kvBar
  <2>5. AtomicStore!PutEffect(o)
    BY <1>2, <1>4, <2>1, <2>2, <2>3, <2>4, StoreOperators
       DEF AtomicStore!PutEffect, KeyOf, ClockOf
  <2> QED
    BY <2>5
<1> QED
  BY <1>8, <1>9

LEMMA EffectOfGet ==
  ASSUME MemInv, NEW o \in Op,
         FindNothing(o) \/ DecryptNode(o)
  PROVE  AtomicStore!GetEffect(o)
<1>1. TypeOK /\ CallOK(o) /\ KeyOf(o) \in Key
  BY CallType DEF MemInv
<1>2. /\ pc'[o] = "return" /\ call' = call /\ meta' = meta
      /\ call[o].kind = "get" /\ statusBar[o] = "called"
  BY <1>1 DEF FindNothing, DecryptNode, GoTo, TypeOK, CallOK, GetLabel, statusBar
<1>3. ret' = [ret EXCEPT ![o] = [ok |-> TRUE, entry |-> kvBar[KeyOf(o)]]]
  BY <1>1 DEF FindNothing, DecryptNode, Give, CallOK, kvBar
<1>4. statusBar' = [statusBar EXCEPT ![o] = "effect"]
  <2>1. StatusOf(o)' = "effect"
    BY <1>2 DEF StatusOf
  <2> QED
    BY <1>1, <2>1, StatusMoves DEF GetStep
<1> QED
  BY <1>2, <1>3, <1>4, SameStore DEF AtomicStore!GetEffect, KeyOf

LEMMA StepRefines ==
  ASSUME MemInv, NoResultYet, NEW o \in Op,
         \/ Invoke(o) \/ PutStep(o) \/ ExchangeFails(o) \/ GetStep(o) \/ Return(o)
  PROVE  \/ AtomicStore!Invoke(o) \/ AtomicStore!PutEffect(o)
         \/ AtomicStore!GetEffect(o) \/ AtomicStore!Return(o)
         \/ UNCHANGED AtomicStore!vars
<1>1. TypeOK /\ statusBar' = [statusBar EXCEPT ![o] = StatusOf(o)']
  BY StatusMoves DEF MemInv
<1>2. CASE Invoke(o)
  <2>1. StatusOf(o)' = "called" /\ statusBar[o] = "idle"
    BY <1>1, <1>2 DEF Invoke, GoTo, TypeOK, StatusOf, statusBar
  <2> QED
    BY <1>1, <1>2, <2>1, SameStore DEF Invoke, AtomicStore!Invoke
<1>3. CASE Return(o)
  <2>1. StatusOf(o)' = "returned" /\ statusBar[o] = "effect"
    BY <1>1, <1>3 DEF Return, GoTo, TypeOK, StatusOf, statusBar
  <2> QED
    BY <1>1, <1>3, <2>1, SameStore DEF Return, AtomicStore!Return
<1>4. CASE GetData(o) \/ Find(o)
  <2>1. StatusOf(o)' = "called" /\ statusBar[o] = "called"
    BY <1>1, <1>4 DEF GetData, Find, GoTo, TypeOK, StatusOf, statusBar
  <2>2. statusBar' = statusBar
    BY <1>1, <2>1 DEF statusBar
  <2> QED
    BY <1>4, <2>2, SameStore DEF GetData, Find, AtomicStore!vars
<1>5. CASE GiveUp(o)
  <2>1. StatusOf(o)' = "effect" /\ statusBar[o] = "effect" /\ ret[o] = NoResult
    BY <1>1, <1>5 DEF GiveUp, GoTo, TypeOK, StatusOf, statusBar, NoResultYet
  <2>2. statusBar' = statusBar
    BY <1>1, <2>1 DEF statusBar
  <2>3. ret' = ret
    BY <1>1, <1>5, <2>1 DEF GiveUp, Give, NoResult, TypeOK
  <2> QED
    BY <1>5, <2>2, <2>3, SameStore DEF GiveUp, AtomicStore!vars
<1>6. CASE AddData(o) \/ Exchange(o)
  BY <1>6, EffectOfPut
<1>7. CASE Load(o) \/ ExchangeFails(o)
  BY <1>7, LoadRefines
<1>8. CASE FindNothing(o) \/ DecryptNode(o)
  BY <1>8, EffectOfGet
<1> QED
  BY <1>2, <1>3, <1>4, <1>5, <1>6, <1>7, <1>8 DEF PutStep, GetStep

\* KV_store::put and KV_store::get (memtable.cpp:9-47), one shared access at a
\* time, behave like a store in which every call takes effect at once.
THEOREM MemTableImplementsStore == Spec => ImplementsStore
<1>1. Init => AtomicStore!Init /\ NoResultYet
  BY StoreOperators DEF Init, AtomicStore!Init, NoResultYet, kvBar, statusBar
<1>2. MemInv /\ NoResultYet /\ [Next]_vars =>
        NoResultYet' /\ [AtomicStore!Next]_AtomicStore!vars
  <2> SUFFICES ASSUME MemInv, NoResultYet, [Next]_vars
               PROVE  NoResultYet' /\ [AtomicStore!Next]_AtomicStore!vars
    OBVIOUS
  <2>1. CASE Next
    BY <2>1, NoResultStep, StepRefines DEF Next, MemInv, AtomicStore!Next
  <2>2. CASE UNCHANGED vars
    <3>1. UNCHANGED AtomicStore!vars
      BY <2>2, SameStore DEF vars, AtomicStore!vars, statusBar, Older, ClockOf
    <3>2. NoResultYet'
      BY <2>2 DEF vars, NoResultYet, NoResult
    <3> QED
      BY <3>1, <3>2
  <2> QED
    BY <2>1, <2>2
<1> QED
  BY <1>1, <1>2, MemInvariance, PTL DEF Spec, ImplementsStore, AtomicStore!Spec
=============================================================================
