---------------------------- MODULE HashtableProofs ----------------------------
(***************************************************************************)
(* Theorems about Hashtable, for every number of threads, capacity, set of *)
(* items and hash function: types, the count of accessors, that no         *)
(* insertion overwrites another; and, of its searches, that what is stored *)
(* is found from its hash, what a look-up misses was not there, and what   *)
(* it takes by mistake had just come.                                      *)
(***************************************************************************)
EXTENDS Hashtable, FiniteSetTheorems, TLAPS

(* What each thread holds at each label, and whose every item is: nobody's *)
(* yet, one thread's, or stored.                                           *)
Busy(p) == pc[p] # "idle"
Finishing(p) == pc[p] \in {"finish_read", "finish_swap"}

Labelled ==
  \A p \in Threads :
    /\ call[p] = "none" <=> pc[p] = "idle"
    /\ pc[p] = "again" => call[p] = "do"
    /\ pc[p] = "exchange" => call[p] = "insert"
    /\ pc[p] = "finish_swap" => prev[p] \in 0..NumThreads

Held ==
  /\ \A p \in Threads : Busy(p) => item[p] \in Items \ todo
  /\ \A p, q \in Threads : Busy(p) /\ Busy(q) /\ item[p] = item[q] => p = q

Placed ==
  /\ \A s \in Slots : data[s] \notin todo
  /\ \A s, t \in Slots : data[s] # None /\ data[s] = data[t] => s = t
  /\ \A p \in Threads : call[p] = "do" => item[p] \notin Stored
  /\ \A p \in Threads : call[p] = "insert" => (item[p] \in Stored <=> Finishing(p))

IInv == TypeOK /\ AccessorsAreCounted /\ Labelled /\ Held /\ Placed
-------------------------------------------------------------------------------
(* A thread that enters or leaves changes the count by one.                *)
LEMMA ThreadsFinite ==
  /\ IsFiniteSet(Threads) /\ Cardinality(Threads) = NumThreads
  /\ \A S \in SUBSET Threads : IsFiniteSet(S) /\ Cardinality(S) \in 0..NumThreads
<1>1. IsFiniteSet(Threads) /\ Cardinality(Threads) = NumThreads
  BY FS_Interval, TableAssumption DEF Threads
<1>2. ASSUME NEW S \in SUBSET Threads
      PROVE  IsFiniteSet(S) /\ Cardinality(S) \in 0..NumThreads
  BY <1>1, FS_Subset, FS_CardinalityType, TableAssumption
<1>. QED BY <1>1, <1>2

LEMMA OneMore ==
  ASSUME NEW S \in SUBSET Threads, NEW p \in Threads, p \notin S
  PROVE  Cardinality(S \cup {p}) = Cardinality(S) + 1 /\ Cardinality(S) + 1 \in 0..NumThreads
BY ThreadsFinite, FS_AddElement

LEMMA OneLess ==
  ASSUME NEW S \in SUBSET Threads, NEW p \in S
  PROVE  Cardinality(S \ {p}) = Cardinality(S) - 1 /\ Cardinality(S) - 1 \in 0..NumThreads
<1>1. IsFiniteSet(S) /\ Cardinality(S) \in 0..NumThreads
  BY ThreadsFinite
<1>2. Cardinality(S \ {p}) = Cardinality(S) - 1 /\ Cardinality(S \ {p}) \in Nat
  BY <1>1, FS_RemoveElement, FS_CardinalityType, FS_Subset
<1>. QED BY <1>1, <1>2, TableAssumption
-------------------------------------------------------------------------------
LEMMA InitInv == Init => IInv
<1>. SUFFICES ASSUME Init PROVE IInv
  OBVIOUS
<1>1. TypeOK
  BY TableAssumption DEF Init, TypeOK, Labels, Slots
<1>2. AccessorsAreCounted
  <2>1. Inside = {}
    BY DEF Init, Inside
  <2>. QED BY <2>1, FS_EmptySet DEF Init, AccessorsAreCounted
<1>3. Labelled /\ Held /\ Placed
  BY TableAssumption DEF Init, Labelled, Held, Placed, Busy, Finishing, Stored
<1>. QED BY <1>1, <1>2, <1>3 DEF IInv

LEMMA StartDoKeeps == ASSUME IInv, NEW p \in Threads, StartDo(p) PROVE IInv'
<1>. USE DEF IInv
<1>1. TypeOK'
  BY TableAssumption DEF StartDo, At, Goto, TypeOK, Labels, local, Slots, Stored
<1>2. AccessorsAreCounted'
  <2>1. Inside' = Inside
    BY DEF StartDo, At, Goto, TypeOK, Inside, local
  <2>. QED BY <2>1 DEF StartDo, At, Goto, AccessorsAreCounted, local
<1>3. Labelled'
  BY DEF StartDo, At, Goto, TypeOK, Labelled, local
<1>4. Held'
  BY DEF StartDo, At, Goto, TypeOK, Labelled, Held, Busy, local
<1>5. Placed'
  BY DEF StartDo, At, Goto, TypeOK, Labelled, Held, Busy, Placed, Stored, Finishing, local
<1>. QED BY <1>1, <1>2, <1>3, <1>4, <1>5

LEMMA ReadAccessorsKeeps == ASSUME IInv, NEW p \in Threads, ReadAccessors(p) PROVE IInv'
<1>. USE DEF IInv
<1>1. TypeOK'
  BY TableAssumption DEF ReadAccessors, At, Goto, TypeOK, Labels, local, Slots
<1>2. AccessorsAreCounted'
  <2>1. Inside' = Inside
    BY DEF ReadAccessors, At, Goto, TypeOK, Inside, local
  <2>. QED BY <2>1 DEF ReadAccessors, At, Goto, AccessorsAreCounted, local
<1>3. Labelled'
  BY DEF ReadAccessors, At, Goto, TypeOK, Labelled, local
<1>4. Held'
  BY DEF ReadAccessors, At, Goto, TypeOK, Labelled, Held, Busy, local
<1>5. Placed'
  BY DEF ReadAccessors, At, Goto, TypeOK, Labelled, Held, Busy, Placed, Stored, Finishing, local
<1>. QED BY <1>1, <1>2, <1>3, <1>4, <1>5

LEMMA SwapStartKeeps == ASSUME IInv, NEW p \in Threads, SwapStart(p) PROVE IInv'
<1>. USE DEF IInv
<1>1. p \notin Inside /\ Inside \subseteq Threads /\ accessors = Cardinality(Inside)
  BY DEF SwapStart, At, Inside, AccessorsAreCounted
<1>2. ASSUME accessors = prev[p] PROVE TypeOK' /\ AccessorsAreCounted'
  <2>1. Home(item[p]) \in Slots
    <3>1. hash[item[p]] \in Nat
      BY TableAssumption DEF SwapStart, At, TypeOK, Held, Busy
    <3>. QED BY <3>1, TableAssumption DEF Home, Slots
  <2>2. accessors' = Cardinality(Inside) + 1
    BY <1>1, <1>2 DEF SwapStart
  <2>3. accessors' \in 0..NumThreads
    BY <1>1, <2>2, OneMore
  <2>4. TypeOK'
    BY <1>2, <2>1, <2>3, TableAssumption DEF SwapStart, At, Goto, TypeOK, Labels
  <2>5. Inside' = Inside \cup {p}
    BY <1>2 DEF SwapStart, At, Goto, TypeOK, Inside
  <2>6. AccessorsAreCounted'
    BY <1>1, <2>2, <2>5, OneMore DEF AccessorsAreCounted
  <2>. QED BY <2>4, <2>6
<1>3. ASSUME accessors # prev[p] PROVE TypeOK' /\ AccessorsAreCounted'
  <2>1. TypeOK'
    BY <1>3, TableAssumption DEF SwapStart, At, Goto, TypeOK, Labels
  <2>2. Inside' = Inside
    BY <1>3 DEF SwapStart, At, Goto, TypeOK, Inside
  <2>. QED BY <1>3, <2>1, <2>2 DEF SwapStart, AccessorsAreCounted
<1>4. Labelled'
  BY DEF SwapStart, At, Goto, Home, TypeOK, Labelled, local
<1>5. Held'
  BY DEF SwapStart, At, Goto, Home, TypeOK, Labelled, Held, Busy, local
<1>6. Placed'
  BY DEF SwapStart, At, Goto, Home, TypeOK, Labelled, Held, Busy, Placed, Stored, Finishing, local
<1>. QED BY <1>2, <1>3, <1>4, <1>5, <1>6

LEMMA LookPastKeeps == ASSUME IInv, NEW p \in Threads, LookPast(p) PROVE IInv'
<1>. USE DEF IInv
<1>1. TypeOK'
  BY TableAssumption DEF LookPast, At, NextSlot, TypeOK, Labels, local, Slots
<1>2. AccessorsAreCounted'
  <2>1. Inside' = Inside
    BY DEF LookPast, At, NextSlot, TypeOK, Inside, local
  <2>. QED BY <2>1 DEF LookPast, At, NextSlot, AccessorsAreCounted, local
<1>3. Labelled'
  BY DEF LookPast, At, NextSlot, TypeOK, Labelled, local
<1>4. Held'
  BY DEF LookPast, At, NextSlot, TypeOK, Labelled, Held, Busy, local
<1>5. Placed'
  BY DEF LookPast, At, NextSlot, TypeOK, Labelled, Held, Busy, Placed, Stored, Finishing, local
<1>. QED BY <1>1, <1>2, <1>3, <1>4, <1>5

LEMMA LookHitKeeps == ASSUME IInv, NEW p \in Threads, LookHit(p) PROVE IInv'
<1>. USE DEF IInv
<1>1. TypeOK'
  BY TableAssumption DEF LookHit, At, Goto, TypeOK, Labels, local, Slots
<1>2. AccessorsAreCounted'
  <2>1. Inside' = Inside
    BY DEF LookHit, At, Goto, TypeOK, Inside, local
  <2>. QED BY <2>1 DEF LookHit, At, Goto, AccessorsAreCounted, local
<1>3. Labelled'
  BY DEF LookHit, At, Goto, TypeOK, Labelled, local
<1>4. Held'
  BY DEF LookHit, At, Goto, TypeOK, Labelled, Held, Busy, local
<1>5. Placed'
  BY DEF LookHit, At, Goto, TypeOK, Labelled, Held, Busy, Placed, Stored, Finishing, local
<1>. QED BY <1>1, <1>2, <1>3, <1>4, <1>5

LEMMA LookEmptyKeeps == ASSUME IInv, NEW p \in Threads, LookEmpty(p) PROVE IInv'
<1>. USE DEF IInv
<1>1. TypeOK'
  BY TableAssumption DEF LookEmpty, At, Goto, TypeOK, Labels, local, Slots
<1>2. AccessorsAreCounted'
  <2>1. Inside' = Inside
    BY DEF LookEmpty, At, Goto, TypeOK, Inside, local
  <2>. QED BY <2>1 DEF LookEmpty, At, Goto, AccessorsAreCounted, local
<1>3. Labelled'
  BY DEF LookEmpty, At, Goto, TypeOK, Labelled, local
<1>4. Held'
  BY DEF LookEmpty, At, Goto, TypeOK, Labelled, Held, Busy, local
<1>5. Placed'
  BY DEF LookEmpty, At, Goto, TypeOK, Labelled, Held, Busy, Placed, Stored, Finishing, local
<1>. QED BY <1>1, <1>2, <1>3, <1>4, <1>5

LEMMA LookAgainKeeps == ASSUME IInv, NEW p \in Threads, LookAgain(p) PROVE IInv'
<1>. USE DEF IInv
<1>1. TypeOK'
  BY TableAssumption DEF LookAgain, At, Goto, TypeOK, Labels, local, Slots
<1>2. AccessorsAreCounted'
  <2>1. Inside' = Inside
    BY DEF LookAgain, At, Goto, TypeOK, Inside, local
  <2>. QED BY <2>1 DEF LookAgain, At, Goto, AccessorsAreCounted, local
<1>3. Labelled'
  BY DEF LookAgain, At, Goto, TypeOK, Labelled, local
<1>4. Held'
  BY DEF LookAgain, At, Goto, TypeOK, Labelled, Held, Busy, local
<1>5. Placed'
  BY DEF LookAgain, At, Goto, TypeOK, Labelled, Held, Busy, Placed, Stored, Finishing, local
<1>. QED BY <1>1, <1>2, <1>3, <1>4, <1>5

LEMMA InsertPastKeeps == ASSUME IInv, NEW p \in Threads, InsertPast(p) PROVE IInv'
<1>. USE DEF IInv
<1>1. TypeOK'
  BY TableAssumption DEF InsertPast, At, NextSlot, TypeOK, Labels, local, Slots
<1>2. AccessorsAreCounted'
  <2>1. Inside' = Inside
    BY DEF InsertPast, At, NextSlot, TypeOK, Inside, local
  <2>. QED BY <2>1 DEF InsertPast, At, NextSlot, AccessorsAreCounted, local
<1>3. Labelled'
  BY DEF InsertPast, At, NextSlot, TypeOK, Labelled, local
<1>4. Held'
  BY DEF InsertPast, At, NextSlot, TypeOK, Labelled, Held, Busy, local
<1>5. Placed'
  BY DEF InsertPast, At, NextSlot, TypeOK, Labelled, Held, Busy, Placed, Stored, Finishing, local
<1>. QED BY <1>1, <1>2, <1>3, <1>4, <1>5

LEMMA InsertHereKeeps == ASSUME IInv, NEW p \in Threads, InsertHere(p) PROVE IInv'
<1>. USE DEF IInv
<1>1. TypeOK'
  BY TableAssumption DEF InsertHere, At, Goto, TypeOK, Labels, local, Slots
<1>2. AccessorsAreCounted'
  <2>1. Inside' = Inside
    BY DEF InsertHere, At, Goto, TypeOK, Inside, local
  <2>. QED BY <2>1 DEF InsertHere, At, Goto, AccessorsAreCounted, local
<1>3. Labelled'
  BY DEF InsertHere, At, Goto, TypeOK, Labelled, local
<1>4. Held'
  BY DEF InsertHere, At, Goto, TypeOK, Labelled, Held, Busy, local
<1>5. Placed'
  BY DEF InsertHere, At, Goto, TypeOK, Labelled, Held, Busy, Placed, Stored, Finishing, local
<1>. QED BY <1>1, <1>2, <1>3, <1>4, <1>5

LEMMA ExchangeKeeps == ASSUME IInv, NEW p \in Threads, Exchange(p) PROVE IInv'
<1>. USE DEF IInv
<1>1. TypeOK'
  BY TableAssumption DEF Exchange, At, Goto, TypeOK, Labels, local, Slots
<1>2. AccessorsAreCounted'
  <2>1. Inside' = Inside
    BY DEF Exchange, At, Goto, TypeOK, Inside, local
  <2>. QED BY <2>1 DEF Exchange, At, Goto, AccessorsAreCounted, local
<1>3. Labelled'
  BY DEF Exchange, At, Goto, TypeOK, Labelled, local
<1>4. Held'
  BY DEF Exchange, At, Goto, TypeOK, Labelled, Held, Busy, local
<1>5. Placed'
  <2>1. call[p] = "insert" /\ index[p] \in Slots /\ item[p] \in Items \ todo
        /\ item[p] \notin Stored
    BY DEF Exchange, At, TypeOK, Labelled, Held, Busy, Placed, Finishing
  <2>2. CASE Slot(p) = None
    <3>1. /\ data' = [data EXCEPT ![index[p]] = item[p]]
          /\ pc' = [pc EXCEPT ![p] = "finish_read"]
          /\ UNCHANGED <<call, item, todo>>
      BY <2>2 DEF Exchange, Goto, local
    <3>2. Stored' = Stored \cup {item[p]}
      BY <2>1, <2>2, <3>1, TableAssumption DEF Stored, TypeOK, Slot
    <3>3. \A s \in Slots : data'[s] \notin todo'
      BY <2>1, <3>1 DEF TypeOK, Placed
    <3>4. \A s, t \in Slots : data'[s] # None /\ data'[s] = data'[t] => s = t
      BY <2>1, <3>1, TableAssumption DEF TypeOK, Placed, Stored
    <3>5. \A q \in Threads : call[q] \in {"do", "insert"} /\ item[q] = item[p] => q = p
      BY DEF Held, Labelled, Busy, Exchange, At
    <3>6. \A q \in Threads : call'[q] = "do" => item'[q] \notin Stored'
      BY <2>1, <3>1, <3>2, <3>5 DEF Placed
    <3>7. \A q \in Threads : call'[q] = "insert" => (item'[q] \in Stored' <=> Finishing(q)')
      BY <2>1, <3>1, <3>2, <3>5 DEF Placed, Finishing, TypeOK
    <3>. QED BY <3>3, <3>4, <3>6, <3>7 DEF Placed
  <2>3. CASE Slot(p) # None
    BY <2>1, <2>3 DEF Exchange, At, Goto, TypeOK, Placed, Stored, Finishing, local
  <2>. QED BY <2>2, <2>3
<1>. QED BY <1>1, <1>2, <1>3, <1>4, <1>5

LEMMA SwapFinishKeeps == ASSUME IInv, NEW p \in Threads, SwapFinish(p) PROVE IInv'
<1>. USE DEF IInv
<1>1. p \in Inside /\ Inside \subseteq Threads /\ accessors = Cardinality(Inside)
  BY DEF SwapFinish, At, Inside, AccessorsAreCounted
<1>2. ASSUME accessors = prev[p] PROVE TypeOK' /\ AccessorsAreCounted'
  <2>1. accessors' = Cardinality(Inside) - 1
    BY <1>1, <1>2 DEF SwapFinish
  <2>2. accessors' \in 0..NumThreads
    BY <1>1, <2>1, OneLess
  <2>3. TypeOK'
    <3>1. 0 \in Slots
      BY TableAssumption DEF Slots
    <3>2. 0 \in 0..NumThreads
      BY TableAssumption
    <3>3. UNCHANGED <<data, hash, todo>> /\ AfterCall(p)
      BY <1>2 DEF SwapFinish
    <3>4. pc' \in [Threads -> Labels] /\ call' \in [Threads -> {"do", "insert", "none"}]
      BY <3>3 DEF AfterCall, Goto, TypeOK, Labels
    <3>5. item' \in [Threads -> Items \cup {None}]
      BY <3>3 DEF AfterCall, TypeOK
    <3>6. /\ prev' \in [Threads -> 0..NumThreads]
          /\ index' \in [Threads -> Slots]
          /\ found' \in [Threads -> Slots \cup {None}]
          /\ before' \in [Threads -> SUBSET Items]
      BY <3>1, <3>2, <3>3 DEF AfterCall, TypeOK
    <3>. QED BY <2>2, <3>3, <3>4, <3>5, <3>6 DEF TypeOK
  <2>4. Inside' = Inside \ {p}
    BY <1>2 DEF SwapFinish, AfterCall, At, Goto, TypeOK, Inside
  <2>5. AccessorsAreCounted'
    BY <1>1, <2>1, <2>4, OneLess DEF AccessorsAreCounted
  <2>. QED BY <2>3, <2>5
<1>3. ASSUME accessors # prev[p] PROVE TypeOK' /\ AccessorsAreCounted'
  <2>1. TypeOK'
    BY <1>3, TableAssumption DEF SwapFinish, At, Goto, TypeOK, Labels
  <2>2. Inside' = Inside
    BY <1>3 DEF SwapFinish, At, Goto, TypeOK, Inside
  <2>. QED BY <1>3, <2>1, <2>2 DEF SwapFinish, AccessorsAreCounted
<1>4. Labelled'
  BY DEF SwapFinish, At, Goto, AfterCall, TypeOK, Labelled, local
<1>5. Held'
  BY DEF SwapFinish, At, Goto, AfterCall, TypeOK, Labelled, Held, Busy, local
<1>6. Placed'
  BY DEF SwapFinish, At, Goto, AfterCall, TypeOK, Labelled, Held, Busy, Placed, Stored, Finishing, local
<1>. QED BY <1>2, <1>3, <1>4, <1>5, <1>6

-------------------------------------------------------------------------------
(* The strengthened invariant holds in every reachable state: what each    *)
(* thread holds where, and whose every item is.                            *)
THEOREM Invariance == Spec => []IInv
<1>1. ASSUME IInv, [Next]_vars PROVE IInv'
  <2>1. ASSUME NEW p \in Threads, Step(p) PROVE IInv'
    BY <1>1, <2>1, StartDoKeeps,
       ReadAccessorsKeeps,
       SwapStartKeeps,
       LookPastKeeps,
       LookHitKeeps,
       LookEmptyKeeps,
       LookAgainKeeps,
       InsertPastKeeps,
       InsertHereKeeps,
       ExchangeKeeps,
       SwapFinishKeeps
       DEF Step
  <2>2. CASE UNCHANGED vars
    BY <1>1, <2>2 DEF IInv, TypeOK, AccessorsAreCounted, Inside, Labelled, Held, Busy, Placed,
       Stored, Finishing, vars, local
  <2>. QED BY <1>1, <2>1, <2>2 DEF Next, Done
<1>. QED BY <1>1, InitInv, PTL DEF Spec

(* Every variable keeps its type, for every capacity, number of threads    *)
(* and hash function: accessors never falls below zero, and no search      *)
(* leaves the array (storage_access_finish line 87, lines 103 and 129).    *)
THEOREM TypeCorrect == Spec => []TypeOK
BY Invariance, PTL DEF IInv

(* accessors counts the calls in the table, which storage_resize relies    *)
(* on, however the exchanges of the threads interleave.                    *)
THEOREM Counted == Spec => []AccessorsAreCounted
BY Invariance, PTL DEF IInv

(* No insertion overwrites another: what has got a slot keeps it, and has  *)
(* no second one (storage_insert line 133).                                *)
THEOREM Once == Spec => []StoredOnce
<1>1. IInv => StoredOnce
  <2>. SUFFICES ASSUME IInv, NEW p \in Threads, call[p] = "insert"
                PROVE  item[p] \in Stored <=> item[p] \notin Inserting
    BY DEF IInv, Placed, StoredOnce
  <2>1. \A q \in Threads : call[q] = "insert" /\ item[q] = item[p] => q = p
    BY DEF IInv, Held, Labelled, Busy
  <2>2. item[p] \in Inserting <=> ~Finishing(p)
    BY <2>1 DEF Inserting, Finishing
  <2>. QED BY <2>2 DEF IInv, Placed
<1>. QED BY <1>1, Invariance, PTL
-------------------------------------------------------------------------------
(* The slots that a thread's search has left behind.                       *)
Passed(p) == Between(Home(item[p]), index[p]) \ {index[p]}

(* What a thread may rely on, though others insert meanwhile.              *)
InsertPassed(p) ==
  call[p] = "insert" /\ pc[p] \in {"probe", "exchange"} =>
    \A t \in Passed(p) : data[t] # None

LookPassed(p) ==
  call[p] = "do" /\ pc[p] \in {"probe", "again"} =>
    \A t \in Passed(p) : data[t] # None /\ hash[data[t]] # hash[item[p]]

Remembers(p) == call[p] = "do" => before[p] \subseteq Stored

EmptyBefore(p) == pc[p] = "again" => data[index[p]] = None \/ data[index[p]] \notin before[p]

TrueMiss(p) ==
  Answered(p) /\ found[p] = None => \A i \in before[p] : hash[i] # hash[item[p]]

NewStray(p) ==
  Answered(p) /\ found[p] # None =>
    \/ hash[data[found[p]]] = hash[item[p]]
    \/ data[found[p]] \notin before[p]

(* A hit is a slot that is taken.                                          *)
HitTaken(p) == Answered(p) /\ found[p] # None => data[found[p]] # None

Knows(p) ==
  /\ InsertPassed(p) /\ LookPassed(p) /\ Remembers(p) /\ EmptyBefore(p)
  /\ TrueMiss(p) /\ NewStray(p) /\ HitTaken(p)

SearchInv == Findable /\ \A p \in Threads : Knows(p)
-------------------------------------------------------------------------------
(* Slots on a ring.                                                        *)

(* How many steps the search makes from h to s.                            *)
Steps(h, s) == IF s >= h THEN s - h ELSE s + Capacity - h

LEMMA ModOnce ==
  ASSUME NEW x \in 0..(2 * Capacity - 1)
  PROVE  x % Capacity = IF x < Capacity THEN x ELSE x - Capacity
BY TableAssumption

LEMMA BetweenIs ==
  ASSUME NEW h \in Slots, NEW s \in Slots
  PROVE  Between(h, s) = {t \in Slots : Steps(h, t) <= Steps(h, s)}
<1>1. (s + Capacity - h) % Capacity = Steps(h, s)
  BY ModOnce, TableAssumption DEF Slots, Steps
<1>2. ASSUME NEW k \in 0..Steps(h, s)
      PROVE  (h + k) % Capacity \in Slots /\ Steps(h, (h + k) % Capacity) = k
  BY ModOnce, TableAssumption DEF Slots, Steps
<1>3. ASSUME NEW t \in Slots, Steps(h, t) <= Steps(h, s)
      PROVE  Steps(h, t) \in 0..Steps(h, s) /\ (h + Steps(h, t)) % Capacity = t
  BY <1>3, ModOnce, TableAssumption DEF Slots, Steps
<1>. QED BY <1>1, <1>2, <1>3 DEF Between

LEMMA BetweenSelf ==
  ASSUME NEW h \in Slots
  PROVE  Between(h, h) = {h}
BY BetweenIs, TableAssumption DEF Slots, Steps

LEMMA BetweenNext ==
  ASSUME NEW h \in Slots, NEW s \in Slots
  PROVE  /\ (s + 1) % Capacity \in Slots
         /\ Between(h, (s + 1) % Capacity) \ {(s + 1) % Capacity} \subseteq Between(h, s)
<1>1. (s + 1) % Capacity = IF s + 1 < Capacity THEN s + 1 ELSE 0
  BY ModOnce, TableAssumption DEF Slots
<1>2. (s + 1) % Capacity \in Slots
  BY <1>1, TableAssumption DEF Slots
<1>3. ASSUME NEW t \in Slots, Steps(h, t) <= Steps(h, (s + 1) % Capacity), t # (s + 1) % Capacity
      PROVE  Steps(h, t) <= Steps(h, s)
  BY <1>1, <1>3, TableAssumption DEF Slots, Steps
<1>. QED BY <1>2, <1>3, BetweenIs

(* Of two slots one is met first.                                          *)
LEMMA BetweenOrder ==
  ASSUME NEW h \in Slots, NEW s \in Slots, NEW t \in Slots
  PROVE  s \in Between(h, t) \/ t \in Between(h, s)
BY BetweenIs, TableAssumption DEF Slots, Steps

LEMMA BetweenSlots ==
  ASSUME NEW h \in Slots, NEW s \in Slots
  PROVE  Between(h, s) \subseteq Slots
BY BetweenIs

LEMMA HomeIsSlot ==
  ASSUME TypeOK, NEW i \in Items
  PROVE  Home(i) \in Slots
<1>1. hash[i] \in Nat
  BY TableAssumption DEF TypeOK
<1>. QED BY <1>1, TableAssumption DEF Home, Slots
-------------------------------------------------------------------------------
(* What is stored stays where it is, and what comes was not there before.  *)
Grows ==
  /\ hash' = hash
  /\ \A s \in Slots : data[s] # None => data'[s] = data[s]
  /\ \A s \in Slots : data'[s] # data[s] => data'[s] \notin Stored \cup {None}

LEMMA DataGrows ==
  ASSUME IInv, NEW p \in Threads, Step(p)
  PROVE  Grows
<1>1. CASE Exchange(p)
  <2>1. item[p] \in Items /\ item[p] \notin Stored /\ index[p] \in Slots
    BY <1>1 DEF IInv, Exchange, At, Labelled, Held, Busy, Placed, Finishing, TypeOK
  <2>. QED BY <1>1, <2>1, TableAssumption DEF Exchange, Grows, Slot, IInv, TypeOK, local
<1>2. CASE UNCHANGED <<data, hash>>
  BY <1>2 DEF Grows
<1>3. Exchange(p) \/ UNCHANGED <<data, hash>>
  BY DEF Step, StartDo, ReadAccessors, SwapStart, LookPast, LookHit, LookEmpty, LookAgain, InsertPast, InsertHere, SwapFinish, local
<1>. QED BY <1>1, <1>2, <1>3

(* A thread that does not move, or moves only past a label, keeps what it  *)
(* knows while others insert.                                              *)
StaysPut(q) ==
  /\ call'[q] = call[q] /\ item'[q] = item[q] /\ index'[q] = index[q]
  /\ found'[q] = found[q] /\ before'[q] = before[q] /\ pc'[q] = pc[q]

LEMMA OthersKnow ==
  ASSUME IInv, Grows, NEW q \in Threads, Knows(q), StaysPut(q)
  PROVE  Knows(q)'
<1>. USE DEF Grows, StaysPut
<1>1. Passed(q)' = Passed(q) /\ (Busy(q) => Passed(q) \subseteq Slots)
  BY HomeIsSlot, BetweenSlots DEF Passed, Home, IInv, TypeOK, Held, Busy, Between
<1>2. Busy(q) <=> call[q] # "none"
  BY DEF IInv, Labelled, Busy
<1>3. Stored \subseteq Stored'
  BY DEF Stored
<1>4. index[q] \in Slots /\ found[q] \in Slots \cup {None}
  BY DEF IInv, TypeOK
<1>5. InsertPassed(q)'
  BY <1>1, <1>2 DEF Knows, InsertPassed
<1>6. LookPassed(q)'
  BY <1>1, <1>2 DEF Knows, LookPassed
<1>7. Remembers(q)'
  BY <1>3 DEF Knows, Remembers
<1>8. EmptyBefore(q)'
  BY <1>4 DEF Knows, EmptyBefore, Remembers, IInv, Labelled
<1>9. TrueMiss(q)' /\ HitTaken(q)' /\ NewStray(q)'
  BY <1>4 DEF Knows, TrueMiss, HitTaken, NewStray, Answered
<1>. QED BY <1>5, <1>6, <1>7, <1>8, <1>9 DEF Knows

LEMMA OthersStay ==
  ASSUME IInv, NEW p \in Threads, Step(p), NEW q \in Threads, q # p
  PROVE  StaysPut(q)
BY DEF Step, StartDo, ReadAccessors, SwapStart, LookPast, LookHit, LookEmpty, LookAgain, InsertPast, InsertHere, SwapFinish, Exchange,
       StaysPut, IInv, TypeOK, Goto, NextSlot, AfterCall, local

-------------------------------------------------------------------------------
(* The thread that moves.                                                  *)

LEMMA TurnsKnow ==
  ASSUME IInv, NEW p \in Threads, Knows(p),
         StartDo(p) \/ ReadAccessors(p) \/ SwapFinish(p) \/ InsertHere(p)
  PROVE  Knows(p)'
<1>. USE DEF IInv
<1>1. CASE StartDo(p)
  BY <1>1 DEF StartDo, At, Goto, TypeOK, Stored, Knows, InsertPassed, LookPassed, Remembers, EmptyBefore, TrueMiss,
      NewStray, HitTaken, Answered
<1>2. CASE ReadAccessors(p)
  BY <1>2 DEF ReadAccessors, At, Goto, TypeOK, Stored, Knows, InsertPassed, LookPassed, Remembers, EmptyBefore, TrueMiss,
      NewStray, HitTaken, Answered
<1>3. CASE SwapFinish(p)
  BY <1>3 DEF SwapFinish, AfterCall, At, Goto, TypeOK, Labelled, Stored, Knows, InsertPassed, LookPassed, Remembers, EmptyBefore, TrueMiss,
      NewStray, HitTaken, Answered
<1>4. CASE InsertHere(p)
  BY <1>4 DEF InsertHere, At, Goto, TypeOK, Passed, Home, Stored, local, Knows, InsertPassed, LookPassed, Remembers, EmptyBefore, TrueMiss,
      NewStray, HitTaken, Answered
<1>. QED BY <1>1, <1>2, <1>3, <1>4

LEMMA SwapStartKnows ==
  ASSUME IInv, NEW p \in Threads, Knows(p), SwapStart(p)
  PROVE  Knows(p)'
<1>1. item[p] \in Items /\ Home(item[p]) \in Slots
  BY HomeIsSlot DEF SwapStart, At, IInv, Held, Busy
<1>2. accessors = prev[p] => Passed(p)' = {}
  BY <1>1, BetweenSelf DEF SwapStart, IInv, TypeOK, Passed, Home, Between
<1>. QED BY <1>2 DEF SwapStart, At, Goto, IInv, TypeOK, Stored, Knows, InsertPassed, LookPassed, Remembers, EmptyBefore, TrueMiss,
      NewStray, HitTaken, Answered

LEMMA NextSlotPasses ==
  ASSUME TypeOK, NEW p \in Threads, item[p] \in Items, NextSlot(p), UNCHANGED <<item, hash>>
  PROVE  Passed(p)' \subseteq Passed(p) \cup {index[p]}
<1>1. Home(item[p]) \in Slots /\ index[p] \in Slots
  BY HomeIsSlot DEF TypeOK
<1>2. index'[p] = (index[p] + 1) % Capacity /\ Home(item[p])' = Home(item[p])
  BY DEF NextSlot, TypeOK, Home
<1>3. Passed(p)' = Between(Home(item[p]), (index[p] + 1) % Capacity) \ {(index[p] + 1) % Capacity}
  BY <1>2 DEF Passed, Between
<1>. QED BY <1>1, <1>3, BetweenNext DEF Passed

LEMMA PastKnows ==
  ASSUME IInv, NEW p \in Threads, Knows(p), LookPast(p) \/ InsertPast(p)
  PROVE  Knows(p)'
<1>1. item[p] \in Items
  BY DEF LookPast, InsertPast, At, IInv, Held, Busy
<1>2. Passed(p)' \subseteq Passed(p) \cup {index[p]}
  BY <1>1, NextSlotPasses DEF LookPast, InsertPast, IInv
<1>3. CASE LookPast(p)
  BY <1>2, <1>3 DEF LookPast, At, Slot, Stored, Knows, InsertPassed, LookPassed, Remembers, EmptyBefore, TrueMiss,
      NewStray, HitTaken, Answered
<1>4. CASE InsertPast(p)
  BY <1>2, <1>4 DEF InsertPast, At, Slot, Stored, Knows, InsertPassed, LookPassed, Remembers, EmptyBefore, TrueMiss,
      NewStray, HitTaken, Answered
<1>. QED BY <1>3, <1>4

LEMMA LookKnows ==
  ASSUME IInv, NEW p \in Threads, Knows(p), LookHit(p) \/ LookEmpty(p)
  PROVE  Knows(p)'
<1>1. CASE LookHit(p)
  BY <1>1, TableAssumption DEF LookHit, At, Goto, Slot, IInv, TypeOK, Stored, Knows, InsertPassed, LookPassed, Remembers, EmptyBefore, TrueMiss,
      NewStray, HitTaken, Answered
<1>2. CASE LookEmpty(p)
  BY <1>2 DEF LookEmpty, At, Goto, Slot, IInv, TypeOK, Passed, Home, Stored, local, Knows, InsertPassed, LookPassed, Remembers, EmptyBefore, TrueMiss,
      NewStray, HitTaken, Answered
<1>. QED BY <1>1, <1>2

(* An item of that hash that was there from the beginning would lie behind *)
(* the empty slot, where Findable has none, or among those left behind.    *)
LEMMA LookAgainKnows ==
  ASSUME IInv, Findable, NEW p \in Threads, Knows(p), LookAgain(p)
  PROVE  Knows(p)'
<1>1. /\ call[p] = "do" /\ pc[p] = "again" /\ index[p] \in Slots
      /\ item[p] \in Items /\ Home(item[p]) \in Slots
  BY HomeIsSlot DEF LookAgain, At, IInv, TypeOK, Labelled, Held, Busy
<1>2. ASSUME data[index[p]] = None, NEW i \in before[p], hash[i] = hash[item[p]]
      PROVE  FALSE
  <2>1. PICK s \in Slots : data[s] = i /\ i # None
    BY <1>1 DEF Knows, Remembers, Stored
  <2>2. s \notin Passed(p)
    BY <1>1, <1>2, <2>1 DEF Knows, LookPassed
  <2>3. s # index[p]
    BY <1>2, <2>1
  <2>4. index[p] \in Between(Home(item[p]), s)
    BY <1>1, <2>2, <2>3, BetweenOrder DEF Passed
  <2>5. Home(i) = Home(item[p])
    BY <1>2 DEF Home
  <2>. QED BY <1>1, <1>2, <2>1, <2>4, <2>5 DEF Findable
<1>3. TrueMiss(p)'
  BY <1>1, <1>2, TableAssumption DEF LookAgain, Slot, IInv, TypeOK, TrueMiss
<1>4. NewStray(p)' /\ HitTaken(p)'
  BY <1>1 DEF LookAgain, Slot, IInv, TypeOK, Knows, EmptyBefore, NewStray, HitTaken
<1>5. InsertPassed(p)' /\ LookPassed(p)' /\ Remembers(p)' /\ EmptyBefore(p)'
  BY <1>1 DEF LookAgain, At, Goto, IInv, TypeOK, Stored, Knows, InsertPassed, LookPassed,
     Remembers, EmptyBefore
<1>. QED BY <1>3, <1>4, <1>5 DEF Knows

LEMMA ExchangeKnows ==
  ASSUME IInv, NEW p \in Threads, Knows(p), Exchange(p)
  PROVE  Knows(p)'
<1>1. call[p] = "insert"
  BY DEF Exchange, At, IInv, Labelled
<1>. QED
  BY <1>1 DEF Exchange, At, Goto, Slot, IInv, TypeOK, Passed, Home, local, Knows, InsertPassed, LookPassed, Remembers, EmptyBefore, TrueMiss,
      NewStray, HitTaken, Answered

(* An insertion leaves no gap before its slot.                             *)
LEMMA FindableStays ==
  ASSUME IInv, SearchInv, NEW p \in Threads, Step(p)
  PROVE  Findable'
<1>1. Grows
  BY DataGrows
<1>2. \A h, s : Between(h, s)' = Between(h, s)
  BY DEF Between
<1>3. ASSUME NEW s \in Slots, data'[s] # None
      PROVE  \A t \in Between(Home(data'[s]), s) : data'[t] # None
  <2>1. CASE data'[s] = data[s]
    <3>1. Between(Home(data[s]), s) \subseteq Slots
      BY <1>3, <2>1, HomeIsSlot, BetweenSlots DEF IInv, TypeOK
    <3>. QED BY <1>1, <1>3, <2>1, <3>1 DEF SearchInv, Findable, Grows
  <2>2. CASE data'[s] # data[s]
    <3>1. /\ Exchange(p) /\ s = index[p] /\ data'[s] = item[p]
          /\ item[p] \in Items /\ call[p] = "insert" /\ pc[p] = "exchange"
      BY <2>2 DEF Step, StartDo, ReadAccessors, SwapStart, LookPast, LookHit, LookEmpty, LookAgain,
         InsertPast, InsertHere, SwapFinish, Exchange, At, Slot, local, IInv, TypeOK, Labelled,
         Held, Busy
    <3>2. \A t \in Passed(p) : data[t] # None
      BY <3>1 DEF SearchInv, Knows, InsertPassed
    <3>3. Between(Home(item[p]), s) \subseteq Slots
      BY <3>1, HomeIsSlot, BetweenSlots DEF IInv
    <3>. QED BY <1>1, <1>3, <3>1, <3>2, <3>3 DEF Passed, Grows
  <2>. QED BY <2>1, <2>2
<1>4. hash' = hash
  BY <1>1 DEF Grows
<1>. QED BY <1>3, <1>4 DEF Findable, Home, Between
-------------------------------------------------------------------------------
(* The search invariant is one: every reachable state has each item where  *)
(* storage_location_of finds it, and each call knows what it has passed.   *)
THEOREM SearchInvariance == Spec => []SearchInv
<1>1. Init => SearchInv
  BY DEF Init, SearchInv, Findable, Knows, InsertPassed, LookPassed, Remembers, EmptyBefore, TrueMiss,
      NewStray, HitTaken, Answered
<1>2. ASSUME IInv, SearchInv, [Next]_vars PROVE SearchInv'
  <2>1. ASSUME NEW p \in Threads, Step(p) PROVE SearchInv'
    <3>1. Findable'
      BY <1>2, <2>1, FindableStays
    <3>2. Knows(p)'
      BY <1>2, <2>1, TurnsKnow, SwapStartKnows, PastKnows, LookKnows, LookAgainKnows,
         ExchangeKnows DEF Step, SearchInv
    <3>3. ASSUME NEW q \in Threads, q # p PROVE Knows(q)'
      BY <1>2, <2>1, <3>3, DataGrows, OthersStay, OthersKnow DEF SearchInv
    <3>. QED BY <3>1, <3>2, <3>3 DEF SearchInv
  <2>2. CASE UNCHANGED vars
    BY <1>2, <2>2 DEF SearchInv, Findable, Between, Home, Passed, Stored, vars, local, Knows, InsertPassed, LookPassed, Remembers, EmptyBefore, TrueMiss,
      NewStray, HitTaken, Answered
  <2>. QED BY <1>2, <2>1, <2>2 DEF Next, Done
<1>. QED BY <1>1, <1>2, Invariance, PTL DEF Spec

(* Whatever passes whatever on the way to its slot, a search from an       *)
(* item's hash meets the item before an empty slot (storage_insert).       *)
THEOREM AllFindable == Spec => []Findable
BY SearchInvariance, PTL DEF SearchInv

(* A look-up that answers NULL, though the table was filled while it       *)
(* looked, is right about what was there when it began                     *)
(* (storage_location_of).                                                  *)
THEOREM TrueMisses == Spec => []MissesAreTrue
<1>1. SearchInv => MissesAreTrue
  BY DEF SearchInv, Knows, TrueMiss, MissesAreTrue
<1>. QED BY <1>1, SearchInvariance, PTL

(* Nothing that was stored when a look-up began is answered for an item of *)
(* another hash; the second read of line 104 can mistake only what was     *)
(* inserted during the look-up.                                            *)
THEOREM OldHits == Spec => []OldHitsAreRight
<1>1. SearchInv => OldHitsAreRight
  BY DEF SearchInv, Knows, NewStray, OldHitsAreRight
<1>. QED BY <1>1, SearchInvariance, PTL
===============================================================================
