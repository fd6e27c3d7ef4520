------------------------ MODULE ConcurrentSolverSafety ------------------------
(***************************************************************************)
(* The safety invariants of ConcurrentSolver as theorems.  Each rests on   *)
(* IInv and on a strengthening of its own, which speaks of the few         *)
(* variables it needs.                                                     *)
(***************************************************************************)
EXTENDS ConcurrentSolverProofs

USE GraphAssumption, SolverAssumption DEF Null, Dangling, Main

(* What no step changes: the cube, the moves and the author of a state.    *)
HeapKept ==
  /\ Pointers \subseteq Pointers'
  /\ \A s \in Pointers : /\ heap'[s].cube = heap[s].cube
                         /\ heap'[s].by = heap[s].by

LEMMA ProcsAre == /\ Main \in Procs /\ Threads \subseteq Procs /\ Main \notin Threads
                  /\ Procs = Threads \cup {Main}
  BY DEF Procs, Threads

LEMMA FirstIsState ==
  ASSUME NEW c \in Cubes
  PROVE  [cube |-> c, moves |-> <<>>, depth |-> 0, by |-> Main] \in CubeState
  <1>1. <<>> \in Seq(Moves) /\ Main \in Procs
    BY EmptySeq, ProcsAre
  <1> QED
    BY <1>1 DEF CubeState

(* The steps, grouped by what they do to the heap.                         *)
LEMMA HeapSteps ==
  ASSUME IInv, [Next]_vars
  PROVE  \/ heap' = heap
         \/ \E p \in Procs : CasDepth(p)
         \/ \E p \in Procs : Insert(p)
         \/ Start
  <1>1. ASSUME NEW p \in Procs, CheckState(p), ~CasDepth(p), ~Insert(p)
        PROVE heap' = heap
    BY <1>1 DEF CheckState, CompareSolved, CompareOther, NextDepth, CopyMoves,
       CopyFault, LookupMiss, LookupHit, FollowSlot, SlotFault, VisitDone, VisitDeeper,
       Push, Die, shared
  <1>2. ASSUME NEW p \in Threads, ThreadSolve(p), ~CheckState(p) PROVE heap' = heap
    BY <1>2 DEF ThreadSolve, QueueIsEmpty, ReadIsSolved, Pop, PopNull, Die, shared
  <1>3. ASSUME StartFault \/ Spawn \/ Join \/ Report \/ UNCHANGED vars PROVE heap' = heap
    BY <1>3 DEF StartFault, Spawn, Join, Report, Die, vars, shared
  <1> QED
    BY <1>1, <1>2, <1>3, ProcsAre DEF Next, Solve, Stopped

LEMMA NextKeepsHeap ==
  ASSUME IInv, [Next]_vars
  PROVE  HeapKept
  <1>1. CASE heap' = heap
    BY <1>1 DEF HeapKept, Pointers
  <1>2. ASSUME NEW p \in Procs, CasDepth(p) PROVE HeapKept
    BY <1>2, CasLowers DEF HeapKept
  <1>3. ASSUME NEW p \in Procs, Insert(p) PROVE HeapKept
    <2>1. TypeOK /\ new[p] \in CubeState /\ StorageInsert(new[p])
      BY <1>3 DEF IInv, TypeOK, Insert
    <2> QED
      BY <2>1, Stores DEF HeapKept
  <1>4. CASE Start
    <2>1. PICK c \in Cubes :
            StorageInsert([cube |-> c, moves |-> <<>>, depth |-> 0, by |-> Main])
      BY <1>4 DEF Start
    <2> QED
      BY <2>1, FirstIsState, Stores DEF HeapKept, IInv
  <1> QED
    BY <1>1, <1>2, <1>3, <1>4, HeapSteps
------------------------------------------------------------------------------
(* FinalIsSolved: what the workers return, what main keeps of it and the   *)
(* flag they share.                                                        *)
Results ==
  /\ \A p \in Threads : ret[p] # Null => heap[ret[p]].cube = Solved
  /\ finalState # Null => heap[finalState].cube = Solved
  /\ isSolved => finalState # Null
                 \/ \E p \in Threads : p > joined /\ ret[p] # Null
  /\ pc[Main] = "report" => joined = NumThreads \/ finalState # Null
  /\ crash # "report"

(* The steps, grouped by what they do to the variables of Results.         *)
LEMMA ResultSteps ==
  ASSUME IInv, [Next]_vars
  PROVE  \/ /\ UNCHANGED <<ret, finalState, isSolved, joined>>
            /\ crash' = "report" => crash = "report"
            /\ pc'[Main] = "report" => pc[Main] = "report"
         \/ \E p \in Procs : CompareSolved(p)
         \/ Join \/ Report
  <1> DEFINE Rest == /\ UNCHANGED <<ret, finalState, isSolved, joined>>
                     /\ crash' = "report" => crash = "report"
                     /\ pc'[Main] = "report" => pc[Main] = "report"
  <1> USE DEF Goto, At, Die, shared, mainVars, local
  <1>pc. pc \in [Procs -> Labels]
    BY DEF IInv, TypeOK
  <1>1. ASSUME NEW p \in Procs, CheckState(p), ~CompareSolved(p) PROVE Rest
    <2>1. CASE CompareOther(p) \/ NextDepth(p) \/ CopyMoves(p) \/ CopyFault(p)
               \/ LookupMiss(p) \/ LookupHit(p)
      BY <1>pc, <2>1, ProcsAre DEF CompareOther, NextDepth, CopyMoves, CopyFault,
         LookupMiss, LookupHit
    <2>2. CASE FollowSlot(p) \/ SlotFault(p) \/ VisitDeeper(p) \/ CasDepth(p) \/ Insert(p)
      BY <1>pc, <2>2, ProcsAre DEF FollowSlot, SlotFault, VisitDeeper, CasDepth, Insert
    <2>3. CASE VisitDone(p) \/ Push(p)
      BY <1>pc, <2>3, ProcsAre DEF VisitDone, Push, Advance
    <2> QED
      BY <1>1, <2>1, <2>2, <2>3 DEF CheckState
  <1>2. ASSUME NEW p \in Threads, ThreadSolve(p), ~CheckState(p) PROVE Rest
    BY <1>pc, <1>2, ProcsAre DEF ThreadSolve, QueueIsEmpty, ReadIsSolved, Pop, PopNull
  <1>3. ASSUME Start \/ StartFault \/ Spawn \/ UNCHANGED vars PROVE Rest
    BY <1>pc, <1>3, ProcsAre DEF Start, StartFault, Spawn, vars
  <1> QED
    BY <1>1, <1>2, <1>3, ProcsAre DEF Next, Solve, Stopped

LEMMA NextResults == IInv /\ Results /\ [Next]_vars => Results'
  <1> SUFFICES ASSUME IInv, Results, [Next]_vars PROVE Results'
    OBVIOUS
  <1> USE DEF Results
  <1>1. HeapKept
    BY NextKeepsHeap
  <1>2. /\ pc \in [Procs -> Labels] /\ joined \in 0..NumThreads
        /\ ret \in [Procs -> Pointers \cup {Null}] /\ finalState \in Pointers \cup {Null}
        /\ cur \in [Procs -> Pointers \cup {Null}]
    BY DEF IInv, TypeOK
  <1>3. CASE /\ UNCHANGED <<ret, finalState, isSolved, joined>>
             /\ crash' = "report" => crash = "report"
             /\ pc'[Main] = "report" => pc[Main] = "report"
    BY <1>1, <1>2, <1>3, ProcsAre DEF HeapKept
  <1>4. ASSUME NEW p \in Procs, CompareSolved(p) PROVE Results'
    <2> USE DEF CompareSolved, At, Goto
    <2>1. cur[p] \in Pointers /\ heap'[cur[p]].cube = Solved
      BY <1>1, <1>2, <1>4 DEF HeapKept, IInv, Locals, Checking
    <2>2. 0 \notin Pointers
      BY LenProperties DEF IInv, TypeOK, Pointers
    <2>3. CASE p = Main
      BY <1>1, <1>2, <1>4, <2>1, <2>2, <2>3, ProcsAre DEF HeapKept
    <2>4. CASE p # Main
      <3>1. p \in Threads /\ pc[Main] = "join"
        BY <1>4, <2>4, ProcsAre DEF IInv, Phases, Checking
      <3>2. p > joined
        <4>1. p \in Nat /\ p >= 1
          BY <3>1 DEF Threads
        <4>2. ~(p <= joined)
          BY <1>2, <1>4, <3>1, <4>1 DEF IInv, Phases
        <4> QED
          BY <1>2, <4>1, <4>2
      <3> QED
        BY <1>1, <1>2, <1>4, <2>1, <2>2, <2>4, <3>1, <3>2, ProcsAre DEF HeapKept
    <2> QED
      BY <2>3, <2>4
  <1>5. CASE Join
    <2> USE DEF Join, At, Goto, shared, local, KeepFirst
    <2>1. joined + 1 \in Threads /\ joined' = joined + 1
      BY <1>2, <1>5 DEF IInv, Phases, Threads
    <2>2. \A p \in Threads : p > joined /\ p # joined + 1 => p > joined + 1
      BY <1>2 DEF Threads
    <2>3. pc'[Main] = "report" => joined' = NumThreads
      BY <1>2, <1>5, ProcsAre
    <2> QED
      BY <1>1, <1>2, <1>5, <2>1, <2>2, <2>3, ProcsAre DEF HeapKept
  <1>6. CASE Report
    <2>1. ~(isSolved /\ finalState = Null)
      BY <1>2, <1>6 DEF Report, At, Threads
    <2> QED
      BY <1>1, <1>2, <1>6, <2>1, ProcsAre DEF Report, At, Goto, local, HeapKept
  <1> QED
    BY <1>3, <1>4, <1>5, <1>6, ResultSteps

(* When a solution is announced, main has a state and it is the solved     *)
(* cube, whatever the order in which workers return and are joined; solve  *)
(* never prints the turns of a NULL finalState.                            *)
THEOREM FinalSolved == Spec => []FinalIsSolved
  <1>1. Init => Results
    BY ProcsAre DEF Init, Results
  <1>2. IInv /\ Results => FinalIsSolved
    BY DEF IInv, TypeOK, Results, FinalIsSolved, Threads
  <1> QED
    BY <1>1, <1>2, NextResults, Invariance, PTL DEF Spec
------------------------------------------------------------------------------
(* StorageIsSorted.                                                        *)

InOrder ==
  /\ \A i, j \in DOMAIN list : i < j => CubeAt(i) <= CubeAt(j)
  /\ \A i, j \in DOMAIN list : list[i] = list[j] => i = j
  /\ {list[i] : i \in DOMAIN list} = Pointers

(* Once solve has ended nothing moves.                                     *)
LEMMA EndStays ==
  ASSUME IInv, [Next]_vars, pc[Main] = "end"
  PROVE  UNCHANGED vars
  <1>1. \A p \in Procs : pc[p] \in {"idle", "end"}
    BY ProcsAre DEF IInv, Phases
  <1>2. ASSUME NEW p \in Procs, CheckState(p) PROVE FALSE
    BY <1>1, <1>2 DEF CheckState, CompareSolved, CompareOther, NextDepth, CopyMoves,
       CopyFault, LookupMiss, LookupHit, FollowSlot, SlotFault, VisitDone, VisitDeeper,
       CasDepth, Insert, Push, At
  <1>3. ASSUME NEW p \in Threads, ThreadSolve(p) PROVE FALSE
    BY <1>1, <1>2, <1>3, ProcsAre DEF ThreadSolve, QueueIsEmpty, ReadIsSolved, Pop,
       PopNull, At
  <1>4. ASSUME Start \/ StartFault \/ Spawn \/ Join \/ Report PROVE FALSE
    BY <1>4 DEF Start, StartFault, Spawn, Join, Report, At
  <1> QED
    BY <1>2, <1>3, <1>4, ProcsAre DEF Next, Solve, Stopped

LEMMA InsertSorts ==
  ASSUME TypeOK, InOrder, NEW s \in CubeState, StorageInsert(s)
  PROVE  InOrder'
  <1> DEFINE n == Len(heap) + 1
             L == Len(list)
  <1>1. /\ L \in Nat /\ DOMAIN list = 1..L
        /\ Len(heap) \in Nat /\ Pointers = 1..Len(heap)
        /\ \A t \in Pointers : heap[t] \in CubeState
        /\ \A j \in 1..L : list[j] \in Pointers
    BY ElementOfSeq, LenProperties DEF TypeOK, Pointers
  <1>2. /\ Pointers' = Pointers \cup {n}
        /\ \A t \in Pointers : heap'[t] = heap[t]
        /\ heap'[n] = s
    BY Stores
  <1>3. PICK k \in 0..L :
          /\ StopsAt(s.cube, k)
          /\ list' = [j \in 1..(L + 1) |->
                        IF j <= k THEN list[j] ELSE IF j = k + 1 THEN n ELSE list[j - 1]]
    BY DEF StorageInsert
  <1>4. DOMAIN list' = 1..(L + 1)
    BY <1>3
  <1>5. \A j \in 1..(L + 1) : /\ j <= k => list'[j] = list[j] /\ j \in 1..L
                              /\ j = k + 1 => list'[j] = n
                              /\ j > k + 1 => list'[j] = list[j - 1] /\ j - 1 \in 1..L
    BY <1>1, <1>3
  <1>6. \A j \in 1..(L + 1) : j <= k \/ j = k + 1 \/ j > k + 1
    BY <1>1
  <1>7. s.cube \in Int /\ \A j \in 1..L : CubeAt(j) \in Int
    BY <1>1 DEF CubeState, CubeAt
  <1>8. /\ \A j \in 1..L : j > k => s.cube < CubeAt(j)
        /\ \A j \in 1..L : j <= k => CubeAt(j) <= s.cube
    <2>1. \A j \in 1..L : j > k => s.cube < CubeAt(j)
      BY <1>1, <1>3 DEF StopsAt
    <2>2. ASSUME NEW j \in 1..L, j <= k PROVE CubeAt(j) <= s.cube
      <3>1. k \in 1..L /\ s.cube >= CubeAt(k)
        BY <1>1, <1>3, <2>2 DEF StopsAt
      <3>2. CubeAt(j) <= CubeAt(k)
        <4>1. CASE j = k
          BY <1>7, <3>1, <4>1
        <4>2. CASE j < k
          BY <1>1, <3>1, <4>2 DEF InOrder
        <4> QED
          BY <1>1, <2>2, <4>1, <4>2
      <3> QED
        BY <1>7, <3>1, <3>2
    <2> QED
      BY <2>1, <2>2
  <1>9. \A j \in 1..(L + 1) : /\ j <= k => CubeAt(j)' = CubeAt(j)
                              /\ j = k + 1 => CubeAt(j)' = s.cube
                              /\ j > k + 1 => CubeAt(j)' = CubeAt(j - 1)
    BY <1>1, <1>2, <1>5 DEF CubeAt
  <1>10. \A i, j \in DOMAIN list' : i < j => CubeAt(i)' <= CubeAt(j)'
    <2> SUFFICES ASSUME NEW i \in 1..(L + 1), NEW j \in 1..(L + 1), i < j
                 PROVE  CubeAt(i)' <= CubeAt(j)'
      BY <1>4
    <2>1. CASE j <= k
      <3>1. i <= k /\ i \in 1..L /\ j \in 1..L
        BY <1>1, <2>1
      <3> QED
        BY <1>1, <1>9, <2>1, <3>1 DEF InOrder
    <2>2. CASE j = k + 1
      <3>1. i <= k /\ i \in 1..L
        BY <1>1, <2>2
      <3> QED
        BY <1>8, <1>9, <2>2, <3>1
    <2>3. CASE j > k + 1
      <3>1. j - 1 \in 1..L /\ j - 1 > k /\ CubeAt(j)' = CubeAt(j - 1)
        BY <1>1, <1>9, <2>3
      <3>2. CASE i <= k
        <4>1. i \in 1..L /\ CubeAt(i)' = CubeAt(i) /\ CubeAt(i) <= s.cube
          BY <1>1, <1>8, <1>9, <3>2
        <4>2. s.cube < CubeAt(j - 1)
          BY <1>8, <3>1
        <4> QED
          BY <1>7, <3>1, <4>1, <4>2
      <3>3. CASE i = k + 1
        <4>1. s.cube < CubeAt(j - 1) /\ CubeAt(i)' = s.cube
          BY <1>8, <1>9, <3>1, <3>3
        <4> QED
          BY <1>7, <3>1, <4>1
      <3>4. CASE i > k + 1
        <4>1. i - 1 \in 1..L /\ i - 1 < j - 1 /\ CubeAt(i)' = CubeAt(i - 1)
          BY <1>1, <1>9, <3>4
        <4>2. CubeAt(i - 1) <= CubeAt(j - 1)
          BY <1>1, <3>1, <4>1 DEF InOrder
        <4> QED
          BY ONLY <3>1, <4>1, <4>2
      <3> QED
        BY <1>6, <3>2, <3>3, <3>4
    <2> QED
      BY <1>6, <2>1, <2>2, <2>3
  <1>11. \A i, j \in DOMAIN list' : list'[i] = list'[j] => i = j
    <2> SUFFICES ASSUME NEW i \in 1..(L + 1), NEW j \in 1..(L + 1), list'[i] = list'[j]
                 PROVE  i = j
      BY <1>4
    <2>1. n \notin Pointers
      BY <1>1
    <2>2. i = k + 1 <=> j = k + 1
      BY <1>1, <1>5, <1>6, <2>1
    <2>3. CASE i # k + 1 /\ j # k + 1
      <3> DEFINE old(x) == IF x <= k THEN x ELSE x - 1
      <3>1. /\ old(i) \in 1..L /\ list'[i] = list[old(i)]
            /\ old(j) \in 1..L /\ list'[j] = list[old(j)]
        BY <1>5, <1>6, <2>3
      <3>2. old(i) = old(j)
        BY <1>1, <3>1 DEF InOrder
      <3> QED
        BY <1>1, <2>3, <3>2
    <2> QED
      BY <2>2, <2>3
  <1>12. {list'[i] : i \in DOMAIN list'} = Pointers'
    <2>1. ASSUME NEW i \in 1..(L + 1) PROVE list'[i] \in Pointers'
      BY <1>1, <1>2, <1>5, <1>6
    <2>2. n \in {list'[i] : i \in 1..(L + 1)}
      <3>1. k + 1 \in 1..(L + 1) /\ list'[k + 1] = n
        BY <1>1, <1>5
      <3> QED
        BY <3>1
    <2>3. ASSUME NEW t \in Pointers PROVE t \in {list'[i] : i \in 1..(L + 1)}
      <3>1. PICK j \in 1..L : list[j] = t
        BY <1>1 DEF InOrder
      <3>2. CASE j <= k
        <4>1. j \in 1..(L + 1) /\ list'[j] = t
          BY <1>1, <1>5, <3>1, <3>2
        <4> QED
          BY <4>1
      <3>3. CASE j > k
        <4>1. j + 1 \in 1..(L + 1) /\ j + 1 > k + 1 /\ (j + 1) - 1 = j
          BY <1>1, <3>3
        <4>2. list'[j + 1] = t
          BY <1>5, <3>1, <4>1
        <4> QED
          BY <4>1, <4>2
      <3> QED
        BY <1>1, <3>2, <3>3
    <2> QED
      BY <1>2, <1>4, <2>1, <2>2, <2>3
  <1> QED
    BY <1>10, <1>11, <1>12 DEF InOrder

LEMMA NextSorted == IInv /\ StorageIsSorted /\ [Next]_vars => StorageIsSorted'
  <1> SUFFICES ASSUME IInv, StorageIsSorted, [Next]_vars, pc'[Main] # "end"
               PROVE  InOrder'
    BY DEF StorageIsSorted, InOrder
  <1>1. pc[Main] # "end"
    BY EndStays DEF vars
  <1>2. InOrder
    BY <1>1 DEF StorageIsSorted, InOrder
  <1>3. ASSUME NEW p \in Procs, CasDepth(p) PROVE InOrder'
    <2>1. Pointers' = Pointers /\ \A s \in Pointers : heap'[s].cube = heap[s].cube
      BY <1>3, CasLowers
    <2>2. list' = list /\ \A j \in DOMAIN list : list[j] \in Pointers
      BY <1>3, ElementOfSeq, LenProperties DEF CasDepth, IInv, TypeOK
    <2>3. \A j \in DOMAIN list : CubeAt(j)' = CubeAt(j)
      BY <2>1, <2>2 DEF CubeAt
    <2> QED
      BY <1>2, <2>1, <2>2, <2>3 DEF InOrder
  <1>4. ASSUME NEW p \in Procs, Insert(p) PROVE InOrder'
    <2>1. TypeOK /\ new[p] \in CubeState /\ StorageInsert(new[p])
      BY <1>4 DEF IInv, TypeOK, Insert
    <2> QED
      BY <1>2, <2>1, InsertSorts
  <1>5. CASE Start
    <2>1. PICK c \in Cubes :
            StorageInsert([cube |-> c, moves |-> <<>>, depth |-> 0, by |-> Main])
      BY <1>5 DEF Start
    <2> QED
      BY <1>2, <2>1, FirstIsState, InsertSorts DEF IInv
  <1>6. CASE heap' = heap /\ list' = list
    BY <1>2, <1>6 DEF InOrder, CubeAt, Pointers
  <1>7. ASSUME heap' = heap, list' # list PROVE FALSE
    <2>1. ASSUME NEW p \in Procs, CheckState(p) PROVE list' = list \/ heap' # heap
      <3>1. CASE Insert(p)
        <4>1. TypeOK /\ new[p] \in CubeState /\ StorageInsert(new[p])
          BY <3>1 DEF IInv, TypeOK, Insert
        <4>2. Len(heap) + 1 \in Pointers' /\ Len(heap) + 1 \notin Pointers
          BY <4>1, Stores, LenProperties DEF TypeOK, Pointers
        <4> QED
          BY <4>2 DEF Pointers
      <3> QED
        BY <2>1, <3>1 DEF CheckState, CompareSolved, CompareOther, NextDepth, CopyMoves,
           CopyFault, LookupMiss, LookupHit, FollowSlot, SlotFault, VisitDone,
           VisitDeeper, CasDepth, Push, Die, shared
    <2>2. ASSUME NEW p \in Threads, ThreadSolve(p), ~CheckState(p) PROVE list' = list
      BY <2>2 DEF ThreadSolve, QueueIsEmpty, ReadIsSolved, Pop, PopNull, Die, shared
    <2>3. CASE Start
      <3>1. PICK c \in Cubes :
              StorageInsert([cube |-> c, moves |-> <<>>, depth |-> 0, by |-> Main])
        BY <2>3 DEF Start
      <3>2. Len(heap) + 1 \in Pointers' /\ Len(heap) + 1 \notin Pointers
        BY <3>1, FirstIsState, Stores, LenProperties DEF IInv, TypeOK, Pointers
      <3> QED
        BY <1>7, <3>2 DEF Pointers
    <2>4. ASSUME StartFault \/ Spawn \/ Join \/ Report \/ UNCHANGED vars PROVE list' = list
      <3>1. CASE Report
        <4>1. pc' = [pc EXCEPT ![Main] = "end"] => pc'[Main] = "end"
          BY ProcsAre DEF IInv, TypeOK
        <4> QED
          BY <3>1, <4>1 DEF Report, Goto, Die, shared
      <3> QED
        BY <2>4, <3>1 DEF StartFault, Spawn, Join, Die, vars, shared
    <2> QED
      BY <1>7, <2>1, <2>2, <2>3, <2>4, ProcsAre DEF Next, Solve, Stopped
  <1> QED
    BY <1>3, <1>4, <1>5, <1>6, <1>7, HeapSteps

(* Whatever the order in which threads insert, the array of the storage is *)
(* sorted, and holds every stored state exactly once until it is torn      *)
(* down: a binary search finds what is there and nothing is freed twice.   *)
THEOREM Sorted == Spec => []StorageIsSorted
  <1>1. Init => StorageIsSorted
    <2> SUFFICES ASSUME Init PROVE InOrder
      BY DEF StorageIsSorted, InOrder
    <2>1. DOMAIN list = {} /\ Pointers = {}
      BY EmptySeq, LenProperties DEF Init, Pointers
    <2> QED
      BY <2>1 DEF InOrder
  <1> QED
    BY <1>1, NextSorted, Invariance, PTL DEF Spec
==============================================================================
