---------------------- MODULE ConcurrentSolverRefinement ----------------------
(***************************************************************************)
(* The threads implement GraphSearch: what is stored grows by turns of     *)
(* stored cubes, and solve gives up only when no turn of any of them leads *)
(* out of the storage.  On the way: a CubeState is handed to one thread    *)
(* only, no thread stores a cube twice, and workers do not all leave while *)
(* there is work.                                                          *)
(***************************************************************************)
EXTENDS ConcurrentSolverSafety

USE GraphAssumption, SolverAssumption DEF Null, Dangling, Main

(* What a few variables hold, without their other components.              *)
LEMMA Types ==
  ASSUME IInv
  PROVE  /\ pc \in [Procs -> Labels] /\ cur \in [Procs -> Pointers \cup {0}]
         /\ move \in [Procs -> Moves] /\ new \in [Procs -> CubeState]
         /\ result \in [Procs -> Pointers \cup {0}]
         /\ slot \in [Procs -> Nat \cup {-1}] /\ target \in [Procs -> Pointers \cup {0}]
         /\ queue \in Seq(Pointers) /\ Len(queue) \in Nat /\ DOMAIN queue = 1..Len(queue)
         /\ \A i \in DOMAIN queue : queue[i] \in Pointers
         /\ Len(heap) \in Nat /\ Pointers = 1..Len(heap)
         /\ \A s \in Pointers : heap[s] \in CubeState /\ heap[s].cube \in Cubes
         /\ 0 \notin Pointers /\ Len(heap) + 1 \notin Pointers
         /\ isSolved \in BOOLEAN
<1>1. /\ heap \in Seq(CubeState) /\ queue \in Seq(Pointers)
  BY DEF IInv, TypeOK
<1>2. /\ Len(heap) \in Nat /\ Pointers = 1..Len(heap)
      /\ Len(queue) \in Nat /\ DOMAIN queue = 1..Len(queue)
  BY <1>1, LenProperties DEF Pointers
<1>3. \A s \in Pointers : heap[s] \in CubeState
  BY <1>1, <1>2, ElementOfSeq
<1>4. \A i \in DOMAIN queue : queue[i] \in Pointers
  BY <1>1, <1>2, ElementOfSeq
<1>5. \A s \in Pointers : heap[s].cube \in Cubes
  BY <1>3 DEF CubeState
<1>6. 0 \notin Pointers /\ Len(heap) + 1 \notin Pointers
  BY <1>2
<1>7. isSolved \in BOOLEAN
  BY Zenon DEF IInv, TypeOK
<1>. QED BY <1>1, <1>2, <1>3, <1>4, <1>5, <1>6, <1>7 DEF IInv, TypeOK

(* What the two steps that store do to the heap and to nothing else.       *)
LEMMA InsertStores ==
  ASSUME IInv, NEW p \in Procs, Insert(p)
  PROVE  /\ Pointers' = Pointers \cup {Len(heap) + 1}
         /\ \A t \in Pointers : heap'[t] = heap[t]
         /\ heap'[Len(heap) + 1] = new[p]
<1>1. TypeOK /\ new[p] \in CubeState /\ StorageInsert(new[p])
  BY DEF IInv, TypeOK, Insert
<1>. QED BY <1>1, Stores

LEMMA StartStores ==
  ASSUME IInv, Start
  PROVE  /\ heap = <<>> /\ Pointers = {} /\ Len(heap) = 0
         /\ Pointers' = {1} /\ heap'[1].by = Main /\ heap'[1].cube \in Cubes
<1>1. PICK c \in Cubes :
        StorageInsert([cube |-> c, moves |-> <<>>, depth |-> 0, by |-> Main])
  BY DEF Start
<1>2. heap = <<>> /\ Pointers = {} /\ Len(heap) = 0
  BY EmptySeq, LenProperties DEF IInv, Phases, Start, At, Pointers
<1>. QED BY <1>1, <1>2, FirstIsState, Stores DEF IInv

(* Once main is past its end, or the process has died, nothing moves.      *)
LEMMA Awake ==
  ASSUME IInv, NEW p \in Procs, pc[p] \in Checking \cup {"empty", "flag", "pop"}
  PROVE  pc[Main] # "end"
BY ProcsAre DEF IInv, Phases, Checking
(* Advance leaves the turn behind, and after the last one the CubeState.   *)
LEMMA Advances ==
  ASSUME IInv, NEW p \in Procs, Advance(p)
  PROVE  /\ \A q \in Procs : q # p => /\ pc'[q] = pc[q] /\ cur'[q] = cur[q]
                                      /\ move'[q] = move[q] /\ new'[q] = new[q]
                                      /\ result'[q] = result[q]
         /\ \/ /\ pc'[p] = "depth" /\ cur'[p] = cur[p]
               /\ move'[p] = move[p] + 1 /\ move[p] + 1 < NumMoves
            \/ /\ pc'[p] = (IF p = Main THEN "spawn" ELSE "empty") /\ cur'[p] = 0
               /\ move'[p] = 0 /\ ~(move[p] + 1 < NumMoves)
<1>1. /\ pc \in [Procs -> Labels] /\ cur \in [Procs -> Pointers \cup {0}]
      /\ move \in [Procs -> Moves] /\ new \in [Procs -> CubeState]
      /\ result \in [Procs -> Pointers \cup {0}]
  BY Types
<1>2. CASE move[p] + 1 < NumMoves
  BY <1>1, <1>2 DEF Advance, Goto
<1>3. CASE ~(move[p] + 1 < NumMoves)
  BY <1>1, <1>3 DEF Advance, Goto
<1>. QED BY <1>2, <1>3
-------------------------------------------------------------------------------
(* CheckedByOneThread: a CubeState is in the queue, in the hands of one    *)
(* process, or neither; between its insertion and its push it is in the    *)
(* hands of the process that inserted it.                                  *)
Handed ==
  /\ CheckedByOneThread
  /\ \A p \in Procs : pc[p] \notin Checking => cur[p] = Null
  /\ \A p \in Procs : pc[p] = "push" =>
       /\ \A i \in DOMAIN queue : queue[i] # result[p]
       /\ \A q \in Procs : cur[q] # result[p]
       /\ \A q \in Procs : q # p /\ pc[q] = "push" => result[q] # result[p]

(* The steps, grouped by what they do to the variables of Handed.          *)
LEMMA HandSteps ==
  ASSUME IInv, [Next]_vars
  PROVE  \/ /\ UNCHANGED <<queue, cur, result>>
            /\ \A p \in Procs : pc'[p] = "push" <=> pc[p] = "push"
            /\ \A p \in Procs : pc'[p] \notin Checking => pc[p] \notin Checking
         \/ \E p \in Procs : CompareSolved(p) \/ VisitDone(p) \/ Insert(p) \/ Push(p)
         \/ \E p \in Threads : Pop(p)
         \/ Start \/ Report
<1> DEFINE Rest == /\ UNCHANGED <<queue, cur, result>>
                   /\ \A p \in Procs : pc'[p] = "push" <=> pc[p] = "push"
                   /\ \A p \in Procs : pc'[p] \notin Checking => pc[p] \notin Checking
<1> USE DEF Goto, At, Die, shared, mainVars, local, Checking
<1>pc. pc \in [Procs -> Labels]
  BY DEF IInv, TypeOK
<1>1. ASSUME NEW p \in Procs, CheckState(p), ~CompareSolved(p), ~VisitDone(p), ~Insert(p),
             ~Push(p)
      PROVE  Rest
  <2>1. CASE CompareOther(p) \/ NextDepth(p) \/ CopyMoves(p) \/ CopyFault(p)
    BY <1>pc, <2>1 DEF CompareOther, NextDepth, CopyMoves, CopyFault
  <2>2. CASE LookupMiss(p) \/ LookupHit(p) \/ FollowSlot(p) \/ SlotFault(p)
    BY <1>pc, <2>2 DEF LookupMiss, LookupHit, FollowSlot, SlotFault
  <2>3. CASE VisitDeeper(p) \/ CasDepth(p)
    BY <1>pc, <2>3 DEF VisitDeeper, CasDepth
  <2>. QED BY <1>1, <2>1, <2>2, <2>3 DEF CheckState
<1>2. ASSUME NEW p \in Threads, ThreadSolve(p), ~CheckState(p), ~Pop(p) PROVE Rest
  BY <1>pc, <1>2, ProcsAre DEF ThreadSolve, QueueIsEmpty, ReadIsSolved, PopNull
<1>3. ASSUME StartFault \/ Spawn \/ Join \/ UNCHANGED vars PROVE Rest
  BY <1>pc, <1>3, ProcsAre DEF StartFault, Spawn, Join, vars, IInv, Phases
<1>. QED BY <1>1, <1>2, <1>3, ProcsAre DEF Next, Solve, Stopped

(* A process goes on, keeping its CubeState or not.                        *)
LEMMA LetsGo ==
  ASSUME IInv, Handed, NEW p \in Procs, queue' = queue,
         pc'[p] # "push", cur'[p] \in {0, cur[p]}, pc'[p] \in Checking \/ cur'[p] = 0,
         \A q \in Procs : q # p => /\ pc'[q] = pc[q] /\ cur'[q] = cur[q]
                                  /\ result'[q] = result[q]
  PROVE  Handed'
<1>1. 0 \notin Pointers /\ \A i \in DOMAIN queue : queue[i] \in Pointers
  BY Types
<1>2. CheckedByOneThread'
  BY <1>1 DEF Handed, CheckedByOneThread
<1>3. \A q \in Procs : pc'[q] \notin Checking => cur'[q] = Null
  BY DEF Handed
<1>4. ASSUME NEW q \in Procs, pc'[q] = "push"
      PROVE  /\ \A i \in DOMAIN queue' : queue'[i] # result'[q]
             /\ \A r \in Procs : cur'[r] # result'[q]
             /\ \A r \in Procs : r # q /\ pc'[r] = "push" => result'[r] # result'[q]
  <2>1. q # p /\ pc[q] = "push" /\ result'[q] = result[q] /\ result[q] \in Pointers
    BY <1>4 DEF IInv, Locals
  <2>2. \A r \in Procs : cur[r] # result[q]
    BY <2>1 DEF Handed
  <2>3. \A r \in Procs : cur'[r] # result'[q]
    BY <1>1, <2>1, <2>2
  <2>. QED BY <2>1, <2>3 DEF Handed
<1>. QED BY <1>2, <1>3, <1>4 DEF Handed

LEMMA NextHanded == IInv /\ Handed /\ [Next]_vars => Handed'
<1>. SUFFICES ASSUME IInv, Handed, [Next]_vars PROVE Handed'
  OBVIOUS
<1>t. /\ pc \in [Procs -> Labels] /\ cur \in [Procs -> Pointers \cup {0}]
      /\ result \in [Procs -> Pointers \cup {0}]
      /\ queue \in Seq(Pointers) /\ Len(queue) \in Nat /\ DOMAIN queue = 1..Len(queue)
      /\ \A i \in DOMAIN queue : queue[i] \in Pointers
      /\ 0 \notin Pointers /\ Len(heap) + 1 \notin Pointers
  BY Types
<1>. USE DEF Handed, CheckedByOneThread, At, Goto
<1>1. CASE /\ UNCHANGED <<queue, cur, result>>
           /\ \A p \in Procs : pc'[p] = "push" <=> pc[p] = "push"
           /\ \A p \in Procs : pc'[p] \notin Checking => pc[p] \notin Checking
  BY <1>t, <1>1
<1>2. ASSUME NEW p \in Procs, CompareSolved(p) PROVE Handed'
  <2>1. pc'[p] \in {"report", "end"} /\ cur'[p] = 0 /\ queue' = queue /\ result' = result
    BY <1>t, <1>2 DEF CompareSolved
  <2>2. \A q \in Procs : q # p => pc'[q] = pc[q] /\ cur'[q] = cur[q]
    BY <1>t, <1>2 DEF CompareSolved
  <2>. QED BY <2>1, <2>2, LetsGo
<1>3. ASSUME NEW p \in Procs, VisitDone(p) PROVE Handed'
  <2>1. queue' = queue /\ pc'[p] \in {"depth", "spawn", "empty"} /\ cur'[p] \in {0, cur[p]}
        /\ (pc'[p] \in Checking \/ cur'[p] = 0)
    BY <1>3, Advances DEF VisitDone, shared, Checking
  <2>2. \A q \in Procs : q # p => pc'[q] = pc[q] /\ cur'[q] = cur[q] /\ result'[q] = result[q]
    BY <1>3, Advances DEF VisitDone
  <2>. QED BY <2>1, <2>2, LetsGo
<1>4. ASSUME NEW p \in Procs, Insert(p) PROVE Handed'
  BY <1>t, <1>4 DEF Insert, Checking
<1>5. ASSUME NEW p \in Procs, Push(p) PROVE Handed'
  <2>1. result[p] \in Pointers /\ pc[p] = "push"
    BY <1>5 DEF Push, IInv, Locals
  <2>2. /\ DOMAIN queue' = 1..(Len(queue) + 1)
        /\ \A i \in 1..Len(queue) : queue'[i] = queue[i]
        /\ queue'[Len(queue) + 1] = result[p]
    BY <1>t, <1>5, <2>1, AppendProperties DEF Push
  <2>3. \A i \in DOMAIN queue' : i \in DOMAIN queue \/ i = Len(queue) + 1
    BY <1>t, <2>2
  <2>4. /\ pc'[p] \in {"depth", "spawn", "empty"} /\ cur'[p] \in {0, cur[p]}
        /\ (pc'[p] \in Checking \/ cur'[p] = 0)
        /\ \A q \in Procs : q # p => /\ pc'[q] = pc[q] /\ cur'[q] = cur[q]
                                     /\ result'[q] = result[q]
    BY <1>5, Advances DEF Push, Checking
  <2>5. \A q \in Procs : cur[q] # result[p] /\ cur'[q] # result[p]
    BY <1>t, <2>1, <2>4
  <2>6. \A i \in DOMAIN queue : queue[i] # result[p]
    BY <2>1
  <2>7. \A i, j \in DOMAIN queue' : queue'[i] = queue'[j] => i = j
    BY <1>t, <2>2, <2>3, <2>6
  <2>8. \A q \in Procs, i \in DOMAIN queue' : cur'[q] # queue'[i]
    BY <1>t, <2>2, <2>3, <2>4, <2>5
  <2>9. ASSUME NEW q \in Procs, pc'[q] = "push", NEW i \in DOMAIN queue'
        PROVE  queue'[i] # result'[q]
    BY <1>t, <2>1, <2>2, <2>3, <2>4, <2>9
  <2>10. \A q, r \in Procs : cur'[q] = cur'[r] /\ cur'[q] # Null => q = r
    BY <1>t, <2>4
  <2>11. \A q \in Procs : pc'[q] \notin Checking => cur'[q] = Null
    BY <1>t, <2>4
  <2>12. ASSUME NEW q \in Procs, pc'[q] = "push", NEW r \in Procs
         PROVE  cur'[r] # result'[q] /\ (r # q /\ pc'[r] = "push" => result'[r] # result'[q])
    <3>1. q # p /\ pc[q] = "push" /\ result'[q] = result[q] /\ result[q] \in Pointers
      BY <2>4, <2>12 DEF IInv, Locals
    <3>. QED BY <1>t, <2>4, <3>1
  <2>. QED BY <2>7, <2>8, <2>9, <2>10, <2>11, <2>12
<1>6. ASSUME NEW p \in Threads, Pop(p) PROVE Handed'
  <2>1. p \in Procs
    BY ProcsAre
  <2>2. /\ DOMAIN queue' = 1..(Len(queue) - 1) /\ 1 \in DOMAIN queue
        /\ \A i \in DOMAIN queue' : i + 1 \in DOMAIN queue /\ queue'[i] = queue[i + 1]
        /\ cur' = [cur EXCEPT ![p] = queue[1]]
    BY <1>t, <1>6, HeadTailProperties DEF Pop
  <2>3. \A i \in DOMAIN queue' : i \in Int /\ i + 1 # 1
    BY <1>t, <2>2
  <2>4. /\ cur'[p] = queue[1] /\ pc'[p] = "compare" /\ result' = result
        /\ \A q \in Procs : q # p => pc'[q] = pc[q] /\ cur'[q] = cur[q]
    BY <1>t, <1>6, <2>1, <2>2 DEF Pop
  <2>5. \A i \in DOMAIN queue' : queue'[i] # queue[1]
    BY <2>2, <2>3
  <2>6. \A i, j \in DOMAIN queue' : queue'[i] = queue'[j] => i = j
    <3>. SUFFICES ASSUME NEW i \in DOMAIN queue', NEW j \in DOMAIN queue', queue'[i] = queue'[j]
                  PROVE  i = j
      OBVIOUS
    <3>1. i + 1 = j + 1
      BY <2>2
    <3>. QED BY <2>3, <3>1
  <2>7. \A q \in Procs, i \in DOMAIN queue' : cur'[q] # queue'[i]
    BY <2>2, <2>4, <2>5
  <2>8. \A q, r \in Procs : cur'[q] = cur'[r] /\ cur'[q] # Null => q = r
    BY <1>t, <2>2, <2>4
  <2>9. \A q \in Procs : pc'[q] \notin Checking => cur'[q] = Null
    BY <1>t, <2>4 DEF Checking
  <2>10. ASSUME NEW q \in Procs, pc'[q] = "push"
         PROVE  /\ \A i \in DOMAIN queue' : queue'[i] # result'[q]
                /\ \A r \in Procs : cur'[r] # result'[q]
                /\ \A r \in Procs : r # q /\ pc'[r] = "push" => result'[r] # result'[q]
    BY <1>t, <2>2, <2>4, <2>10
  <2>. QED BY <2>6, <2>7, <2>8, <2>9, <2>10
<1>7. CASE Start
  <2>1. Len(heap) = 0 /\ Pointers = {}
    BY <1>7, StartStores
  <2>2. DOMAIN queue = {} /\ queue' = queue /\ \A p \in Procs : cur[p] = 0
    BY <1>t, <1>7, <2>1 DEF Start
  <2>3. \A p \in Procs : pc[p] # "push" /\ pc'[p] # "push"
    BY <1>t, <1>7, ProcsAre DEF Start, IInv, Phases
  <2>4. cur' = [cur EXCEPT ![Main] = 1]
    BY <1>7, <2>1 DEF Start
  <2>5. CheckedByOneThread'
    BY <1>t, <2>1, <2>2, <2>4, ProcsAre
  <2>. QED BY <1>t, <1>7, <2>1, <2>2, <2>3, <2>4, <2>5 DEF Start, Checking
<1>8. CASE Report
  <2>1. CASE isSolved /\ finalState = Null
    BY <1>8, <2>1 DEF Report, Die, shared, local
  <2>2. CASE ~(isSolved /\ finalState = Null)
    <3>1. queue' = <<>> /\ DOMAIN queue' = {} /\ UNCHANGED <<cur, result>>
      BY <1>8, <2>2, EmptySeq DEF Report, local
    <3>2. pc' = [pc EXCEPT ![Main] = "end"] /\ pc[Main] = "report"
      BY <1>8, <2>2 DEF Report
    <3>. QED BY <1>t, <3>1, <3>2, ProcsAre DEF Checking
  <2>. QED BY <2>1, <2>2
<1>. QED BY <1>1, <1>2, <1>3, <1>4, <1>5, <1>6, <1>7, <1>8, HandSteps

(* Whatever the interleaving of pushes and pops, a CubeState is in the     *)
(* queue once, checked by one process, and never both (thread_solve,       *)
(* check_state).                                                           *)
THEOREM HandedOnce == Spec => []CheckedByOneThread
<1>1. Init => Handed
  <2>. SUFFICES ASSUME Init PROVE Handed
    OBVIOUS
  <2>1. DOMAIN queue = {} /\ \A p \in Procs : cur[p] = 0 /\ pc[p] # "push"
    BY EmptySeq DEF Init
  <2>. QED BY <2>1 DEF Handed, CheckedByOneThread
<1>2. Handed => CheckedByOneThread
  BY DEF Handed
<1>. QED BY <1>1, <1>2, NextHanded, Invariance, PTL DEF Spec
-------------------------------------------------------------------------------
(* WorkIsAttended: a worker that leaves has found the queue empty or the   *)
(* flag set, and whoever fills the queue again has not left yet.           *)

(* The steps that fill the queue, set the flag or let a worker leave.      *)
LEMMA AttendSteps ==
  ASSUME IInv, [Next]_vars
  PROVE  \/ /\ UNCHANGED <<queue, isSolved>>
            /\ \A p \in Threads : pc'[p] = "end" => pc[p] = "end"
            /\ pc'[Main] \in {"join", "report"} => pc[Main] \in {"join", "report"}
         \/ isSolved' \/ queue' = <<>>
         \/ \E p \in Threads : pc'[p] # "end"
         \/ pc'[Main] \notin {"join", "report"}
<1>t. pc \in [Procs -> Labels] /\ NumThreads \in Threads
  BY DEF IInv, TypeOK, Threads
<1> DEFINE Rest ==
      \/ /\ UNCHANGED <<queue, isSolved>>
         /\ \A p \in Threads : pc'[p] = "end" => pc[p] = "end"
         /\ pc'[Main] \in {"join", "report"} => pc[Main] \in {"join", "report"}
      \/ isSolved' \/ queue' = <<>>
      \/ \E p \in Threads : pc'[p] # "end"
      \/ pc'[Main] \notin {"join", "report"}
<1> USE DEF Goto, At, Die, shared, mainVars, local
<1>1. ASSUME NEW p \in Procs, CheckState(p) PROVE Rest
  <2>1. CASE CompareSolved(p)
    BY <2>1 DEF CompareSolved
  <2>2. CASE CompareOther(p) \/ NextDepth(p) \/ CopyMoves(p) \/ CopyFault(p)
    BY <1>t, <2>2, ProcsAre DEF CompareOther, NextDepth, CopyMoves, CopyFault
  <2>3. CASE LookupMiss(p) \/ LookupHit(p) \/ FollowSlot(p) \/ SlotFault(p)
    BY <1>t, <2>3, ProcsAre DEF LookupMiss, LookupHit, FollowSlot, SlotFault
  <2>4. CASE VisitDeeper(p) \/ CasDepth(p) \/ Insert(p)
    BY <1>t, <2>4, ProcsAre DEF VisitDeeper, CasDepth, Insert
  <2>5. CASE VisitDone(p) \/ Push(p)
    <3>1. pc'[p] \in {"depth", "spawn", "empty"}
      BY <2>5, Advances DEF VisitDone, Push
    <3>. QED BY <3>1, ProcsAre
  <2>. QED BY <1>1, <2>1, <2>2, <2>3, <2>4, <2>5 DEF CheckState
<1>2. ASSUME NEW p \in Threads, ThreadSolve(p), ~CheckState(p) PROVE Rest
  <2>1. CASE QueueIsEmpty(p)
    <3>1. CASE queue = <<>>
      BY <2>1, <3>1 DEF QueueIsEmpty
    <3>2. CASE queue # <<>>
      BY <1>t, <2>1, <3>2, ProcsAre DEF QueueIsEmpty
    <3>. QED BY <3>1, <3>2
  <2>2. CASE ReadIsSolved(p)
    <3>1. CASE isSolved
      BY <2>2, <3>1 DEF ReadIsSolved
    <3>2. CASE ~isSolved
      BY <1>t, <2>2, <3>2, ProcsAre DEF ReadIsSolved
    <3>. QED BY <3>1, <3>2
  <2>3. CASE Pop(p)
    BY <1>t, <2>3, ProcsAre DEF Pop
  <2>4. CASE PopNull(p)
    BY <1>t, <2>4 DEF PopNull
  <2>. QED BY <1>2, <2>1, <2>2, <2>3, <2>4 DEF ThreadSolve
<1>3. CASE Start \/ StartFault
  BY <1>t, <1>3, ProcsAre DEF Start, StartFault
<1>4. CASE Spawn
  BY <1>t, <1>4, ProcsAre DEF Spawn
<1>5. CASE Join
  BY <1>t, <1>5, ProcsAre DEF Join
<1>6. CASE Report
  BY <1>t, <1>6, ProcsAre DEF Report
<1>7. CASE UNCHANGED vars
  BY <1>7 DEF vars
<1>. QED BY <1>1, <1>2, <1>3, <1>4, <1>5, <1>6, <1>7, ProcsAre DEF Next, Solve, Stopped

(* The workers never all leave while the queue holds something to check    *)
(* and nothing is solved (thread_solve, the while).                        *)
THEOREM Attended == Spec => []WorkIsAttended
<1>1. Init => WorkIsAttended
  BY DEF Init, WorkIsAttended
<1>2. IInv /\ WorkIsAttended /\ [Next]_vars => WorkIsAttended'
  BY AttendSteps DEF WorkIsAttended
<1>. QED BY <1>1, <1>2, Invariance, PTL DEF Spec
-------------------------------------------------------------------------------
(* OneCopyPerThread: what a process is about to insert it has not inserted *)
(* before, since it has looked it up and only others have inserted since.  *)
Authors ==
  /\ OneCopyPerThread
  /\ \A p \in Procs : pc[p] = "insert" =>
       \A s \in Pointers : heap[s].by = p => heap[s].cube # new[p].cube

(* The steps, grouped by what they do to what waits to be inserted.        *)
LEMMA InsertionSteps ==
  ASSUME IInv, [Next]_vars
  PROVE  \/ \A p \in Procs : pc'[p] = "insert" => pc[p] = "insert" /\ new'[p] = new[p]
         \/ \E p \in Procs : LookupMiss(p)
<1>t. pc \in [Procs -> Labels] /\ new \in [Procs -> CubeState]
  BY Types
<1> DEFINE Rest == \A p \in Procs : pc'[p] = "insert" => pc[p] = "insert" /\ new'[p] = new[p]
<1> USE DEF Goto, At, Die, shared, mainVars, local
<1>1. ASSUME NEW p \in Procs, CheckState(p), ~LookupMiss(p) PROVE Rest
  <2>1. CASE CompareSolved(p) \/ CompareOther(p) \/ NextDepth(p) \/ CopyMoves(p) \/ CopyFault(p)
    BY <1>t, <2>1 DEF CompareSolved, CompareOther, NextDepth, CopyMoves, CopyFault
  <2>2. CASE LookupHit(p) \/ FollowSlot(p) \/ SlotFault(p)
    BY <1>t, <2>2 DEF LookupHit, FollowSlot, SlotFault
  <2>3. CASE VisitDeeper(p) \/ CasDepth(p) \/ Insert(p)
    BY <1>t, <2>3 DEF VisitDeeper, CasDepth, Insert
  <2>4. CASE VisitDone(p) \/ Push(p)
    BY <2>4, Advances DEF VisitDone, Push
  <2>. QED BY <1>1, <2>1, <2>2, <2>3, <2>4 DEF CheckState
<1>2. ASSUME NEW p \in Threads, ThreadSolve(p), ~CheckState(p) PROVE Rest
  BY <1>t, <1>2, ProcsAre DEF ThreadSolve, QueueIsEmpty, ReadIsSolved, Pop, PopNull
<1>3. CASE Start \/ StartFault \/ Spawn \/ Join \/ Report \/ UNCHANGED vars
  BY <1>t, <1>3, ProcsAre DEF Start, StartFault, Spawn, Join, Report, vars
<1>. QED BY <1>1, <1>2, <1>3, ProcsAre DEF Next, Solve, Stopped

(* The list has what the heap has, so a look-up that misses is right.      *)
LEMMA MissIsTrue ==
  ASSUME IInv, StorageIsSorted, NEW p \in Procs, LookupMiss(p)
  PROVE  \A s \in Pointers : heap[s].cube # new[p].cube
<1>1. pc[Main] # "end"
  BY Awake DEF LookupMiss, At, Checking
<1>2. \A s \in Pointers : \E i \in DOMAIN list : list[i] = s
  BY <1>1 DEF StorageIsSorted
<1>. QED BY <1>2 DEF LookupMiss, Matches, CubeAt

LEMMA NextAuthors == IInv /\ StorageIsSorted /\ Authors /\ [Next]_vars => Authors'
<1>. SUFFICES ASSUME IInv, StorageIsSorted, Authors, [Next]_vars PROVE Authors'
  OBVIOUS
<1>1. CASE heap' = heap
  <2>1. Pointers' = Pointers
    BY <1>1 DEF Pointers
  <2>2. CASE \E p \in Procs : LookupMiss(p)
    <3>1. PICK p \in Procs : LookupMiss(p)
      BY <2>2
    <3>2. \A s \in Pointers : heap[s].cube # new[p].cube
      BY <3>1, MissIsTrue
    <3>3. pc \in [Procs -> Labels] /\ new' = new
      BY <3>1, Types DEF LookupMiss, local
    <3>. QED BY <1>1, <2>1, <3>1, <3>2, <3>3 DEF Authors, OneCopyPerThread, LookupMiss, Goto
  <2>. QED BY <1>1, <2>1, <2>2, InsertionSteps DEF Authors, OneCopyPerThread
<1>2. ASSUME NEW p \in Procs, CasDepth(p) PROVE Authors'
  <2>1. Pointers' = Pointers /\ \A s \in Pointers : heap'[s].cube = heap[s].cube
                                                    /\ heap'[s].by = heap[s].by
    BY <1>2, CasLowers
  <2>2. \A q \in Procs : pc'[q] = "insert" => pc[q] = "insert" /\ new'[q] = new[q]
    BY <1>2, Types DEF CasDepth, Goto, local
  <2>. QED BY <2>1, <2>2 DEF Authors, OneCopyPerThread
<1>3. ASSUME NEW p \in Procs, Insert(p) PROVE Authors'
  <2>1. /\ Pointers' = Pointers \cup {Len(heap) + 1} /\ Len(heap) + 1 \notin Pointers
        /\ \A t \in Pointers : heap'[t] = heap[t]
        /\ heap'[Len(heap) + 1] = new[p]
    BY <1>3, InsertStores, Types
  <2>2. new[p].by = p /\ pc[p] = "insert"
    BY <1>3 DEF Insert, At, IInv, Locals, Checking
  <2>3. \A q \in Procs : pc'[q] = "insert" => pc[q] = "insert" /\ new'[q] = new[q] /\ q # p
    BY <1>3, Types DEF Insert, Goto
  <2>4. OneCopyPerThread'
    BY <2>1, <2>2 DEF Authors, OneCopyPerThread
  <2>. QED BY <2>1, <2>2, <2>3, <2>4 DEF Authors
<1>4. CASE Start
  <2>1. Pointers' = {1}
    BY <1>4, StartStores
  <2>2. \A q \in Procs : pc'[q] # "insert"
    BY <1>4, Types, ProcsAre DEF Start, Goto, At, IInv, Phases
  <2>. QED BY <2>1, <2>2 DEF Authors, OneCopyPerThread
<1>. QED BY <1>1, <1>2, <1>3, <1>4, HeapSteps

(* Two processes may both miss a cube and both store it, since look-up and *)
(* insertion are two critical sections, but none stores it twice           *)
(* (check_state, storage_do and storage_insert).                           *)
THEOREM OneCopy == Spec => []OneCopyPerThread
<1>1. Init => Authors
  <2>. SUFFICES ASSUME Init PROVE Authors
    OBVIOUS
  <2>1. Pointers = {} /\ \A p \in Procs : pc[p] # "insert"
    BY EmptySeq, LenProperties DEF Init, Pointers
  <2>. QED BY <2>1 DEF Authors, OneCopyPerThread
<1>2. Authors => OneCopyPerThread
  BY DEF Authors
<1>. QED BY <1>1, <1>2, NextAuthors, Invariance, Sorted, PTL DEF Spec
-------------------------------------------------------------------------------
(* ImplementsSearch.                                                       *)

(* What a process that expands a CubeState has done of it, and how what it *)
(* is about to store comes from what is stored.                            *)
Progress(p) ==
  /\ pc[p] \notin Checking \ {"compare"} => move[p] = 0
  /\ pc[p] \in Checking \ {"compare"} => heap[cur[p]].cube # Solved
  /\ pc[p] \in Checking \ {"compare"} =>
       \A m \in Moves : m < move[p] => Turn[heap[cur[p]].cube][m] \in Stored
  /\ pc[p] \in Checking \ {"compare", "depth"} =>
       new[p].cube = Turn[heap[cur[p]].cube][move[p]]
  /\ pc[p] \in {"visit", "load", "again", "cas", "push"} => new[p].cube \in Stored

(* A stored state is still to be expanded, or all its turns are stored.    *)
Waiting(s) ==
  \/ \E i \in DOMAIN queue : queue[i] = s
  \/ \E p \in Procs : cur[p] = s
  \/ \E p \in Procs : pc[p] = "push" /\ result[p] = s

Expanded(s) ==
  /\ heap[s].cube # Solved
  /\ \A m \in Moves : Turn[heap[s].cube][m] \in Stored

Covered ==
  ~isSolved /\ pc[Main] # "end" => \A s \in Pointers : Waiting(s) \/ Expanded(s)

SearchInv ==
  /\ \A p \in Procs : Progress(p)
  /\ Covered
  /\ pc[Main] # "start" => Pointers # {}
  /\ pc[Main] = "report" /\ ~isSolved => \A p \in Threads : pc[p] = "end"

(* What is stored grows.                                                   *)
StoredGrows ==
  /\ Pointers \subseteq Pointers' /\ Stored \subseteq Stored'
  /\ \A s \in Pointers : heap'[s].cube = heap[s].cube

LEMMA Storing ==
  ASSUME HeapKept
  PROVE  StoredGrows
BY DEF HeapKept, StoredGrows, Stored

LEMMA OthersProgress ==
  ASSUME IInv, StoredGrows, NEW q \in Procs, Progress(q),
         pc'[q] = pc[q], cur'[q] = cur[q], move'[q] = move[q], new'[q] = new[q]
  PROVE  Progress(q)'
<1>1. pc[q] \in Checking => cur[q] \in Pointers
  BY DEF IInv, Locals
<1>2. pc[q] \in Checking => heap'[cur[q]].cube = heap[cur[q]].cube
  BY <1>1 DEF StoredGrows
<1>. QED BY <1>2 DEF Progress, StoredGrows

LEMMA StillExpanded ==
  ASSUME StoredGrows, NEW s \in Pointers, Expanded(s)
  PROVE  Expanded(s)'
BY DEF StoredGrows, Expanded

LEMMA OthersKeep ==
  ASSUME IInv, NEW p \in Procs, CheckState(p) \/ (p \in Threads /\ ThreadSolve(p)),
         NEW q \in Procs, q # p
  PROVE  /\ pc'[q] = pc[q] /\ cur'[q] = cur[q] /\ move'[q] = move[q] /\ new'[q] = new[q]
         /\ result'[q] = result[q]
<1>t. /\ pc \in [Procs -> Labels] /\ cur \in [Procs -> Pointers \cup {0}]
      /\ new \in [Procs -> CubeState] /\ result \in [Procs -> Pointers \cup {0}]
  BY Types
<1> USE DEF Goto, At, Die, shared, mainVars, local
<1>1. CASE CompareSolved(p) \/ CompareOther(p) \/ NextDepth(p) \/ CopyMoves(p) \/ CopyFault(p)
  BY <1>t, <1>1 DEF CompareSolved, CompareOther, NextDepth, CopyMoves, CopyFault
<1>2. CASE LookupMiss(p) \/ LookupHit(p) \/ FollowSlot(p) \/ SlotFault(p)
  BY <1>t, <1>2 DEF LookupMiss, LookupHit, FollowSlot, SlotFault
<1>3. CASE VisitDeeper(p) \/ CasDepth(p) \/ Insert(p)
  BY <1>t, <1>3 DEF VisitDeeper, CasDepth, Insert
<1>4. CASE VisitDone(p) \/ Push(p)
  BY <1>4, Advances DEF VisitDone, Push
<1>5. CASE QueueIsEmpty(p) \/ ReadIsSolved(p) \/ Pop(p) \/ PopNull(p)
  BY <1>t, <1>5 DEF QueueIsEmpty, ReadIsSolved, Pop, PopNull
<1>. QED BY <1>1, <1>2, <1>3, <1>4, <1>5 DEF CheckState, ThreadSolve

(* After a look-up that found the cube, or its insertion, the turn is done.*)
LEMMA TurnDone ==
  ASSUME IInv, NEW p \in Procs, Progress(p), pc[p] \in {"load", "push"}
  PROVE  \A m \in Moves : m < move[p] + 1 => Turn[heap[cur[p]].cube][m] \in Stored
<1>1. move[p] \in Moves /\ Moves \subseteq Int
  BY Types DEF Moves
<1>2. \A m \in Moves : m < move[p] + 1 => m < move[p] \/ m = move[p]
  BY <1>1 DEF Moves
<1>. QED BY <1>2 DEF Progress, Checking

LEMMA OwnProgress ==
  ASSUME IInv, StoredGrows, NEW p \in Procs, Progress(p),
         CheckState(p) \/ (p \in Threads /\ ThreadSolve(p))
  PROVE  Progress(p)'
<1>t. /\ pc \in [Procs -> Labels] /\ cur \in [Procs -> Pointers \cup {0}]
      /\ move \in [Procs -> Moves] /\ new \in [Procs -> CubeState] /\ Moves \subseteq Nat
  BY Types DEF Moves
<1>c. pc[p] \in Checking => cur[p] \in Pointers /\ heap'[cur[p]].cube = heap[cur[p]].cube
  BY DEF IInv, Locals, StoredGrows
<1>s. Stored \subseteq Stored'
  BY DEF StoredGrows
<1> USE DEF Goto, At
<1>1. CASE CompareSolved(p)
  BY <1>t, <1>1 DEF CompareSolved, Progress, Checking
<1>2. CASE CompareOther(p)
  BY <1>t, <1>c, <1>s, <1>2 DEF CompareOther, Progress, Checking, local
<1>3. CASE NextDepth(p)
  BY <1>t, <1>c, <1>s, <1>3 DEF NextDepth, Progress, Checking
<1>4. CASE CopyMoves(p)
  <2>1. new'[p].cube = new[p].cube
    BY <1>t, <1>4 DEF CopyMoves, CubeState
  <2>. QED BY <1>t, <1>c, <1>s, <1>4, <2>1 DEF CopyMoves, Progress, Checking
<1>5. CASE CopyFault(p) \/ SlotFault(p) \/ PopNull(p)
  BY <1>c, <1>s, <1>5 DEF CopyFault, SlotFault, PopNull, Die, Progress, local
<1>6. CASE LookupMiss(p)
  BY <1>t, <1>c, <1>s, <1>6 DEF LookupMiss, Progress, Checking, local
<1>7. CASE LookupHit(p)
  <2>1. new[p].cube \in Stored
    <3>1. PICK i \in DOMAIN list : heap[list[i]].cube = new[p].cube
      BY <1>7 DEF LookupHit, Matches, CubeAt
    <3>2. list[i] \in Pointers
      BY ElementOfSeq, LenProperties DEF IInv, TypeOK
    <3>. QED BY <3>1, <3>2 DEF Stored
  <2>. QED BY <1>t, <1>c, <1>s, <1>7, <2>1 DEF LookupHit, Progress, Checking
<1>8. CASE FollowSlot(p)
  BY <1>t, <1>c, <1>s, <1>8 DEF FollowSlot, Progress, Checking
<1>9. CASE VisitDeeper(p)
  BY <1>t, <1>c, <1>s, <1>9 DEF VisitDeeper, Progress, Checking
<1>10. CASE CasDepth(p)
  BY <1>t, <1>c, <1>s, <1>10 DEF CasDepth, Progress, Checking, local
<1>11. CASE Insert(p)
  <2>1. new[p].cube \in Stored'
    BY <1>11, InsertStores DEF Stored
  <2>. QED BY <1>t, <1>c, <1>s, <1>11, <2>1 DEF Insert, Progress, Checking
<1>12. CASE VisitDone(p) \/ Push(p)
  <2>1. pc[p] \in {"load", "push"} /\ Advance(p)
    BY <1>12 DEF VisitDone, Push
  <2>2. \A m \in Moves : m < move[p] + 1 => Turn[heap[cur[p]].cube][m] \in Stored
    BY <2>1, TurnDone
  <2>. QED BY <1>t, <1>c, <1>s, <2>1, <2>2, Advances DEF Progress, Checking
<1>13. CASE QueueIsEmpty(p) \/ ReadIsSolved(p)
  BY <1>t, <1>13 DEF QueueIsEmpty, ReadIsSolved, Progress, Checking, local
<1>14. CASE Pop(p)
  BY <1>t, <1>14 DEF Pop, Progress, Checking
<1>. QED BY <1>1, <1>2, <1>3, <1>4, <1>5, <1>6, <1>7, <1>8, <1>9, <1>10, <1>11, <1>12,
            <1>13, <1>14 DEF CheckState, ThreadSolve

LEMMA NextProgress ==
  ASSUME IInv, \A p \in Procs : Progress(p), [Next]_vars, NEW q \in Procs
  PROVE  Progress(q)'
<1>1. StoredGrows
  BY NextKeepsHeap, Storing
<1>t. pc \in [Procs -> Labels] /\ cur \in [Procs -> Pointers \cup {0}] /\ move \in [Procs -> Moves]
  BY Types
<1>2. ASSUME NEW p \in Procs, CheckState(p) \/ (p \in Threads /\ ThreadSolve(p)) PROVE Progress(q)'
  <2>1. CASE q = p
    BY <1>1, <1>2, <2>1, OwnProgress
  <2>2. CASE q # p
    BY <1>1, <1>2, <2>2, OthersKeep, OthersProgress
  <2>. QED BY <2>1, <2>2
<1>3. CASE Start
  <2>1. CASE q = Main
    BY <1>t, <1>3, <2>1 DEF Start, Goto, At, Progress, Checking
  <2>2. CASE q # Main
    BY <1>1, <1>t, <1>3, <2>2, OthersProgress DEF Start, Goto
  <2>. QED BY <2>1, <2>2
<1>4. CASE Spawn
  <2>1. pc[q] \notin Checking /\ pc'[q] \notin Checking /\ move'[q] = move[q]
    BY <1>t, <1>4, ProcsAre DEF Spawn, At, IInv, Phases, Checking, local
  <2>. QED BY <2>1 DEF Progress, Checking
<1>5. CASE Join
  <2>1. CASE q = Main
    BY <1>t, <1>5, <2>1 DEF Join, Goto, At, Progress, Checking, local
  <2>2. CASE q # Main
    BY <1>1, <1>t, <1>5, <2>2, OthersProgress DEF Join, Goto, local
  <2>. QED BY <2>1, <2>2
<1>6. CASE Report
  <2>1. CASE isSolved /\ finalState = Null
    BY <1>1, <1>6, <2>1, OthersProgress DEF Report, Die, local
  <2>2. CASE ~(isSolved /\ finalState = Null) /\ q = Main
    BY <1>t, <1>6, <2>2 DEF Report, Goto, At, Progress, Checking, local
  <2>3. CASE ~(isSolved /\ finalState = Null) /\ q # Main
    BY <1>1, <1>t, <1>6, <2>3, OthersProgress DEF Report, Goto, local
  <2>. QED BY <2>1, <2>2, <2>3
<1>7. CASE StartFault \/ UNCHANGED vars
  BY <1>1, <1>7, OthersProgress DEF StartFault, Die, vars, local
<1>. QED BY <1>2, <1>3, <1>4, <1>5, <1>6, <1>7, ProcsAre DEF Next, Solve, Stopped

LEMMA CallsKeepWork ==
  ASSUME IInv, NEW p \in Procs, VisitDone(p) \/ Push(p), Progress(p), StoredGrows
  PROVE  /\ \A s \in Pointers : cur[p] = s => cur'[p] = s \/ Expanded(s)'
         /\ \A q \in Procs : q # p => cur'[q] = cur[q] /\ pc'[q] = pc[q] /\ result'[q] = result[q]
<1>1. Advance(p) /\ pc[p] \in {"load", "push"} /\ cur[p] \in Pointers
  BY DEF VisitDone, Push, At, IInv, Locals, Checking
<1>2. \A q \in Procs : q # p => cur'[q] = cur[q] /\ pc'[q] = pc[q] /\ result'[q] = result[q]
  BY <1>1, Advances
<1>3. CASE cur'[p] # cur[p]
  <2>1. ~(move[p] + 1 < NumMoves)
    BY <1>1, <1>3, Advances
  <2>2. move[p] \in Moves
    BY Types
  <2>3. \A m \in Moves : m < move[p] + 1
    BY <2>1, <2>2 DEF Moves
  <2>4. \A m \in Moves : Turn[heap[cur[p]].cube][m] \in Stored
    BY <1>1, <2>3, TurnDone
  <2>5. heap[cur[p]].cube # Solved
    BY <1>1 DEF Progress, Checking
  <2>6. Expanded(cur[p])
    BY <2>4, <2>5 DEF Expanded
  <2>. QED BY <1>1, <1>2, <2>6, StillExpanded
<1>. QED BY <1>2, <1>3

(* isSolved is never taken back.                                           *)
LEMMA SolvedStays ==
  ASSUME IInv, [Next]_vars, isSolved
  PROVE  isSolved'
<1>1. ASSUME NEW p \in Procs, CheckState(p) PROVE isSolved'
  BY <1>1 DEF CheckState, CompareSolved, CompareOther, NextDepth, CopyMoves, CopyFault,
     LookupMiss, LookupHit, FollowSlot, SlotFault, VisitDone, VisitDeeper, CasDepth, Insert,
     Push, Die, shared
<1>2. ASSUME NEW p \in Threads, ThreadSolve(p), ~CheckState(p) PROVE isSolved'
  BY <1>2 DEF ThreadSolve, QueueIsEmpty, ReadIsSolved, Pop, PopNull, Die, shared
<1>3. ASSUME Start \/ StartFault \/ Spawn \/ Join \/ Report \/ UNCHANGED vars PROVE isSolved'
  BY <1>3 DEF Start, StartFault, Spawn, Join, Report, Die, vars, shared
<1>. QED BY <1>1, <1>2, <1>3, ProcsAre DEF Next, Solve, Stopped

LEMMA NextCovered ==
  IInv /\ Handed /\ (\A p \in Procs : Progress(p)) /\ Covered /\ [Next]_vars => Covered'
<1>. SUFFICES ASSUME IInv, Handed, \A p \in Procs : Progress(p), Covered, [Next]_vars,
                     ~isSolved', pc'[Main] # "end", NEW s \in Pointers'
              PROVE  Waiting(s)' \/ Expanded(s)'
  BY DEF Covered
<1>g. StoredGrows
  BY NextKeepsHeap, Storing
<1>t. /\ pc \in [Procs -> Labels] /\ cur \in [Procs -> Pointers \cup {0}]
      /\ result \in [Procs -> Pointers \cup {0}]
      /\ queue \in Seq(Pointers) /\ Len(queue) \in Nat /\ DOMAIN queue = 1..Len(queue)
      /\ 0 \notin Pointers
  BY Types
<1>0. ~isSolved /\ pc[Main] # "end"
  BY SolvedStays, EndStays DEF vars
<1>w. s \in Pointers => Waiting(s) \/ Expanded(s)'
  BY <1>0, <1>g, StillExpanded DEF Covered
<1>. USE DEF Waiting
<1>1. ASSUME NEW p \in Procs, Insert(p) PROVE Waiting(s)' \/ Expanded(s)'
  <2>1. Pointers' = Pointers \cup {Len(heap) + 1}
    BY <1>1, InsertStores
  <2>2. /\ pc[p] = "insert" /\ pc'[p] = "push" /\ result'[p] = Len(heap) + 1
        /\ queue' = queue /\ cur' = cur
        /\ \A q \in Procs : q # p => pc'[q] = pc[q] /\ result'[q] = result[q]
    BY <1>t, <1>1 DEF Insert, At, Goto
  <2>3. CASE s = Len(heap) + 1
    BY <2>2, <2>3
  <2>4. CASE s \in Pointers
    BY <1>w, <2>2, <2>4
  <2>. QED BY <2>1, <2>3, <2>4
<1>2. CASE Start
  <2>1. Pointers' = {1} /\ Len(heap) = 0
    BY <1>2, StartStores
  <2>2. cur'[Main] = 1
    BY <1>t, <1>2, <2>1, ProcsAre DEF Start
  <2>. QED BY <2>1, <2>2, ProcsAre
<1>3. CASE Pointers' = Pointers
  <2>1. Waiting(s) \/ Expanded(s)'
    BY <1>w, <1>3
  <2>2. CASE /\ UNCHANGED <<queue, cur, result>>
             /\ \A p \in Procs : pc'[p] = "push" <=> pc[p] = "push"
    BY <2>1, <2>2
  <2>3. ASSUME NEW p \in Procs, CompareSolved(p) PROVE FALSE
    BY <2>3 DEF CompareSolved
  <2>4. ASSUME NEW p \in Procs, VisitDone(p) PROVE Waiting(s)' \/ Expanded(s)'
    <3>1. queue' = queue /\ pc[p] = "load"
      BY <2>4 DEF VisitDone, shared, At
    <3>. QED BY <1>3, <1>g, <2>1, <2>4, <3>1, CallsKeepWork
  <2>5. ASSUME NEW p \in Procs, Push(p) PROVE Waiting(s)' \/ Expanded(s)'
    <3>1. result[p] \in Pointers /\ queue' = Append(queue, result[p])
      BY <2>5 DEF Push, At, IInv, Locals
    <3>2. /\ \A i \in DOMAIN queue : i \in DOMAIN queue' /\ queue'[i] = queue[i]
          /\ Len(queue) + 1 \in DOMAIN queue' /\ queue'[Len(queue) + 1] = result[p]
      BY <1>t, <3>1, AppendProperties
    <3>. QED BY <1>3, <1>g, <2>1, <2>5, <3>2, CallsKeepWork
  <2>6. ASSUME NEW p \in Threads, Pop(p) PROVE Waiting(s)' \/ Expanded(s)'
    <3>1. p \in Procs /\ cur[p] = 0 /\ pc[p] = "pop"
      BY <2>6, ProcsAre DEF Pop, At, Handed, Checking
    <3>2. /\ 1 \in DOMAIN queue /\ cur' = [cur EXCEPT ![p] = queue[1]]
          /\ \A i \in DOMAIN queue : i # 1 => i - 1 \in DOMAIN queue' /\ queue'[i - 1] = queue[i]
      BY <1>t, <2>6, HeadTailProperties DEF Pop
    <3>3. /\ cur'[p] = queue[1] /\ result' = result
          /\ \A q \in Procs : q # p => cur'[q] = cur[q] /\ pc'[q] = pc[q]
      BY <1>t, <2>6, <3>1, <3>2 DEF Pop, Goto
    <3>4. ASSUME NEW i \in DOMAIN queue, queue[i] = s PROVE Waiting(s)'
      BY <3>1, <3>2, <3>3, <3>4
    <3>5. ASSUME NEW q \in Procs, cur[q] = s PROVE Waiting(s)'
      BY <1>3, <1>t, <3>1, <3>3, <3>5
    <3>6. ASSUME NEW q \in Procs, pc[q] = "push", result[q] = s PROVE Waiting(s)'
      BY <3>1, <3>3, <3>6
    <3>. QED BY <2>1, <3>4, <3>5, <3>6
  <2>7. CASE Report
    <3>1. isSolved /\ finalState = Null
      BY <1>t, <2>7, ProcsAre DEF Report, Goto
    <3>. QED BY <1>0, <3>1
  <2>. QED BY <1>2, <2>2, <2>3, <2>4, <2>5, <2>6, <2>7, HandSteps, <1>1
<1>4. CASE heap' = heap
  BY <1>3, <1>4 DEF Pointers
<1>5. ASSUME NEW p \in Procs, CasDepth(p) PROVE Waiting(s)' \/ Expanded(s)'
  BY <1>3, <1>5, CasLowers
<1>. QED BY <1>1, <1>2, <1>4, <1>5, HeapSteps

LEMMA EndedStay ==
  ASSUME IInv, [Next]_vars, NEW p \in Threads, pc[p] = "end"
  PROVE  pc'[p] = "end"
<1>t. pc \in [Procs -> Labels] /\ p \in Procs /\ p # Main
  BY Types, ProcsAre
<1>1. ASSUME NEW q \in Procs, CheckState(q) \/ (q \in Threads /\ ThreadSolve(q)) PROVE pc'[p] = "end"
  <2>1. CASE q = p
    BY <1>1, <2>1 DEF ThreadSolve, QueueIsEmpty, ReadIsSolved, Pop, PopNull, CheckState,
       CompareSolved, CompareOther, NextDepth, CopyMoves, CopyFault, LookupMiss, LookupHit,
       FollowSlot, SlotFault, VisitDone, VisitDeeper, CasDepth, Insert, Push, At
  <2>2. CASE q # p
    BY <1>t, <1>1, <2>2, OthersKeep
  <2>. QED BY <2>1, <2>2
<1>2. CASE Start \/ Join \/ Report
  BY <1>t, <1>2 DEF Start, Join, Report, Goto, Die
<1>3. CASE Spawn
  BY <1>3 DEF Spawn, At, IInv, Phases
<1>4. CASE StartFault \/ UNCHANGED vars
  BY <1>4 DEF StartFault, Die, vars
<1>. QED BY <1>1, <1>2, <1>3, <1>4, ProcsAre DEF Next, Solve, Stopped

LEMMA NextSearchInv == IInv /\ Handed /\ SearchInv /\ [Next]_vars => SearchInv'
<1>. SUFFICES ASSUME IInv, Handed, SearchInv, [Next]_vars PROVE SearchInv'
  OBVIOUS
<1>1. \A q \in Procs : Progress(q)'
  BY NextProgress DEF SearchInv
<1>2. Covered'
  BY NextCovered DEF SearchInv
<1>3. ASSUME pc'[Main] # "start" PROVE Pointers' # {}
  <2>1. CASE Start
    BY <2>1, StartStores
  <2>2. CASE pc[Main] # "start"
    BY <2>2, NextKeepsHeap DEF SearchInv, HeapKept
  <2>3. CASE pc[Main] = "start" /\ ~Start
    <3>1. \A p \in Threads : pc[p] = "idle"
      BY <2>3 DEF IInv, Phases
    <3>2. ASSUME NEW p \in Procs, CheckState(p) PROVE FALSE
      BY <2>3, <3>1, <3>2, ProcsAre DEF CheckState, CompareSolved, CompareOther, NextDepth,
         CopyMoves, CopyFault, LookupMiss, LookupHit, FollowSlot, SlotFault, VisitDone,
         VisitDeeper, CasDepth, Insert, Push, At
    <3>3. ASSUME NEW p \in Threads, ThreadSolve(p) PROVE FALSE
      BY <3>1, <3>2, <3>3, ProcsAre DEF ThreadSolve, QueueIsEmpty, ReadIsSolved, Pop, PopNull, At
    <3>4. ASSUME Spawn \/ Join \/ Report PROVE FALSE
      BY <2>3, <3>4 DEF Spawn, Join, Report, At
    <3>5. StartFault \/ UNCHANGED vars
      BY <2>3, <3>2, <3>3, <3>4, ProcsAre DEF Next, Solve, Stopped
    <3>. QED BY <1>3, <2>3, <3>5 DEF StartFault, Die, vars
  <2>. QED BY <2>1, <2>2, <2>3
<1>4. ASSUME pc'[Main] = "report", ~isSolved', NEW p \in Threads PROVE pc'[p] = "end"
  <2>1. ~isSolved
    BY <1>4, SolvedStays
  <2>2. CASE pc[Main] = "report"
    BY <2>1, <2>2, EndedStay DEF SearchInv
  <2>3. ASSUME NEW q \in Procs, CompareSolved(q) PROVE FALSE
    BY <1>4, <2>3 DEF CompareSolved
  <2>4. CASE Join
    <3>1. /\ pc[Main] = "join" /\ pc[joined + 1] = "end" /\ joined \in 0..NumThreads
          /\ (\A q \in 1..joined : pc[q] = "end") /\ pc \in [Procs -> Labels]
      BY <2>4 DEF Join, At, IInv, Phases, TypeOK
    <3>2. joined + 1 = NumThreads
      BY <1>4, <2>4, <3>1, ProcsAre DEF Join, Goto
    <3>3. pc[p] = "end"
      BY <3>1, <3>2 DEF Threads
    <3>. QED BY <3>3, EndedStay
  <2>5. CASE Report
    BY <2>2, <2>5 DEF Report, At
  <2>. QED BY <1>4, <2>2, <2>3, <2>4, <2>5, ResultSteps
<1>. QED BY <1>1, <1>2, <1>3, <1>4 DEF SearchInv

LEMMA InitSearchInv == Init => Handed /\ SearchInv
<1>. SUFFICES ASSUME Init PROVE Handed /\ SearchInv
  OBVIOUS
<1>1. /\ DOMAIN queue = {} /\ Pointers = {}
      /\ \A p \in Procs : cur[p] = 0 /\ pc[p] \in {"start", "idle"} /\ move[p] = 0
  BY EmptySeq, LenProperties DEF Init, Pointers
<1>2. Handed
  BY <1>1 DEF Handed, CheckedByOneThread
<1>3. \A p \in Procs : Progress(p)
  BY <1>1 DEF Progress, Checking
<1>4. pc[Main] = "start"
  BY ProcsAre DEF Init
<1>. QED BY <1>1, <1>2, <1>3, <1>4 DEF SearchInv, Covered
-------------------------------------------------------------------------------
(* When main reports and nothing is solved, the workers have left, so the  *)
(* queue is empty and nobody holds a CubeState: all are expanded.          *)
LEMMA NothingWaits ==
  ASSUME IInv, Handed, SearchInv, WorkIsAttended, pc[Main] = "report", ~isSolved,
         NEW s \in Pointers
  PROVE  ~Waiting(s)
<1>1. (\A p \in Threads : pc[p] = "end") /\ \A p \in Procs : pc[p] \notin Checking
  BY ProcsAre DEF SearchInv, Checking
<1>2. \A p \in Procs : cur[p] = 0
  BY <1>1 DEF Handed
<1>3. queue = <<>>
  BY <1>1 DEF WorkIsAttended
<1>4. DOMAIN queue = {}
  BY <1>3, EmptySeq
<1>. QED BY <1>1, <1>2, <1>4, Types DEF Waiting, Checking

(* The steps, seen as steps of GraphSearch.                                *)
LEMMA VerdictSteps ==
  ASSUME IInv, [Next]_vars
  PROVE  \/ UNCHANGED vars
         \/ /\ crash = "none" /\ pc[Main] # "end"
            /\ \/ crash' # "none" /\ crash' \in Crashes /\ heap' = heap
               \/ crash' = "none" /\ pc'[Main] # "end"
               \/ Report /\ ~(isSolved /\ finalState = Null)
<1>t. pc \in [Procs -> Labels]
  BY Types
<1>1. CASE pc[Main] = "end"
  BY <1>1, EndStays
<1> DEFINE Rest == \/ crash' # "none" /\ crash' \in Crashes /\ heap' = heap
                   \/ crash' = "none" /\ pc'[Main] # "end"
<1> USE DEF Goto, At, Die, shared, mainVars, local, Crashes
<1>2. ASSUME pc[Main] # "end", NEW p \in Procs, CheckState(p) PROVE crash = "none" /\ Rest
  <2>1. CASE CompareSolved(p) \/ CompareOther(p) \/ NextDepth(p) \/ CopyMoves(p) \/ CopyFault(p)
    BY <1>t, <1>2, <2>1, ProcsAre DEF CompareSolved, CompareOther, NextDepth, CopyMoves, CopyFault
  <2>2. CASE LookupMiss(p) \/ LookupHit(p) \/ FollowSlot(p) \/ SlotFault(p)
    BY <1>t, <1>2, <2>2, ProcsAre DEF LookupMiss, LookupHit, FollowSlot, SlotFault
  <2>3. CASE VisitDeeper(p) \/ CasDepth(p) \/ Insert(p)
    BY <1>t, <1>2, <2>3, ProcsAre DEF VisitDeeper, CasDepth, Insert
  <2>4. CASE VisitDone(p) \/ Push(p)
    <3>1. crash = "none" /\ crash' = crash /\ Advance(p)
      BY <2>4 DEF VisitDone, Push
    <3>2. pc'[p] # "end" /\ (p # Main => pc'[Main] = pc[Main])
      BY <3>1, Advances, ProcsAre
    <3>3. pc'[Main] # "end"
      BY <1>2, <3>2
    <3>. QED BY <3>1, <3>3
  <2>. QED BY <1>2, <2>1, <2>2, <2>3, <2>4 DEF CheckState
<1>3. ASSUME pc[Main] # "end", NEW p \in Threads, ThreadSolve(p), ~CheckState(p)
      PROVE  crash = "none" /\ Rest
  BY <1>t, <1>3, ProcsAre DEF ThreadSolve, QueueIsEmpty, ReadIsSolved, Pop, PopNull
<1>4. ASSUME Start \/ StartFault \/ Spawn \/ Join PROVE crash = "none" /\ pc[Main] # "end" /\ Rest
  BY <1>t, <1>4, ProcsAre DEF Start, StartFault, Spawn, Join
<1>5. ASSUME Report, isSolved /\ finalState = Null PROVE crash = "none" /\ pc[Main] # "end" /\ Rest
  BY <1>5 DEF Report
<1>6. ASSUME Report PROVE crash = "none" /\ pc[Main] # "end"
  BY <1>6 DEF Report
<1>. QED BY <1>1, <1>2, <1>3, <1>4, <1>5, <1>6, ProcsAre DEF Next, Solve, Stopped

LEMMA SearchSteps ==
  ASSUME IInv, Results, Handed, SearchInv, WorkIsAttended, [Next]_vars
  PROVE  [Search!Next]_(Search!searchVars)
<1>1. CASE UNCHANGED vars
  BY <1>1 DEF Search!searchVars, Stored, Pointers, Verdict, vars, shared, mainVars
<1>2. CASE crash = "none" /\ pc[Main] # "end" /\ crash' # "none" /\ heap' = heap
  <2>1. Verdict = "searching" /\ Verdict' = "crashed" /\ Stored' = Stored
    BY <1>2 DEF Verdict, Stored, Pointers
  <2>. QED BY <2>1 DEF Search!Next, Search!Crash
<1>3. CASE crash = "none" /\ pc[Main] # "end" /\ crash' = "none" /\ pc'[Main] # "end"
  <2>1. Verdict = "searching" /\ Verdict' = "searching"
    BY <1>3 DEF Verdict
  <2>2. CASE heap' = heap
    BY <2>1, <2>2 DEF Search!searchVars, Stored, Pointers
  <2>3. ASSUME NEW p \in Procs, CasDepth(p) PROVE Stored' = Stored
    BY <2>3, CasLowers DEF Stored
  <2>4. ASSUME NEW p \in Procs, Insert(p) PROVE Search!Discover
    <3>1. /\ cur[p] \in Pointers /\ move[p] \in Moves /\ pc[p] = "insert"
          /\ new[p].cube = Turn[heap[cur[p]].cube][move[p]]
      BY <2>4, Types DEF Insert, At, IInv, Locals, SearchInv, Progress, Checking
    <3>2. Stored' = Stored \cup {new[p].cube}
      BY <2>4, InsertStores DEF Stored
    <3>3. heap[cur[p]].cube \in Stored /\ move[p] \in Search!Moves
      BY <3>1 DEF Stored, Search!Moves, Moves
    <3>. QED BY <2>1, <3>1, <3>2, <3>3 DEF Search!Discover
  <2>5. CASE Start
    <3>1. Stored = {} /\ \E c \in Cubes : Stored' = {c}
      <4>1. PICK c \in Cubes : Pointers = {} /\ Pointers' = {1} /\ heap'[1].cube = c
        BY <2>5, StartStores
      <4>. QED BY <4>1 DEF Stored
    <3>. QED BY <2>1, <3>1 DEF Search!Next, Search!Begin
  <2>. QED BY <2>1, <2>2, <2>3, <2>4, <2>5, HeapSteps DEF Search!Next, Search!searchVars
<1>4. CASE crash = "none" /\ pc[Main] # "end" /\ Report /\ ~(isSolved /\ finalState = Null)
  <2>1. pc[Main] = "report" /\ pc'[Main] = "end" /\ UNCHANGED <<heap, crash, isSolved>>
    BY <1>4, Types, ProcsAre DEF Report, At, Goto
  <2>2. Stored' = Stored /\ Verdict = "searching"
    BY <1>4, <2>1 DEF Stored, Pointers, Verdict
  <2>3. CASE isSolved
    <3>1. Verdict' = "solved"
      BY <1>4, <2>1, <2>3 DEF Verdict
    <3>2. finalState \in Pointers /\ heap[finalState].cube = Solved
      BY <1>4, <2>3 DEF IInv, TypeOK, Results
    <3>3. Solved \in Stored
      BY <3>2 DEF Stored
    <3>. QED BY <2>2, <3>1, <3>3 DEF Search!Next, Search!ConcludeSolved
  <2>4. CASE ~isSolved
    <3>1. Verdict' = "unsolved"
      BY <1>4, <2>1, <2>4 DEF Verdict
    <3>2. \A s \in Pointers : Expanded(s)
      BY <2>1, <2>4, NothingWaits DEF SearchInv, Covered
    <3>3. Pointers # {}
      BY <2>1 DEF SearchInv
    <3>4. Stored # {} /\ Solved \notin Stored
      BY <3>2, <3>3 DEF Stored, Expanded
    <3>5. Search!Closed
      BY <3>2 DEF Search!Closed, Search!Moves, Moves, Stored, Expanded
    <3>. QED BY <2>2, <3>1, <3>4, <3>5 DEF Search!Next, Search!ConcludeUnsolved
  <2>. QED BY <2>3, <2>4
<1>. QED BY <1>1, <1>2, <1>3, <1>4, VerdictSteps

(* However many threads race, the solver is a search of the graph: it      *)
(* learns of cubes by turning known ones, announces a solution only when   *)
(* the solved cube is known, and gives up only when every turn of every    *)
(* known cube has been made and none is the solved one, although a worker  *)
(* leaves as soon as it meets an empty queue (solve, startThreads,         *)
(* thread_solve, check_state).                                             *)
THEOREM Implements == Spec => ImplementsSearch
<1>1. Init => Search!Init
  <2>. SUFFICES ASSUME Init PROVE Search!Init
    OBVIOUS
  <2>1. Pointers = {} /\ pc[Main] = "start" /\ crash = "none"
    BY EmptySeq, LenProperties, ProcsAre DEF Init, Pointers
  <2>. QED BY <2>1 DEF Search!Init, Stored, Verdict
<1>2. Init => Handed /\ SearchInv
  BY InitSearchInv
<1>3. IInv /\ Handed /\ SearchInv /\ [Next]_vars => Handed' /\ SearchInv'
  BY NextHanded, NextSearchInv
<1>4. Init => Results
  BY ProcsAre DEF Init, Results
<1>5. IInv /\ Results /\ Handed /\ SearchInv /\ WorkIsAttended /\ [Next]_vars
        => [Search!Next]_(Search!searchVars)
  BY SearchSteps
<1>. QED BY <1>1, <1>2, <1>3, <1>4, <1>5, NextResults, Invariance, Attended, PTL
         DEF Spec, ImplementsSearch, Search!Spec
===============================================================================
