------------------------ MODULE ConcurrentSolverProofs ------------------------
(***************************************************************************)
(* Theorems about ConcurrentSolver, for every graph, every number of       *)
(* threads and every capacity.                                             *)
(***************************************************************************)
EXTENDS ConcurrentSolver, SequenceTheorems, TLAPS

(* The labels between popping a CubeState and being done with it.          *)
Checking == {"compare", "depth", "copy", "lookup", "visit", "load", "again", "cas",
             "insert", "push"}

(* main is the only process until it spawns the others and again when it   *)
(* has joined them, and what it has joined has ended.                      *)
Phases ==
  /\ pc[Main] \in Checking \cup {"start", "spawn", "join", "report", "end"}
  /\ \A p \in Threads : pc[p] \in Checking \cup {"idle", "empty", "flag", "pop", "end"}
  /\ pc[Main] \notin {"join", "report", "end"} =>
       joined = 0 /\ \A p \in Threads : pc[p] = "idle"
  /\ pc[Main] \in {"report", "end"} => \A p \in Threads : pc[p] \in {"idle", "end"}
  /\ pc[Main] = "join" => joined < NumThreads /\ \A p \in 1..joined : pc[p] = "end"
  /\ pc[Main] = "start" => heap = <<>>

(* What a process has when it is at a label.                               *)
Locals(p) ==
  /\ pc[p] \in Checking => cur[p] \in Pointers
  /\ pc[p] \in {"visit", "load", "again", "cas"} =>
       slot[p] = Dangling \/ slot[p] \in DOMAIN list
  /\ pc[p] \in {"load", "cas"} => target[p] \in Pointers
  /\ pc[p] \in {"again", "cas"} => seen[p] > new[p].depth
  /\ pc[p] = "push" => result[p] \in Pointers
  /\ pc[p] = "copy" => new[p].depth \in 1..(Len(heap[cur[p]].moves) + 1)
  /\ pc[p] \in {"lookup", "visit", "load", "again", "cas", "insert"} =>
       Len(new[p].moves) = new[p].depth
  /\ pc[p] \in Checking \ {"compare", "depth", "push"} => new[p].by = p

MovesCoverDepth == \A s \in Pointers : heap[s].depth <= Len(heap[s].moves)

IInv ==
  /\ TypeOK
  /\ Phases
  /\ \A p \in Procs : Locals(p)
  /\ MovesCoverDepth

USE GraphAssumption, SolverAssumption DEF Null, Dangling, Main

LEMMA InitIInv == Init => IInv
  <1> SUFFICES ASSUME Init PROVE IInv
    OBVIOUS
  <1>1. TypeOK
    <2>1. 0 \in Moves
      BY DEF Moves
    <2>2. NoState \in CubeState
      BY EmptySeq DEF NoState, CubeState, Procs
    <2>3. Len(list) < capacity
      BY EmptySeq DEF Init
    <2>4. heap \in Seq(CubeState) /\ list \in Seq(Pointers) /\ queue \in Seq(Pointers)
          /\ printed \in Seq(Moves)
      BY EmptySeq DEF Init
    <2>5. /\ capacity \in Nat /\ joined \in 0..NumThreads
          /\ finalState \in Pointers \cup {Null} /\ crash \in Crashes
      BY DEF Init, Crashes
    <2>6. /\ pc \in [Procs -> Labels]
          /\ cur \in [Procs -> Pointers \cup {Null}]
          /\ move \in [Procs -> Moves]
          /\ new \in [Procs -> CubeState]
          /\ slot \in [Procs -> Nat \cup {Dangling}]
          /\ target \in [Procs -> Pointers \cup {Null}]
          /\ seen \in [Procs -> Nat]
          /\ result \in [Procs -> Pointers \cup {Null}]
          /\ ret \in [Procs -> Pointers \cup {Null}]
      BY <2>1, <2>2 DEF Init, Labels
    <2>7. isSolved \in BOOLEAN
      BY Zenon DEF Init
    <2> QED
      BY <2>3, <2>4, <2>5, <2>6, <2>7 DEF TypeOK
  <1>2. Phases
    BY DEF Init, Phases, Procs, Threads, Checking
  <1>3. ASSUME NEW p \in Procs PROVE Locals(p)
    BY DEF Init, Locals, Procs, Checking
  <1>4. MovesCoverDepth
    BY DEF Init, MovesCoverDepth, Pointers
  <1> QED
    BY <1>1, <1>2, <1>3, <1>4 DEF IInv
------------------------------------------------------------------------------
(* What one step of one process may do to the parts of IInv that speak of  *)
(* all processes.                                                          *)

(* A process that checks a CubeState and goes on to any label but those of *)
(* main's own program, or that leaves thread_solve's loop.                 *)
LEMMA CheckerMoves ==
  ASSUME pc \in [Procs -> Labels], Phases, NEW p \in Procs, pc[p] \in Checking,
         NEW l \in Checking, pc' = [pc EXCEPT ![p] = l], joined' = joined
  PROVE  Phases'
  <1>1. \A q \in Procs : pc'[q] = IF q = p THEN l ELSE pc[q]
    OBVIOUS
  <1>2. CASE p = Main
    <2>1. pc'[Main] \in Checking /\ pc[Main] \notin {"join", "report", "end"}
      BY <1>1, <1>2 DEF Checking
    <2>2. joined' = 0 /\ \A q \in Threads : pc'[q] = "idle"
      BY <1>1, <1>2, <2>1 DEF Phases, Procs, Threads
    <2> QED
      BY <2>1, <2>2 DEF Phases, Checking
  <1>3. CASE p # Main
    <2>1. p \in Threads /\ Threads \subseteq Procs /\ Main \in Procs
      BY <1>3 DEF Procs, Threads
    <2>2. pc[Main] = "join" /\ pc'[Main] = "join"
      BY <1>1, <1>3, <2>1 DEF Phases, Checking
    <2>3. \A q \in 1..joined : pc'[q] = "end"
      BY <1>1, <2>1, <2>2 DEF Phases, Checking, Procs, Threads
    <2>4. \A q \in Threads : pc'[q] \in Checking \cup {"idle", "empty", "flag", "pop", "end"}
      BY <1>1, <2>1 DEF Phases
    <2> QED
      BY <2>2, <2>3, <2>4 DEF Phases
  <1> QED
    BY <1>2, <1>3

LEMMA WorkerMoves ==
  ASSUME pc \in [Procs -> Labels], joined \in 0..NumThreads, Phases, NEW p \in Threads,
         pc[p] \in Checking \cup {"empty", "flag", "pop"},
         NEW l \in Checking \cup {"empty", "flag", "pop", "end"},
         pc' = [pc EXCEPT ![p] = l], joined' = joined
  PROVE  Phases'
  <1>1. p \in Procs /\ Threads \subseteq Procs /\ Main \in Procs
    BY DEF Procs, Threads
  <1>2. \A q \in Procs : pc'[q] = IF q = p THEN l ELSE pc[q]
    BY <1>1
  <1>3. pc[Main] = "join" /\ pc'[Main] = "join"
    BY <1>1, <1>2 DEF Phases, Checking, Threads
  <1>4. \A q \in 1..joined : pc'[q] = "end"
    BY <1>1, <1>2, <1>3 DEF Phases, Checking, Threads
  <1>5. \A q \in Threads : pc'[q] \in Checking \cup {"idle", "empty", "flag", "pop", "end"}
    BY <1>1, <1>2 DEF Phases
  <1> QED
    BY <1>3, <1>4, <1>5 DEF Phases

LEMMA MainMoves ==
  ASSUME pc \in [Procs -> Labels], Phases, pc[Main] \in Checking \cup {"start"},
         NEW l \in Checking \cup {"spawn", "report"},
         pc' = [pc EXCEPT ![Main] = l], joined' = joined
  PROVE  Phases'
  <1>1. Main \in Procs /\ Threads \subseteq Procs /\ Main \notin Threads
    BY DEF Procs, Threads
  <1>2. pc'[Main] = l
    BY <1>1
  <1>3. joined' = 0 /\ \A q \in Threads : pc'[q] = "idle"
    BY <1>1 DEF Phases, Checking
  <1> QED
    BY <1>2, <1>3 DEF Phases, Checking

(* What a process keeps while others work: the heap and the list grow, the *)
(* moves and the cubes of what is stored stay, and a location may come to  *)
(* lie in freed memory.                                                    *)
Grows ==
  /\ Pointers \subseteq Pointers'
  /\ DOMAIN list \subseteq DOMAIN list'
  /\ \A s \in Pointers : heap'[s].moves = heap[s].moves

Same(q) ==
  /\ pc'[q] = pc[q] /\ cur'[q] = cur[q] /\ new'[q] = new[q]
  /\ slot'[q] \in {slot[q], Dangling} /\ target'[q] = target[q]
  /\ seen'[q] = seen[q] /\ result'[q] = result[q]

LEMMA LocalsStay ==
  ASSUME NEW q \in Procs, Locals(q), Grows, Same(q)
  PROVE  Locals(q)'
  BY DEF Locals, Grows, Same, Checking

LEMMA NothingStored ==
  ASSUME heap' = heap, list' = list
  PROVE  Grows
  BY DEF Grows, Pointers

(* The storage's critical section that inserts.                            *)
LEMMA Stores ==
  ASSUME TypeOK, NEW s \in CubeState, StorageInsert(s)
  PROVE  /\ heap' \in Seq(CubeState)
         /\ Pointers' = Pointers \cup {Len(heap) + 1}
         /\ \A t \in Pointers : heap'[t] = heap[t]
         /\ heap'[Len(heap) + 1] = s
         /\ list' \in Seq(Pointers')
         /\ Len(list') = Len(list) + 1
         /\ capacity' \in Nat /\ Len(list') < capacity'
         /\ slot' \in [Procs -> Nat \cup {Dangling}]
         /\ \A q \in Procs : slot'[q] \in {slot[q], Dangling}
         /\ Grows
  <1> USE DEF StorageInsert
  <1>1. /\ heap' = Append(heap, s)
        /\ heap \in Seq(CubeState)
        /\ list \in Seq(Pointers)
        /\ Len(heap) \in Nat
        /\ Len(list) \in Nat
        /\ Pointers = 1..Len(heap)
        /\ DOMAIN list = 1..Len(list)
    BY LenProperties DEF TypeOK, Pointers
  <1>2. /\ heap' \in Seq(CubeState)
        /\ Len(heap') = Len(heap) + 1
        /\ \A t \in 1..Len(heap) : heap'[t] = heap[t]
        /\ heap'[Len(heap) + 1] = s
    BY <1>1, AppendProperties
  <1>3. Pointers' = 1..(Len(heap) + 1)
    BY <1>2, LenProperties DEF Pointers
  <1>4. PICK k \in 0..Len(list) :
          list' = [j \in 1..(Len(list) + 1) |->
                     IF j <= k THEN list[j]
                     ELSE IF j = k + 1 THEN Len(heap) + 1 ELSE list[j - 1]]
    OBVIOUS
  <1>5. \A j \in 1..(Len(list) + 1) : list'[j] \in Pointers'
    <2> TAKE j \in 1..(Len(list) + 1)
    <2>1. CASE j <= k
      <3>1. j \in 1..Len(list)
        BY <1>1, <2>1
      <3>2. list[j] \in Pointers
        BY <1>1, <3>1, ElementOfSeq
      <3> QED
        BY <1>1, <1>3, <1>4, <2>1, <3>2
    <2>2. CASE j = k + 1
      BY <1>1, <1>3, <1>4, <2>2
    <2>3. CASE j > k + 1
      <3>1. j - 1 \in 1..Len(list)
        BY <1>1, <2>3
      <3>2. list[j - 1] \in Pointers
        BY <1>1, <3>1, ElementOfSeq
      <3> QED
        BY <1>1, <1>3, <1>4, <2>3, <3>2
    <2> QED
      BY <1>1, <2>1, <2>2, <2>3
  <1>6. list' \in Seq(Pointers') /\ Len(list') = Len(list) + 1
    <2>1. list' \in [1..(Len(list) + 1) -> Pointers']
      BY <1>4, <1>5
    <2>2. list' \in Seq(Pointers')
      <3>1. Len(list) + 1 \in Nat
        BY <1>1
      <3>2. list' \in UNION {[1..n -> Pointers'] : n \in Nat}
        BY <2>1, <3>1
      <3> QED
        BY <3>2, SeqDef, Zenon
    <2> QED
      BY <1>1, <2>1, <2>2, LenProperties
  <1>7. DOMAIN list' = 1..(Len(list) + 1)
    BY <1>4
  <1>8. capacity' \in Nat /\ slot' \in [Procs -> Nat \cup {Dangling}]
        /\ \A q \in Procs : slot'[q] \in {slot[q], Dangling}
    BY DEF TypeOK, Resize
  <1>9. Len(list') < capacity'
    <2>1. capacity \in Nat /\ Len(list) < capacity
      BY DEF TypeOK
    <2>2. CASE Len(list) = capacity - 1
      <3>1. capacity' = 2 * capacity
        BY <2>2 DEF Resize
      <3> QED
        BY <1>1, <1>6, <2>1, <2>2, <3>1
    <2>3. CASE Len(list) # capacity - 1
      <3>1. capacity' = capacity
        BY <2>3 DEF Resize
      <3> QED
        BY <1>1, <1>6, <2>1, <2>3, <3>1
    <2> QED
      BY <2>2, <2>3
  <1> QED
    BY <1>1, <1>2, <1>3, <1>6, <1>7, <1>8, <1>9 DEF Grows

(* The two ends of a turn, VisitDone and Push.                             *)
LEMMA AdvanceKeeps ==
  ASSUME IInv, NEW p \in Procs, pc[p] \in Checking, Advance(p),
         UNCHANGED <<heap, list, capacity, isSolved, mainVars, crash>>,
         queue' \in Seq(Pointers)
  PROVE  IInv'
  <1> USE DEF IInv, Advance, Goto, mainVars
  <1>1. PICK l \in {"depth", "spawn", "empty"} :
          /\ pc' = [pc EXCEPT ![p] = l]
          /\ l = "depth" => cur' = cur /\ move[p] + 1 < NumMoves
                             /\ move' = [move EXCEPT ![p] = move[p] + 1]
          /\ l # "depth" => cur' = [cur EXCEPT ![p] = Null]
                             /\ move' = [move EXCEPT ![p] = 0]
          /\ l = "spawn" => p = Main
          /\ l = "empty" => p # Main
    <2>1. CASE move[p] + 1 < NumMoves
      BY <2>1
    <2>2. CASE ~(move[p] + 1 < NumMoves)
      BY <2>2
    <2> QED
      BY <2>1, <2>2
  <1>2. TypeOK'
    <2>1. move' \in [Procs -> Moves]
      <3>1. move \in [Procs -> Moves] /\ NumMoves \in Nat \ {0}
        BY DEF TypeOK
      <3>2. 0 \in Moves /\ (l = "depth" => move[p] + 1 \in Moves)
        BY <1>1, <3>1 DEF Moves
      <3> QED
        BY <1>1, <3>1, <3>2
    <2>2. NoState \in CubeState
      BY EmptySeq DEF NoState, CubeState, Procs
    <2>3. new' \in [Procs -> CubeState]
      BY <2>2 DEF TypeOK
    <2>4. pc' \in [Procs -> Labels]
      BY <1>1 DEF TypeOK, Labels
    <2>5. cur' \in [Procs -> Pointers \cup {Null}]
      BY <1>1 DEF TypeOK
    <2> QED
      BY <2>1, <2>3, <2>4, <2>5 DEF TypeOK, Pointers
  <1>3. Phases'
    <2>1. pc \in [Procs -> Labels] /\ joined \in 0..NumThreads /\ joined' = joined
      BY DEF TypeOK
    <2>2. CASE l = "depth"
      BY <1>1, <2>1, <2>2, CheckerMoves DEF Checking
    <2>3. CASE l = "spawn"
      BY <1>1, <2>1, <2>3, MainMoves
    <2>4. CASE l = "empty"
      <3>1. p \in Threads
        BY <1>1, <2>4 DEF Procs, Threads
      <3> QED
        BY <1>1, <2>1, <2>4, <3>1, WorkerMoves
    <2> QED
      BY <2>2, <2>3, <2>4
  <1>4. ASSUME NEW q \in Procs PROVE Locals(q)'
    <2>1. CASE q # p
      <3>1. Same(q)
        BY <1>1, <2>1 DEF Same, TypeOK
      <3> QED
        BY <3>1, <1>4, LocalsStay, NothingStored
    <2>2. CASE q = p
      <3>1. pc'[p] = l /\ (l = "depth" => cur'[p] \in Pointers)
        BY <1>1 DEF TypeOK, Locals
      <3> QED
        BY <2>2, <3>1 DEF Locals, Checking, Pointers
    <2> QED
      BY <2>1, <2>2
  <1>5. MovesCoverDepth'
    BY DEF MovesCoverDepth, Pointers
  <1> QED
    BY <1>2, <1>3, <1>4, <1>5

(* The process dies: nothing else changes.                                 *)
LEMMA DieKeeps ==
  ASSUME IInv, NEW reason \in Crashes, Die(reason)
  PROVE  IInv'
  <1> USE DEF IInv, Die, shared, mainVars, local
  <1>1. TypeOK'
    BY DEF TypeOK, Pointers
  <1>2. Phases'
    BY DEF Phases
  <1>3. ASSUME NEW q \in Procs PROVE Locals(q)'
    BY <1>3 DEF Locals, Pointers
  <1>4. MovesCoverDepth'
    BY DEF MovesCoverDepth, Pointers
  <1> QED
    BY <1>1, <1>2, <1>3, <1>4

(* What the compare-and-swap does to the heap.                             *)
LEMMA CasLowers ==
  ASSUME IInv, NEW p \in Procs, CasDepth(p)
  PROVE  /\ heap' \in Seq(CubeState)
         /\ Pointers' = Pointers
         /\ \A s \in Pointers : /\ heap'[s].cube = heap[s].cube
                                /\ heap'[s].moves = heap[s].moves
                                /\ heap'[s].by = heap[s].by
                                /\ heap'[s].depth <= heap[s].depth
  <1> DEFINE t == target[p]
             e == [heap[t] EXCEPT !.depth = new[p].depth]
  <1>1. heap \in Seq(CubeState) /\ Pointers = 1..Len(heap)
    BY LenProperties DEF IInv, TypeOK, Pointers
  <1>2. t \in 1..Len(heap) /\ new[p] \in CubeState /\ seen[p] > new[p].depth
    BY <1>1 DEF IInv, TypeOK, Locals, CasDepth, At
  <1>3. \A s \in Pointers : heap[s] \in CubeState /\ heap[s].depth \in Nat
    <2> TAKE s \in Pointers
    <2>1. heap[s] \in CubeState
      BY <1>1, ElementOfSeq
    <2> QED
      BY <2>1 DEF CubeState
  <1>4. CASE heap[t].depth = seen[p]
    <2>1. heap' = [heap EXCEPT ![t] = e]
      BY <1>4 DEF CasDepth
    <2>2. e \in CubeState
      BY <1>1, <1>2, <1>3 DEF CubeState
    <2>3. /\ heap' \in Seq(CubeState)
          /\ Len(heap') = Len(heap)
          /\ \A s \in 1..Len(heap) : heap'[s] = IF s = t THEN e ELSE heap[s]
      BY <1>1, <1>2, <2>1, <2>2, ExceptSeq
    <2>4. Pointers' = Pointers
      BY <1>1, <2>3, LenProperties DEF Pointers
    <2>5. e.cube = heap[t].cube /\ e.moves = heap[t].moves /\ e.by = heap[t].by
          /\ e.depth <= heap[t].depth
      BY <1>1, <1>2, <1>3, <1>4 DEF CubeState
    <2>6. ASSUME NEW s \in Pointers
          PROVE  /\ heap'[s].cube = heap[s].cube
                 /\ heap'[s].moves = heap[s].moves
                 /\ heap'[s].by = heap[s].by
                 /\ heap'[s].depth <= heap[s].depth
      <3>1. CASE s = t
        BY <1>2, <2>3, <2>5, <3>1
      <3>2. CASE s # t
        BY <1>1, <1>3, <2>3, <3>2
      <3> QED
        BY <3>1, <3>2
    <2> QED
      BY <2>3, <2>4, <2>6
  <1>5. CASE heap[t].depth # seen[p]
    <2>1. heap' = heap
      BY <1>5 DEF CasDepth
    <2> QED
      BY <1>1, <1>3, <2>1 DEF Pointers
  <1> QED
    BY <1>4, <1>5

LEMMA NextIInv == IInv /\ [Next]_vars => IInv'
  <1> SUFFICES ASSUME IInv, [Next]_vars PROVE IInv'
    OBVIOUS
  <1> USE DEF IInv
  <1>pc. pc \in [Procs -> Labels] /\ joined \in 0..NumThreads
    BY DEF TypeOK
  <1>1. ASSUME NEW p \in Procs, CompareSolved(p) PROVE IInv'
    <2> USE DEF CompareSolved, At, Goto
    <2>1. TypeOK'
      BY <1>1 DEF TypeOK, Pointers, Labels, Checking, Procs, Locals
    <2>2. Phases'
      <3>1. CASE p = Main
        BY <1>1, <1>pc, <3>1, MainMoves DEF Checking
      <3>2. CASE p # Main
        <4>1. p \in Threads /\ pc' = [pc EXCEPT ![p] = "end"]
          BY <1>1, <3>2 DEF Procs, Threads
        <4> QED
          BY <1>1, <1>pc, <4>1, WorkerMoves DEF Checking
      <3> QED
        BY <3>1, <3>2
    <2>3. ASSUME NEW q \in Procs PROVE Locals(q)'
      BY <1>1, <2>3 DEF TypeOK, Locals, Checking, Pointers
    <2>4. MovesCoverDepth'
      BY <1>1 DEF MovesCoverDepth, Pointers
    <2> QED
      BY <2>1, <2>2, <2>3, <2>4
  <1>2. ASSUME NEW p \in Procs, CompareOther(p) PROVE IInv'
    <2> USE DEF CompareOther, At, Goto, shared, mainVars, local
    <2>1. TypeOK'
      BY <1>2 DEF TypeOK, Pointers, Labels, Checking, Procs, Locals
    <2>2. Phases'
      BY <1>2, <1>pc, CheckerMoves DEF Checking
    <2>3. ASSUME NEW q \in Procs PROVE Locals(q)'
      BY <1>2, <2>3 DEF TypeOK, Locals, Checking, Pointers
    <2>4. MovesCoverDepth'
      BY <1>2 DEF MovesCoverDepth, Pointers
    <2> QED
      BY <2>1, <2>2, <2>3, <2>4
  <1>3. ASSUME NEW p \in Procs, NextDepth(p) PROVE IInv'
    <2> USE DEF NextDepth, At, Goto, shared, mainVars, local
    <2> DEFINE s == heap[cur[p]]
               n == [cube |-> Turn[s.cube][move[p]], moves |-> <<>>,
                     depth |-> s.depth + 1, by |-> p]
    <2>1. cur[p] \in Pointers /\ s \in CubeState
      BY <1>3 DEF TypeOK, Locals, Checking, Pointers
    <2>2. n \in CubeState
      <3>1. move[p] \in Moves /\ s.cube \in Cubes /\ s.depth \in Nat
        BY <2>1 DEF TypeOK, CubeState
      <3>2. Turn[s.cube][move[p]] \in Cubes
        BY <3>1
      <3>3. <<>> \in Seq(Moves)
        BY EmptySeq
      <3> QED
        BY <3>1, <3>2, <3>3 DEF CubeState
    <2>3. new' = [new EXCEPT ![p] = n]
      BY <1>3
    <2>4. TypeOK'
      BY <1>3, <2>2, <2>3 DEF TypeOK, Pointers, Labels
    <2>5. Phases'
      BY <1>3, <1>pc, CheckerMoves DEF Checking
    <2>6. ASSUME NEW q \in Procs PROVE Locals(q)'
      <3>1. CASE q # p
        BY <1>3, <2>3, <3>1, <2>6, LocalsStay, NothingStored DEF Same, TypeOK
      <3>2. CASE q = p
        <4>1. new'[p] = n /\ pc'[p] = "copy" /\ cur'[p] = cur[p]
          BY <1>3, <2>3 DEF TypeOK
        <4>2. s.depth <= Len(s.moves) /\ Len(s.moves) \in Nat /\ s.depth \in Nat
          BY <2>1, LenProperties DEF MovesCoverDepth, CubeState
        <4> QED
          BY <1>3, <2>1, <3>2, <4>1, <4>2 DEF Locals, Checking, Pointers
      <3> QED
        BY <3>1, <3>2
    <2>7. MovesCoverDepth'
      BY <1>3 DEF MovesCoverDepth, Pointers
    <2> QED
      BY <2>4, <2>5, <2>6, <2>7
  <1>4. ASSUME NEW p \in Procs, CopyMoves(p) PROVE IInv'
    <2> USE DEF CopyMoves, At, Goto, shared, mainVars
    <2> DEFINE s == heap[cur[p]]
    <2>1. /\ cur[p] \in Pointers /\ s \in CubeState
          /\ new[p] \in CubeState
          /\ new[p].depth \in 1..(Len(s.moves) + 1)
          /\ new[p].by = p
      <3>1. cur[p] \in Pointers /\ s \in CubeState /\ new[p] \in CubeState
        BY <1>4 DEF TypeOK, Locals, Checking, Pointers
      <3>2. new[p].depth \in 1..(Len(s.moves) + 1) /\ new[p].by = p
        BY <1>4 DEF Locals, Checking
      <3> QED
        BY <3>1, <3>2
    <2>2. /\ s.moves \in Seq(Moves) /\ Len(s.moves) \in Nat /\ s.depth \in Nat
          /\ new[p].depth \in Nat \ {0}
      BY <2>1, LenProperties DEF CubeState
    <2>3. PICK len \in s.depth..(new[p].depth - 1) :
            new' = [new EXCEPT ![p].moves = CopiedMoves(s, len, new[p].depth, move[p])]
      BY <1>4
    <2> DEFINE ms == CopiedMoves(s, len, new[p].depth, move[p])
    <2>4. ms \in Seq(Moves) /\ Len(ms) = new[p].depth
      <3>1. 0 \in Moves /\ move[p] \in Moves
        BY DEF TypeOK, Moves
      <3>2. \A i \in 1..new[p].depth : i <= len => i \in 1..Len(s.moves)
        BY <2>1, <2>2
      <3>3. \A i \in 1..Len(s.moves) : s.moves[i] \in Moves
        BY <2>2, ElementOfSeq
      <3>4. ms \in [1..new[p].depth -> Moves]
        BY <3>1, <3>2, <3>3 DEF CopiedMoves
      <3>5. ms \in UNION {[1..n -> Moves] : n \in Nat}
        BY <2>2, <3>4
      <3>6. ms \in Seq(Moves)
        BY <3>5, SeqDef, Zenon
      <3> QED
        BY <2>2, <3>4, <3>6, LenProperties
    <2> HIDE DEF ms
    <2>5. new'[p] = [new[p] EXCEPT !.moves = ms] /\ new' \in [Procs -> CubeState]
          /\ \A q \in Procs : q # p => new'[q] = new[q]
      BY <2>1, <2>3, <2>4 DEF TypeOK, CubeState, ms
    <2>6. TypeOK'
      BY <1>4, <2>5 DEF TypeOK, Pointers, Labels
    <2>7. Phases'
      BY <1>4, <1>pc, CheckerMoves DEF Checking
    <2>8. ASSUME NEW q \in Procs PROVE Locals(q)'
      <3>1. CASE q # p
        BY <1>4, <2>5, <3>1, <2>8, LocalsStay, NothingStored DEF Same, TypeOK
      <3>2. CASE q = p
        <4>1. pc'[p] = "lookup" /\ cur'[p] = cur[p] /\ Pointers' = Pointers
          BY <1>4 DEF TypeOK, Pointers
        <4>2. Len(new'[p].moves) = new'[p].depth /\ new'[p].by = p
          BY <2>1, <2>4, <2>5 DEF CubeState
        <4> QED
          BY <2>1, <3>2, <4>1, <4>2 DEF Locals, Checking
      <3> QED
        BY <3>1, <3>2
    <2>9. MovesCoverDepth'
      BY <1>4 DEF MovesCoverDepth, Pointers
    <2> QED
      BY <2>6, <2>7, <2>8, <2>9
  <1>5. ASSUME NEW p \in Procs, LookupMiss(p) PROVE IInv'
    <2> USE DEF LookupMiss, At, Goto, shared, mainVars, local
    <2>1. TypeOK'
      BY <1>5 DEF TypeOK, Pointers, Labels
    <2>2. Phases'
      BY <1>5, <1>pc, CheckerMoves DEF Checking
    <2>3. ASSUME NEW q \in Procs PROVE Locals(q)'
      <3>1. CASE q # p
        BY <1>5, <3>1, <2>3, LocalsStay, NothingStored DEF Same, TypeOK
      <3>2. CASE q = p
        BY <1>5, <1>pc, <3>2 DEF Locals, Checking, Pointers
      <3> QED
        BY <3>1, <3>2
    <2>4. MovesCoverDepth'
      BY <1>5 DEF MovesCoverDepth, Pointers
    <2> QED
      BY <2>1, <2>2, <2>3, <2>4
  <1>6. ASSUME NEW p \in Procs, LookupHit(p) PROVE IInv'
    <2> USE DEF LookupHit, At, Goto, shared, mainVars
    <2>1. PICK i \in DOMAIN list : slot' = [slot EXCEPT ![p] = i]
      BY <1>6 DEF Matches
    <2>2. i \in Nat /\ DOMAIN list' = DOMAIN list
      BY <1>6, LenProperties DEF TypeOK
    <2>3. TypeOK'
      BY <1>6, <2>1, <2>2 DEF TypeOK, Pointers, Labels
    <2>4. Phases'
      BY <1>6, <1>pc, CheckerMoves DEF Checking
    <2>5. ASSUME NEW q \in Procs PROVE Locals(q)'
      <3>1. CASE q # p
        BY <1>6, <2>1, <3>1, <2>5, LocalsStay, NothingStored DEF Same, TypeOK
      <3>2. CASE q = p
        <4>1. slot'[p] = i /\ pc'[p] = "visit"
          BY <1>6, <2>1 DEF TypeOK
        <4> QED
          BY <1>6, <2>1, <2>2, <3>2, <4>1 DEF Locals, Checking, Pointers
      <3> QED
        BY <3>1, <3>2
    <2>6. MovesCoverDepth'
      BY <1>6 DEF MovesCoverDepth, Pointers
    <2> QED
      BY <2>3, <2>4, <2>5, <2>6
  <1>7. ASSUME NEW p \in Procs, FollowSlot(p) PROVE IInv'
    <2> USE DEF FollowSlot, At, Goto, shared, mainVars
    <2>1. PICK s \in Deref(p) : target' = [target EXCEPT ![p] = s]
      BY <1>7
    <2>2. s \in Pointers
      <3>1. slot[p] = Dangling \/ slot[p] \in DOMAIN list
        BY <1>7 DEF Locals
      <3>2. slot[p] \in DOMAIN list => list[slot[p]] \in Pointers
        BY ElementOfSeq, LenProperties DEF TypeOK
      <3>3. Dangling \notin DOMAIN list
        BY LenProperties DEF TypeOK
      <3> QED
        BY <2>1, <3>1, <3>2, <3>3 DEF Deref
    <2>3. TypeOK'
      BY <1>7, <2>1, <2>2 DEF TypeOK, Pointers, Labels
    <2>4. Phases'
      <3>1. PICK l \in {"load", "cas"} : pc' = [pc EXCEPT ![p] = l]
        BY <1>7
      <3> QED
        BY <1>7, <1>pc, <3>1, CheckerMoves DEF Checking
    <2>5. ASSUME NEW q \in Procs PROVE Locals(q)'
      <3>1. CASE q # p
        BY <1>7, <2>1, <3>1, <2>5, LocalsStay, NothingStored DEF Same, TypeOK
      <3>2. CASE q = p
        <4>1. target'[p] = s /\ Pointers' = Pointers
              /\ pc'[p] = IF pc[p] = "visit" THEN "load" ELSE "cas"
          BY <1>7, <2>1 DEF TypeOK, Pointers
        <4> QED
          BY <1>7, <2>2, <3>2, <4>1 DEF Locals, Checking
      <3> QED
        BY <3>1, <3>2
    <2>6. MovesCoverDepth'
      BY <1>7 DEF MovesCoverDepth, Pointers
    <2> QED
      BY <2>3, <2>4, <2>5, <2>6
  <1>8. ASSUME NEW p \in Procs, VisitDone(p) PROVE IInv'
    <2>1. pc[p] \in Checking /\ queue' \in Seq(Pointers)
      BY <1>8 DEF VisitDone, At, Checking, TypeOK, shared
    <2> QED
      BY <1>8, <2>1, AdvanceKeeps DEF VisitDone, shared
  <1>9. ASSUME NEW p \in Procs, VisitDeeper(p) PROVE IInv'
    <2> USE DEF VisitDeeper, At, Goto, shared, mainVars
    <2>1. target[p] \in Pointers /\ heap[target[p]].depth \in Nat
      <3>1. target[p] \in Pointers
        BY <1>9 DEF Locals
      <3>2. heap[target[p]] \in CubeState
        BY <3>1, ElementOfSeq, LenProperties DEF TypeOK, Pointers
      <3> QED
        BY <3>1, <3>2 DEF CubeState
    <2>2. TypeOK'
      BY <1>9, <2>1 DEF TypeOK, Pointers, Labels
    <2>3. Phases'
      BY <1>9, <1>pc, CheckerMoves DEF Checking
    <2>4. ASSUME NEW q \in Procs PROVE Locals(q)'
      <3>1. CASE q # p
        BY <1>9, <3>1, <2>4, LocalsStay, NothingStored DEF Same, TypeOK
      <3>2. CASE q = p
        <4>1. seen'[p] = heap[target[p]].depth /\ pc'[p] = "again"
          BY <1>9 DEF TypeOK
        <4>2. slot[p] = Dangling \/ slot[p] \in DOMAIN list
          BY <1>9 DEF Locals
        <4> QED
          BY <1>9, <2>1, <3>2, <4>1, <4>2 DEF Locals, Checking, Pointers
      <3> QED
        BY <3>1, <3>2
    <2>5. MovesCoverDepth'
      BY <1>9 DEF MovesCoverDepth, Pointers
    <2> QED
      BY <2>2, <2>3, <2>4, <2>5
  <1>10. ASSUME NEW p \in Procs, CasDepth(p) PROVE IInv'
    <2>1. /\ heap' \in Seq(CubeState)
          /\ Pointers' = Pointers
          /\ \A s \in Pointers : /\ heap'[s].moves = heap[s].moves
                                 /\ heap'[s].depth <= heap[s].depth
      BY <1>10, CasLowers
    <2> USE DEF CasDepth, At, Goto, shared, mainVars, local
    <2>2. TypeOK'
      BY <1>10, <2>1 DEF TypeOK, Labels
    <2>3. Phases'
      BY <1>10, <1>pc, CheckerMoves DEF Checking
    <2>4. ASSUME NEW q \in Procs PROVE Locals(q)'
      <3>1. CASE q # p
        <4>1. Grows
          BY <1>10, <2>1 DEF Grows
        <4>2. Same(q)
          BY <1>10, <3>1, <2>4 DEF Same, TypeOK
        <4> QED
          BY <4>1, <4>2, <2>4, LocalsStay
      <3>2. CASE q = p
        <4>1. pc'[p] = "visit" /\ cur[p] \in Pointers /\ new[p].by = p
              /\ Len(new[p].moves) = new[p].depth
              /\ (slot[p] = Dangling \/ slot[p] \in DOMAIN list)
          BY <1>10 DEF TypeOK, Locals, Checking
        <4> QED
          BY <1>10, <2>1, <3>2, <4>1 DEF Locals, Checking
      <3> QED
        BY <3>1, <3>2
    <2>5. MovesCoverDepth'
      <3>1. ASSUME NEW s \in Pointers PROVE heap'[s].depth <= Len(heap'[s].moves)
        <4>1. heap[s] \in CubeState /\ heap'[s] \in CubeState
          BY <2>1, ElementOfSeq, LenProperties DEF TypeOK, Pointers
        <4>2. heap[s].depth \in Nat /\ heap'[s].depth \in Nat /\ Len(heap[s].moves) \in Nat
          BY <4>1, LenProperties DEF CubeState
        <4> QED
          BY <2>1, <4>2 DEF MovesCoverDepth
      <3> QED
        BY <2>1, <3>1 DEF MovesCoverDepth
    <2> QED
      BY <2>2, <2>3, <2>4, <2>5
  <1>11. ASSUME NEW p \in Procs, Insert(p) PROVE IInv'
    <2> USE DEF Insert, At, Goto, mainVars
    <2> DEFINE n == Len(heap) + 1
    <2>1. /\ new[p] \in CubeState
          /\ Len(new[p].moves) = new[p].depth
          /\ cur[p] \in Pointers
      BY <1>11 DEF TypeOK, Locals, Checking
    <2>2. /\ heap' \in Seq(CubeState)
          /\ Pointers' = Pointers \cup {n}
          /\ \A t \in Pointers : heap'[t] = heap[t]
          /\ heap'[n] = new[p]
          /\ list' \in Seq(Pointers')
          /\ capacity' \in Nat /\ Len(list') < capacity'
          /\ slot' \in [Procs -> Nat \cup {Dangling}]
          /\ \A q \in Procs : slot'[q] \in {slot[q], Dangling}
          /\ Grows
      BY <1>11, <2>1, Stores
    <2>3. TypeOK'
      <3>1. queue' \in Seq(Pointers')
        BY <1>11, <2>2, SeqMonotonic DEF TypeOK
      <3> QED
        BY <1>11, <2>2, <3>1 DEF TypeOK, Labels
    <2>4. Phases'
      BY <1>11, <1>pc, CheckerMoves DEF Checking
    <2>5. ASSUME NEW q \in Procs PROVE Locals(q)'
      <3>1. CASE q # p
        <4>1. Same(q)
          BY <1>11, <2>2, <3>1, <2>5 DEF Same, TypeOK
        <4> QED
          BY <4>1, <2>2, <2>5, LocalsStay
      <3>2. CASE q = p
        <4>1. pc'[p] = "push" /\ cur'[p] = cur[p] /\ result'[p] = n
          BY <1>11 DEF TypeOK
        <4> QED
          BY <2>1, <2>2, <3>2, <4>1 DEF Locals, Checking
      <3> QED
        BY <3>1, <3>2
    <2>6. MovesCoverDepth'
      <3>1. new[p].depth \in Nat
        BY <2>1 DEF CubeState
      <3> QED
        BY <2>1, <2>2, <3>1 DEF MovesCoverDepth
    <2> QED
      BY <2>3, <2>4, <2>5, <2>6
  <1>12. ASSUME NEW p \in Procs, Push(p) PROVE IInv'
    <2>1. pc[p] \in Checking /\ result[p] \in Pointers
      BY <1>12 DEF Push, At, Checking, Locals
    <2>2. queue' \in Seq(Pointers)
      BY <1>12, <2>1, AppendProperties DEF Push, TypeOK
    <2> QED
      BY <1>12, <2>1, <2>2, AdvanceKeeps DEF Push
  <1>13. ASSUME NEW p \in Threads, QueueIsEmpty(p) \/ ReadIsSolved(p) PROVE IInv'
    <2> USE DEF QueueIsEmpty, ReadIsSolved, At, Goto, shared, mainVars, local
    <2>1. PICK l \in {"flag", "pop", "end"} : pc' = [pc EXCEPT ![p] = l]
      BY <1>13
    <2>2. p \in Procs /\ pc[p] \in {"empty", "flag"}
      BY <1>13 DEF Procs, Threads
    <2>3. TypeOK'
      BY <1>13, <2>1 DEF TypeOK, Pointers, Labels
    <2>4. Phases'
      BY <1>13, <1>pc, <2>1, <2>2, WorkerMoves
    <2>5. ASSUME NEW q \in Procs PROVE Locals(q)'
      <3>1. CASE q # p
        BY <1>13, <2>1, <3>1, <2>5, LocalsStay, NothingStored DEF Same, TypeOK
      <3>2. CASE q = p
        BY <1>pc, <2>1, <2>2, <3>2 DEF Locals, Checking
      <3> QED
        BY <3>1, <3>2
    <2>6. MovesCoverDepth'
      BY <1>13 DEF MovesCoverDepth, Pointers
    <2> QED
      BY <2>3, <2>4, <2>5, <2>6
  <1>14. ASSUME NEW p \in Threads, Pop(p) PROVE IInv'
    <2> USE DEF Pop, At, Goto, mainVars
    <2>1. p \in Procs
      BY DEF Procs, Threads
    <2>2. Head(queue) \in Pointers /\ Tail(queue) \in Seq(Pointers)
      BY <1>14, HeadTailProperties DEF TypeOK
    <2>3. TypeOK'
      BY <1>14, <2>2 DEF TypeOK, Pointers, Labels
    <2>4. Phases'
      BY <1>14, <1>pc, WorkerMoves DEF Checking
    <2>5. ASSUME NEW q \in Procs PROVE Locals(q)'
      <3>1. CASE q # p
        BY <1>14, <3>1, <2>5, LocalsStay, NothingStored DEF Same, TypeOK
      <3>2. CASE q = p
        <4>1. pc'[p] = "compare" /\ cur'[p] = Head(queue)
          BY <1>14, <2>1 DEF TypeOK
        <4> QED
          BY <1>14, <2>2, <3>2, <4>1 DEF Locals, Checking, Pointers
      <3> QED
        BY <3>1, <3>2
    <2>6. MovesCoverDepth'
      BY <1>14 DEF MovesCoverDepth, Pointers
    <2> QED
      BY <2>3, <2>4, <2>5, <2>6
  <1>15. CASE Start
    <2> USE DEF Start, At, Goto, mainVars
    <2> DEFINE n == Len(heap) + 1
    <2>0. Main \in Procs /\ pc[Main] = "start"
      BY <1>15 DEF Procs
    <2>1. PICK c \in Cubes :
            StorageInsert([cube |-> c, moves |-> <<>>, depth |-> 0, by |-> Main])
      BY <1>15
    <2> DEFINE s == [cube |-> c, moves |-> <<>>, depth |-> 0, by |-> Main]
    <2>2. s \in CubeState /\ s.depth = 0 /\ s.moves = <<>>
      <3>1. <<>> \in Seq(Moves)
        BY EmptySeq
      <3> QED
        BY <2>0, <3>1 DEF CubeState
    <2>3. /\ heap' \in Seq(CubeState)
          /\ Pointers' = Pointers \cup {n}
          /\ \A t \in Pointers : heap'[t] = heap[t]
          /\ heap'[n] = s
          /\ list' \in Seq(Pointers')
          /\ capacity' \in Nat /\ Len(list') < capacity'
          /\ slot' \in [Procs -> Nat \cup {Dangling}]
          /\ \A q \in Procs : slot'[q] \in {slot[q], Dangling}
          /\ Grows
      <3>1. StorageInsert(s)
        BY <2>1
      <3> QED
        BY <2>2, <3>1, Stores
    <2>4. TypeOK'
      <3>1. queue' \in Seq(Pointers')
        BY <1>15, <2>3, SeqMonotonic DEF TypeOK
      <3> QED
        BY <1>15, <2>3, <3>1 DEF TypeOK, Labels
    <2>5. Phases'
      BY <1>15, <1>pc, MainMoves DEF Checking
    <2>6. ASSUME NEW q \in Procs PROVE Locals(q)'
      <3>1. CASE q # Main
        <4>1. Same(q)
          BY <1>15, <2>3, <3>1, <2>6 DEF Same, TypeOK
        <4> QED
          BY <4>1, <2>3, <2>6, LocalsStay
      <3>2. CASE q = Main
        <4>1. pc'[Main] = "compare" /\ cur'[Main] = n
          BY <1>15, <2>0 DEF TypeOK
        <4> QED
          BY <2>3, <3>2, <4>1 DEF Locals, Checking
      <3> QED
        BY <3>1, <3>2
    <2>7. MovesCoverDepth'
      <3>1. Len(<<>>) = 0
        BY EmptySeq
      <3>2. heap'[n].depth = 0 /\ Len(heap'[n].moves) = 0
        BY <2>2, <2>3, <3>1
      <3>3. \A t \in Pointers : heap'[t].depth <= Len(heap'[t].moves)
        BY <2>3 DEF MovesCoverDepth
      <3>4. \A t \in Pointers' : heap'[t].depth <= Len(heap'[t].moves)
        BY <2>3, <3>2, <3>3
      <3> QED
        BY <3>4 DEF MovesCoverDepth
    <2> QED
      BY <2>4, <2>5, <2>6, <2>7
  <1>16. CASE Spawn
    <2> USE DEF Spawn, At, shared, mainVars, local
    <2>1. \A q \in Procs : pc'[q] = IF q = Main THEN "join" ELSE "empty"
      BY <1>16
    <2>2. TypeOK'
      BY <1>16 DEF TypeOK, Pointers, Labels
    <2>3. Phases'
      BY <1>16, <2>1 DEF Phases, Procs, Threads
    <2>4. ASSUME NEW q \in Procs PROVE Locals(q)'
      BY <2>1, <2>4 DEF Locals, Checking
    <2>5. MovesCoverDepth'
      BY <1>16 DEF MovesCoverDepth, Pointers
    <2> QED
      BY <2>2, <2>3, <2>4, <2>5
  <1>17. CASE Join
    <2> USE DEF Join, At, Goto, shared, local
    <2> DEFINE w == joined + 1
    <2>1. Main \in Procs /\ pc[Main] = "join" /\ w \in Threads /\ w \in Procs
      BY <1>17, <1>pc DEF Phases, Procs, Threads
    <2>2. PICK l \in {"report", "join"} :
            /\ pc' = [pc EXCEPT ![Main] = l]
            /\ l = "report" <=> w = NumThreads
      BY <1>17
    <2>3. \A q \in Procs : pc'[q] = IF q = Main THEN l ELSE pc[q]
      BY <1>pc, <2>2
    <2>4. TypeOK'
      <3>1. finalState' \in Pointers \cup {Null}
        BY <1>17, <2>1 DEF TypeOK, KeepFirst
      <3>2. joined' \in 0..NumThreads
        BY <1>17, <2>1 DEF Threads
      <3> QED
        BY <1>17, <2>2, <3>1, <3>2 DEF TypeOK, Pointers, Labels
    <2>5. Phases'
      <3>1. \A q \in 1..w : pc[q] = "end"
        BY <1>17, <1>pc, <2>1 DEF Phases
      <3>2. \A q \in Threads : q \in Procs /\ q # Main /\ pc'[q] = pc[q]
        BY <2>3 DEF Procs, Threads
      <3>3. \A q \in 1..w : pc'[q] = "end"
        BY <3>1, <3>2, <2>1 DEF Threads
      <3>4. CASE l = "join"
        <4>1. joined' = w /\ w < NumThreads
          BY <1>17, <2>1, <2>2, <3>4 DEF Threads
        <4> QED
          BY <2>1, <2>3, <3>2, <3>3, <3>4, <4>1 DEF Phases
      <3>5. CASE l = "report"
        <4>1. \A q \in Threads : pc'[q] = "end"
          BY <2>2, <3>3, <3>5 DEF Threads
        <4> QED
          BY <2>1, <2>3, <3>5, <4>1 DEF Phases
      <3> QED
        BY <3>4, <3>5
    <2>6. ASSUME NEW q \in Procs PROVE Locals(q)'
      <3>1. CASE q # Main
        BY <1>17, <2>3, <3>1, <2>6, LocalsStay, NothingStored DEF Same
      <3>2. CASE q = Main
        BY <2>3, <3>2 DEF Locals, Checking
      <3> QED
        BY <3>1, <3>2
    <2>7. MovesCoverDepth'
      BY <1>17 DEF MovesCoverDepth, Pointers
    <2> QED
      BY <2>4, <2>5, <2>6, <2>7
  <1>18. CASE Report
    <2>1. CASE isSolved /\ finalState = Null
      BY <1>18, <2>1, DieKeeps DEF Report, Crashes
    <2>2. CASE ~(isSolved /\ finalState = Null)
      <3> USE DEF Report, At, Goto, local
      <3>1. /\ pc[Main] = "report" /\ pc' = [pc EXCEPT ![Main] = "end"]
            /\ queue' = <<>> /\ list' = <<>>
            /\ UNCHANGED <<heap, capacity, isSolved, finalState, joined, crash, local>>
            /\ printed' = IF isSolved
                          THEN SubSeq(heap[finalState].moves, 1, heap[finalState].depth)
                          ELSE <<>>
        BY <1>18, <2>2
      <3>2. printed' \in Seq(Moves)
        <4>1. CASE isSolved
          <5> DEFINE s == heap[finalState]
          <5>1. finalState \in Pointers
            BY <2>2, <4>1 DEF TypeOK
          <5>2. s \in CubeState
            BY <5>1, ElementOfSeq, LenProperties DEF TypeOK, Pointers
          <5>3. s.moves \in Seq(Moves) /\ s.depth \in Nat /\ Len(s.moves) \in Nat
                /\ s.depth <= Len(s.moves)
            BY <5>1, <5>2, LenProperties DEF CubeState, MovesCoverDepth
          <5>4. \A i \in 1..s.depth : s.moves[i] \in Moves
            BY <5>3, ElementOfSeq
          <5>5. SubSeq(s.moves, 1, s.depth) \in Seq(Moves)
            BY <5>3, <5>4, SubSeqProperties
          <5> QED
            BY <3>1, <4>1, <5>5
        <4>2. CASE ~isSolved
          BY <3>1, <4>2, EmptySeq
        <4> QED
          BY <4>1, <4>2
      <3>3. TypeOK'
        <4>1. queue' \in Seq(Pointers') /\ list' \in Seq(Pointers')
          BY <3>1, EmptySeq
        <4>2. Len(list) \in Nat /\ Len(list') = 0 /\ Len(list') < capacity'
          BY <3>1, EmptySeq, LenProperties DEF TypeOK
        <4> QED
          BY <3>1, <3>2, <4>1, <4>2 DEF TypeOK, Pointers, Labels
      <3>4. Main \in Procs /\ \A q \in Threads : q \in Procs /\ q # Main
        BY DEF Procs, Threads
      <3>5. \A q \in Procs : pc'[q] \in {"idle", "end"}
        BY <1>pc, <3>1 DEF Phases, Procs, Threads
      <3>6. Phases'
        BY <1>pc, <3>1, <3>4, <3>5 DEF Phases
      <3>7. ASSUME NEW q \in Procs PROVE Locals(q)'
        BY <3>5, <3>7 DEF Locals, Checking
      <3>8. MovesCoverDepth'
        BY <3>1 DEF MovesCoverDepth, Pointers
      <3> QED
        BY <3>3, <3>6, <3>7, <3>8
    <2> QED
      BY <2>1, <2>2
  <1>19. ASSUME NEW p \in Procs, CopyFault(p) \/ SlotFault(p) \/ PopNull(p) PROVE IInv'
    BY <1>19, DieKeeps DEF CopyFault, SlotFault, PopNull, Crashes
  <1>20. CASE StartFault
    BY <1>20, DieKeeps DEF StartFault, Crashes
  <1>21. CASE UNCHANGED vars
    <2> USE DEF vars, shared, mainVars, local
    <2>1. TypeOK'
      BY <1>21 DEF TypeOK, Pointers
    <2>2. Phases'
      BY <1>21 DEF Phases
    <2>3. ASSUME NEW q \in Procs PROVE Locals(q)'
      BY <1>21, <2>3 DEF Locals, Pointers
    <2>4. MovesCoverDepth'
      BY <1>21 DEF MovesCoverDepth, Pointers
    <2> QED
      BY <2>1, <2>2, <2>3, <2>4
  <1>22. ASSUME NEW p \in Procs, CheckState(p) PROVE IInv'
    BY <1>1, <1>2, <1>3, <1>4, <1>5, <1>6, <1>7, <1>8, <1>9, <1>10, <1>11, <1>12,
       <1>19, <1>22 DEF CheckState
  <1>23. ASSUME NEW p \in Threads, ThreadSolve(p) PROVE IInv'
    <2>1. p \in Procs
      BY DEF Procs, Threads
    <2> QED
      BY <1>13, <1>14, <1>19, <1>22, <1>23, <2>1 DEF ThreadSolve
  <1>24. CASE Solve
    <2>1. Main \in Procs
      BY DEF Procs
    <2> QED
      BY <1>15, <1>16, <1>17, <1>18, <1>20, <1>22, <1>24, <2>1 DEF Solve
  <1> QED
    BY <1>21, <1>23, <1>24 DEF Next, Stopped

(* In every reachable state each variable has its type, the phases of main *)
(* and of the workers fit together, no process follows a pointer it does   *)
(* not have, and the moves of a stored state cover its depth.              *)
THEOREM Invariance == Spec => []IInv
  <1> QED
    BY InitIInv, NextIInv, PTL DEF Spec

THEOREM TypeCorrect == Spec => []TypeOK
  <1>1. IInv => TypeOK
    BY DEF IInv
  <1> QED
    BY <1>1, Invariance, PTL
------------------------------------------------------------------------------
(* What is stored only changes in one way: a compare-and-swap lowers one   *)
(* depth.  The two actions that store append, the others leave heap alone. *)
LEMMA StoringKeeps ==
  ASSUME TypeOK, NEW s \in CubeState, StorageInsert(s)
  PROVE  \A t \in Pointers : /\ heap'[t].depth <= heap[t].depth
                             /\ heap'[t].cube = heap[t].cube
                             /\ heap'[t].moves = heap[t].moves
  <1>1. \A t \in Pointers : heap'[t] = heap[t]
    BY Stores
  <1>2. \A t \in Pointers : heap[t].depth \in Nat
    <2> TAKE t \in Pointers
    <2>1. heap[t] \in CubeState
      BY ElementOfSeq, LenProperties DEF TypeOK, Pointers
    <2> QED
      BY <2>1 DEF CubeState
  <1> QED
    BY <1>1, <1>2

LEMMA NextLowers ==
  ASSUME IInv, [Next]_vars
  PROVE  [\A s \in Pointers : heap'[s].depth <= heap[s].depth
                              /\ heap'[s].cube = heap[s].cube
                              /\ heap'[s].moves = heap[s].moves]_heap
  <1> DEFINE Lowers == \A s \in Pointers : heap'[s].depth <= heap[s].depth
                                           /\ heap'[s].cube = heap[s].cube
                                           /\ heap'[s].moves = heap[s].moves
  <1> SUFFICES Lowers \/ heap' = heap
    OBVIOUS
  <1>1. ASSUME NEW p \in Procs, CheckState(p) PROVE Lowers \/ heap' = heap
    <2>1. CASE CasDepth(p)
      BY <2>1, CasLowers
    <2>2. CASE Insert(p)
      <3>1. new[p] \in CubeState
        BY DEF IInv, TypeOK
      <3> QED
        BY <2>2, <3>1, StoringKeeps DEF IInv, Insert
    <2>3. CASE ~CasDepth(p) /\ ~Insert(p)
      BY <1>1, <2>3 DEF CheckState, CompareSolved, CompareOther, NextDepth, CopyMoves,
         CopyFault, LookupMiss, LookupHit, FollowSlot, SlotFault, VisitDone, VisitDeeper,
         Push, Die, shared
    <2> QED
      BY <2>1, <2>2, <2>3
  <1>2. ASSUME NEW p \in Threads, ThreadSolve(p) PROVE Lowers \/ heap' = heap
    <2>1. p \in Procs
      BY DEF Procs, Threads
    <2>2. CASE CheckState(p)
      BY <1>1, <2>1, <2>2
    <2>3. CASE ~CheckState(p)
      BY <1>2, <2>3 DEF ThreadSolve, QueueIsEmpty, ReadIsSolved, Pop, PopNull, Die, shared
    <2> QED
      BY <2>2, <2>3
  <1>3. CASE Start
    <2>1. PICK c \in Cubes :
            StorageInsert([cube |-> c, moves |-> <<>>, depth |-> 0, by |-> Main])
      BY <1>3 DEF Start
    <2>2. <<>> \in Seq(Moves) /\ Main \in Procs
      BY EmptySeq DEF Procs
    <2>3. [cube |-> c, moves |-> <<>>, depth |-> 0, by |-> Main] \in CubeState
      BY <2>2 DEF CubeState
    <2> QED
      BY <2>1, <2>3, StoringKeeps DEF IInv
  <1>4. CASE StartFault \/ Spawn \/ Join \/ Report \/ UNCHANGED vars
    BY <1>4 DEF StartFault, Spawn, Join, Report, Die, vars, shared
  <1>5. Main \in Procs
    BY DEF Procs
  <1> QED
    BY <1>1, <1>2, <1>3, <1>4, <1>5 DEF Next, Solve, Stopped

(* No step raises the depth of a stored state, or changes its cube or its  *)
(* moves, although threads lower depths without a lock, through locations  *)
(* that need not denote the state they were looked up for any more.        *)
THEOREM DepthsFall == Spec => DepthsNeverRise
  <1>1. IInv /\ [Next]_vars =>
          [\A s \in Pointers : heap'[s].depth <= heap[s].depth
                               /\ heap'[s].cube = heap[s].cube
                               /\ heap'[s].moves = heap[s].moves]_heap
    BY NextLowers
  <1> QED
    BY <1>1, Invariance, PTL DEF Spec, DepthsNeverRise
==============================================================================
