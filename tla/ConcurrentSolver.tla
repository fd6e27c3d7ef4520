--------------------------- MODULE ConcurrentSolver ---------------------------
(***************************************************************************)
(* Solver/concurrent_solver.c over Storage/concurrent_arraylist.c: the     *)
(* main thread checks the starting cube, starts the worker threads, joins  *)
(* them and reports; every worker pops a CubeState from the shared queue   *)
(* and check_state turns it in all ways, looks every result up in the      *)
(* shared sorted list, and stores and enqueues the new ones.               *)
(*                                                                         *)
(* Grain.  One action is one access to memory that other threads write:    *)
(* the read of queue->head or *isSolved, one queue operation, one critical *)
(* section of the list's mutex, one read of a slot of the list without     *)
(* it, one load or compare-and-swap of a depth field.  Everything a thread *)
(* does to memory of its own is part of the action it goes with.  Queue    *)
(* operations are atomic here.                                             *)
(***************************************************************************)
EXTENDS CubeGraph, Sequences

CONSTANTS
  NumThreads,    \* THREADS, 10 in the program
  InitCapacity,  \* slots storage_create allocates, 8 in the program
  CopyOutcomes   \* what cube_copy may do through the field CubeState.cube.
                 \* Nothing allocates a buffer for it: solve leaves it NULL
                 \* and cube_state_next leaves it uninitialised.  "fault"
                 \* kills the process; "copied" is the outcome in which the
                 \* field happens to designate 20 usable bytes.

ASSUME SolverAssumption ==
  /\ NumThreads \in Nat \ {0}
  /\ InitCapacity \in Nat \ {0, 1}
  /\ CopyOutcomes \subseteq {"copied", "fault"}

Main == 0
Threads == 1..NumThreads
Procs == 0..NumThreads

Null == 0        \* a NULL CubeState pointer, or a NULL location in the list
Dangling == -1   \* a location inside a block that realloc has freed

VARIABLES
  heap,        \* the CubeStates that were ever stored, in that order: a
               \* CubeState pointer is an index of heap
  list,        \* storage->data[0 .. size-1], a sequence of pointers
  capacity,    \* storage->capacity
  queue,       \* the queue's items, head first
  isSolved,    \* the flag all threads share
  finalState,  \* main: startThreads' finalState
  joined,      \* main: how many workers startThreads has joined
  printed,     \* main: the turns solve printed
  crash,       \* what killed the process, "none" while it runs
  pc,          \* where each process is
  cur,         \* the CubeState a process is checking
  move,        \* check_state: the turn of the loops, a change_id
  new,         \* check_state: the CubeState cube_state_next made
  slot,        \* the callback's loc: an index of list, Null or Dangling
  target,      \* what the callback read there last, its *loc
  seen,        \* the callback's depth
  result,      \* check_state: what storage_do returned, once it is stored
  ret          \* what thread_solve returned

shared == <<heap, list, capacity, queue, isSolved>>
mainVars == <<finalState, joined, printed>>
local == <<cur, move, new, slot, target, seen, result, ret>>
vars == <<shared, mainVars, crash, pc, local>>

Labels == {"start", "idle", "empty", "flag", "pop", "compare", "depth", "copy",
           "lookup", "visit", "load", "again", "cas", "insert", "push",
           "spawn", "join", "report", "end"}
Crashes == {"none", "cube", "pop", "slot", "report"}

(* The fields of CubeState.  "by" is history: the process that stored it.  *)
CubeState == [cube : Cubes, moves : Seq(Moves), depth : Nat, by : Procs]
NoState == [cube |-> Solved, moves |-> <<>>, depth |-> 0, by |-> Main]

Pointers == DOMAIN heap
CubeAt(i) == heap[list[i]].cube

TypeOK ==
  /\ heap \in Seq(CubeState)
  /\ list \in Seq(Pointers)
  /\ capacity \in Nat /\ Len(list) < capacity
  /\ queue \in Seq(Pointers)
  /\ isSolved \in BOOLEAN
  /\ finalState \in Pointers \cup {Null}
  /\ joined \in 0..NumThreads
  /\ printed \in Seq(Moves)
  /\ crash \in Crashes
  /\ pc \in [Procs -> Labels]
  /\ cur \in [Procs -> Pointers \cup {Null}]
  /\ move \in [Procs -> Moves]
  /\ new \in [Procs -> CubeState]
  /\ slot \in [Procs -> Nat \cup {Dangling}]
  /\ target \in [Procs -> Pointers \cup {Null}]
  /\ seen \in [Procs -> Nat]
  /\ result \in [Procs -> Pointers \cup {Null}]
  /\ ret \in [Procs -> Pointers \cup {Null}]

Init ==
  /\ heap = <<>>
  /\ list = <<>>
  /\ capacity = InitCapacity
  /\ queue = <<>>
  /\ isSolved = FALSE
  /\ finalState = Null
  /\ joined = 0
  /\ printed = <<>>
  /\ crash = "none"
  /\ pc = [p \in Procs |-> IF p = Main THEN "start" ELSE "idle"]
  /\ cur = [p \in Procs |-> Null]
  /\ move = [p \in Procs |-> 0]
  /\ new = [p \in Procs |-> NoState]
  /\ slot = [p \in Procs |-> Null]
  /\ target = [p \in Procs |-> Null]
  /\ seen = [p \in Procs |-> 0]
  /\ result = [p \in Procs |-> Null]
  /\ ret = [p \in Procs |-> Null]
------------------------------------------------------------------------------
(* The storage: a sorted array behind one mutex.                           *)

(* A wrong Matches, to test: it overlooks the last entry.                  *)
MatchesBug(c) == {i \in DOMAIN list : CubeAt(i) = c /\ i < Len(list)}

(* storage_location_of returns the location of some entry whose cube       *)
(* compares equal, and NULL if there is none.                              *)
Matches(c) == {i \in DOMAIN list : CubeAt(i) = c}

(* A wrong StopsAt, to test: it puts every entry at the end.               *)
StopsAtBug(c, k) == k = Len(list)

(* The index after which storage_insert's loop stops: entries with a       *)
(* greater cube have moved up one slot, the entry at k compares no less.   *)
StopsAt(c, k) ==
  /\ \A j \in DOMAIN list : j > k => c < CubeAt(j)
  /\ k > 0 => c >= CubeAt(k)

(* storage_resize: realloc may extend the block in place or move it, and   *)
(* then every location handed out before lies in freed memory.             *)
Resize ==
  IF Len(list) = capacity - 1
  THEN /\ capacity' = 2 * capacity
       /\ slot' \in {slot, [p \in Procs |-> IF slot[p] = Null THEN Null
                                            ELSE Dangling]}
  ELSE UNCHANGED <<capacity, slot>>

StorageInsert(s) ==
  /\ heap' = Append(heap, s)
  /\ \E k \in 0..Len(list) :
       /\ StopsAt(s.cube, k)
       /\ list' = [j \in 1..(Len(list) + 1) |->
                     IF j <= k THEN list[j]
                     ELSE IF j = k + 1 THEN Len(heap) + 1 ELSE list[j - 1]]
  /\ Resize

(* The CubeStates that *loc may denote when a callback follows it, without *)
(* the mutex: whatever the slot holds by now; anything once it dangles.    *)
Deref(p) == IF slot[p] = Dangling THEN Pointers ELSE {list[slot[p]]}
------------------------------------------------------------------------------
(* Steps of a process.  All need a process that has not died.              *)

At(p, label) == crash = "none" /\ pc[p] = label

Goto(p, label) == pc' = [pc EXCEPT ![p] = label]

Die(reason) ==
  /\ crash' = reason
  /\ UNCHANGED <<shared, mainVars, pc, local>>

(* solve up to its call of check_state: the starting cube is copied into   *)
(* current->cube and current is stored.                                    *)
Start ==
  /\ At(Main, "start")
  /\ "copied" \in CopyOutcomes
  /\ \E c \in Cubes :
       StorageInsert([cube |-> c, moves |-> <<>>, depth |-> 0, by |-> Main])
  /\ cur' = [cur EXCEPT ![Main] = Len(heap) + 1]
  /\ Goto(Main, "compare")
  /\ UNCHANGED <<queue, isSolved, mainVars, crash, move, new, target, seen,
                 result, ret>>

StartFault ==
  /\ At(Main, "start")
  /\ "fault" \in CopyOutcomes
  /\ Die("cube")

(* check_state's first test, and what its caller does with a TRUE: main    *)
(* sets finalState and *isSolved, a worker sets *isSolved and returns.     *)
CompareSolved(p) ==
  /\ At(p, "compare")
  /\ heap[cur[p]].cube = Solved
  /\ isSolved' = TRUE
  /\ IF p = Main
     THEN /\ finalState' = cur[p]
          /\ Goto(p, "report")
          /\ UNCHANGED ret
     ELSE /\ ret' = [ret EXCEPT ![p] = cur[p]]
          /\ Goto(p, "end")
          /\ UNCHANGED finalState
  /\ cur' = [cur EXCEPT ![p] = Null]
  /\ UNCHANGED <<heap, list, capacity, queue, joined, printed, crash, move, new,
                 slot, target, seen, result>>

CompareOther(p) ==
  /\ At(p, "compare")
  /\ heap[cur[p]].cube # Solved
  /\ Goto(p, "depth")
  /\ UNCHANGED <<shared, mainVars, crash, local>>

(* cube_state_next reads curr->depth for the new depth ...                 *)
NextDepth(p) ==
  /\ At(p, "depth")
  /\ LET s == heap[cur[p]] IN
     new' = [new EXCEPT ![p] = [cube |-> Turn[s.cube][move[p]], moves |-> <<>>,
                                depth |-> s.depth + 1, by |-> p]]
  /\ Goto(p, "copy")
  /\ UNCHANGED <<shared, mainVars, crash, cur, move, slot, target,
                 seen, result, ret>>

(* A wrong CopiedMoves, to test: it puts the new turn first.               *)
CopiedMovesBug(s, len, depth, m) ==
  [i \in 1..depth |-> IF i = 1 THEN m ELSE IF i <= len THEN s.moves[i] ELSE 0]

(* ... and again in the condition of the loop that copies the moves.  The  *)
(* field may be lowered meanwhile: the loop then stops anywhere between    *)
(* its latest and its first value, and calloc's zeros stay behind it.      *)
CopiedMoves(s, len, depth, m) ==
  [i \in 1..depth |-> IF i = depth THEN m ELSE IF i <= len THEN s.moves[i] ELSE 0]

CopyMoves(p) ==
  /\ At(p, "copy")
  /\ "copied" \in CopyOutcomes
  /\ \E len \in heap[cur[p]].depth..(new[p].depth - 1) :
       new' = [new EXCEPT ![p].moves =
                 CopiedMoves(heap[cur[p]], len, new[p].depth, move[p])]
  /\ Goto(p, "lookup")
  /\ UNCHANGED <<shared, mainVars, crash, cur, move, slot, target,
                 seen, result, ret>>

CopyFault(p) ==
  /\ At(p, "copy")
  /\ "fault" \in CopyOutcomes
  /\ Die("cube")
------------------------------------------------------------------------------
(* The rest of one turn of check_state: storage_do and what follows it.    *)

(* A wrong Advance, to test: it makes one turn too many.                   *)
AdvanceBug(p) ==
  /\ IF move[p] < NumMoves
     THEN /\ move' = [move EXCEPT ![p] = @ + 1]
          /\ Goto(p, "depth")
          /\ UNCHANGED cur
     ELSE /\ move' = [move EXCEPT ![p] = 0]
          /\ Goto(p, IF p = Main THEN "spawn" ELSE "empty")
          /\ cur' = [cur EXCEPT ![p] = Null]
  /\ new' = [new EXCEPT ![p] = NoState]
  /\ slot' = [slot EXCEPT ![p] = Null]
  /\ target' = [target EXCEPT ![p] = Null]
  /\ seen' = [seen EXCEPT ![p] = 0]
  /\ result' = [result EXCEPT ![p] = Null]
  /\ UNCHANGED ret

(* On to the next turn of the loops; after the last one check_state        *)
(* returns FALSE, main goes on to start the threads and a worker to its    *)
(* while condition.  The locals of the turn go out of scope.               *)
Advance(p) ==
  /\ IF move[p] + 1 < NumMoves
     THEN /\ move' = [move EXCEPT ![p] = @ + 1]
          /\ Goto(p, "depth")
          /\ UNCHANGED cur
     ELSE /\ move' = [move EXCEPT ![p] = 0]
          /\ Goto(p, IF p = Main THEN "spawn" ELSE "empty")
          /\ cur' = [cur EXCEPT ![p] = Null]
  /\ new' = [new EXCEPT ![p] = NoState]
  /\ slot' = [slot EXCEPT ![p] = Null]
  /\ target' = [target EXCEPT ![p] = Null]
  /\ seen' = [seen EXCEPT ![p] = 0]
  /\ result' = [result EXCEPT ![p] = Null]
  /\ UNCHANGED ret

(* storage_location_of holds the mutex only while it searches.  Without a  *)
(* match the callback returns new at once, and new is to be inserted.      *)
LookupMiss(p) ==
  /\ At(p, "lookup")
  /\ Matches(new[p].cube) = {}
  /\ Goto(p, "insert")
  /\ UNCHANGED <<shared, mainVars, crash, local>>

LookupHit(p) ==
  /\ At(p, "lookup")
  /\ \E i \in Matches(new[p].cube) : slot' = [slot EXCEPT ![p] = i]
  /\ Goto(p, "visit")
  /\ UNCHANGED <<shared, mainVars, crash, cur, move, new, target, seen,
                 result, ret>>

(* solver_update_cubestate's loop on a match: each time round it reads     *)
(* *loc, without the mutex, ...                                            *)
FollowSlot(p) ==
  /\ At(p, "visit") \/ At(p, "again")
  /\ \E s \in Deref(p) : target' = [target EXCEPT ![p] = s]
  /\ Goto(p, IF pc[p] = "visit" THEN "load" ELSE "cas")
  /\ UNCHANGED <<shared, mainVars, crash, cur, move, new, slot, seen, result, ret>>

(* (which may also fault once it dangles)                                  *)
SlotFault(p) ==
  /\ At(p, "visit") \/ At(p, "again")
  /\ slot[p] = Dangling
  /\ Die("slot")

(* ... loads the depth, returns NULL when that is no greater than new's,   *)
(* whereupon check_state destroys new (the only way out of the loop), ...  *)
VisitDone(p) ==
  /\ At(p, "load")
  /\ heap[target[p]].depth <= new[p].depth
  /\ Advance(p)
  /\ UNCHANGED <<shared, mainVars, crash>>

(* A wrong VisitDeeper, to test: it tests >= where the loop's exit has <=. *)
VisitDeeperOrEqual(p) ==
  /\ At(p, "load")
  /\ heap[target[p]].depth >= new[p].depth
  /\ seen' = [seen EXCEPT ![p] = heap[target[p]].depth]
  /\ Goto(p, "again")
  /\ UNCHANGED <<shared, mainVars, crash, cur, move, new, slot, target, result, ret>>

VisitDeeper(p) ==
  /\ At(p, "load")
  /\ heap[target[p]].depth > new[p].depth
  /\ seen' = [seen EXCEPT ![p] = heap[target[p]].depth]
  /\ Goto(p, "again")
  /\ UNCHANGED <<shared, mainVars, crash, cur, move, new, slot, target, result, ret>>

(* A wrong CasDepth, to test: it stores without comparing.                 *)
CasDepthBlind(p) ==
  /\ At(p, "cas")
  /\ heap' = [heap EXCEPT ![target[p]].depth = new[p].depth]
  /\ Goto(p, "visit")
  /\ UNCHANGED <<list, capacity, queue, isSolved, mainVars, crash, local>>

(* A wrong CasDepth, to test: it enqueues the lowered state again.         *)
CasDepthRequeue(p) ==
  /\ At(p, "cas")
  /\ IF heap[target[p]].depth = seen[p]
     THEN /\ heap' = [heap EXCEPT ![target[p]].depth = new[p].depth]
          /\ queue' = Append(queue, target[p])
     ELSE UNCHANGED <<heap, queue>>
  /\ Goto(p, "visit")
  /\ UNCHANGED <<list, capacity, isSolved, mainVars, crash, local>>

(* ... reads *loc once more and tries to exchange that depth for new's: it *)
(* stores the depth and nothing else of new, and the loop goes round       *)
(* whether it succeeded or not.                                            *)
CasDepth(p) ==
  /\ At(p, "cas")
  /\ heap' = IF heap[target[p]].depth = seen[p]
             THEN [heap EXCEPT ![target[p]].depth = new[p].depth] ELSE heap
  /\ Goto(p, "visit")
  /\ UNCHANGED <<list, capacity, queue, isSolved, mainVars, crash, local>>

(* result == new: check_state inserts it, in a critical section of its own *)
Insert(p) ==
  /\ At(p, "insert")
  /\ StorageInsert(new[p])
  /\ result' = [result EXCEPT ![p] = Len(heap) + 1]
  /\ Goto(p, "push")
  /\ UNCHANGED <<queue, isSolved, mainVars, crash, cur, move, new, target, seen,
                 ret>>

(* A wrong Push, to test: it makes a stack of the queue.                   *)
PushFront(p) ==
  /\ At(p, "push")
  /\ queue' = <<result[p]>> \o queue
  /\ Advance(p)
  /\ UNCHANGED <<heap, list, capacity, isSolved, mainVars, crash>>

(* A wrong Push, to test: it drops an item unless the queue is empty.      *)
PushLost(p) ==
  /\ At(p, "push")
  /\ queue' = IF queue = <<>> THEN Append(queue, result[p]) ELSE queue
  /\ Advance(p)
  /\ UNCHANGED <<heap, list, capacity, isSolved, mainVars, crash>>

(* and enqueues it.                                                        *)
Push(p) ==
  /\ At(p, "push")
  /\ queue' = Append(queue, result[p])
  /\ Advance(p)
  /\ UNCHANGED <<heap, list, capacity, isSolved, mainVars, crash>>
------------------------------------------------------------------------------
(* thread_solve's loop.                                                    *)

(* A wrong QueueIsEmpty, to test: it takes one item for none.              *)
QueueIsEmptyBug(p) ==
  /\ At(p, "empty")
  /\ Goto(p, IF Len(queue) <= 1 THEN "end" ELSE "flag")
  /\ UNCHANGED <<shared, mainVars, crash, local>>

QueueIsEmpty(p) ==
  /\ At(p, "empty")
  /\ Goto(p, IF queue = <<>> THEN "end" ELSE "flag")
  /\ UNCHANGED <<shared, mainVars, crash, local>>

ReadIsSolved(p) ==
  /\ At(p, "flag")
  /\ Goto(p, IF isSolved THEN "end" ELSE "pop")
  /\ UNCHANGED <<shared, mainVars, crash, local>>

Pop(p) ==
  /\ At(p, "pop")
  /\ queue # <<>>
  /\ cur' = [cur EXCEPT ![p] = Head(queue)]
  /\ queue' = Tail(queue)
  /\ Goto(p, "compare")
  /\ UNCHANGED <<heap, list, capacity, isSolved, mainVars, crash, move, new, slot,
                 target, seen, result, ret>>

(* queue_pop returns NULL when another thread took the last item after the *)
(* test, and the next line prints current->depth.                          *)
PopNull(p) ==
  /\ At(p, "pop")
  /\ queue = <<>>
  /\ Die("pop")
------------------------------------------------------------------------------
(* main after its check_state: startThreads and the end of solve.          *)

Spawn ==
  /\ At(Main, "spawn")
  /\ pc' = [p \in Procs |-> IF p = Main THEN "join" ELSE "empty"]
  /\ UNCHANGED <<shared, mainVars, crash, local>>

(* A wrong KeepFirst, to test: it keeps the last result, NULL or not.      *)
KeepLast(kept, returned) == returned

(* The workers are joined in order; the first result that is not NULL is   *)
(* kept, later ones are dropped.                                           *)
KeepFirst(kept, returned) == IF kept = Null THEN returned ELSE kept

Join ==
  /\ At(Main, "join")
  /\ pc[joined + 1] = "end"
  /\ finalState' = KeepFirst(finalState, ret[joined + 1])
  /\ joined' = joined + 1
  /\ Goto(Main, IF joined + 1 = NumThreads THEN "report" ELSE "join")
  /\ UNCHANGED <<shared, printed, crash, local>>

(* solve prints the turns of finalState, one for each of its depth, and    *)
(* tears the queue and the storage down.  A NULL finalState would kill it. *)
Report ==
  /\ At(Main, "report")
  /\ IF isSolved /\ finalState = Null
     THEN Die("report")
     ELSE /\ printed' = IF isSolved
                        THEN SubSeq(heap[finalState].moves, 1, heap[finalState].depth)
                        ELSE <<>>
          /\ queue' = <<>>
          /\ list' = <<>>
          /\ Goto(Main, "end")
          /\ UNCHANGED <<heap, capacity, isSolved, finalState, joined, crash, local>>
------------------------------------------------------------------------------
CheckState(p) ==
  \/ CompareSolved(p) \/ CompareOther(p)
  \/ NextDepth(p) \/ CopyMoves(p) \/ CopyFault(p)
  \/ LookupMiss(p) \/ LookupHit(p)
  \/ FollowSlot(p) \/ SlotFault(p)
  \/ VisitDone(p) \/ VisitDeeper(p) \/ CasDepth(p)
  \/ Insert(p) \/ Push(p)

ThreadSolve(p) ==
  \/ QueueIsEmpty(p) \/ ReadIsSolved(p) \/ Pop(p) \/ PopNull(p)
  \/ CheckState(p)

Solve ==
  \/ Start \/ StartFault
  \/ CheckState(Main)
  \/ Spawn \/ Join \/ Report

Finished == pc[Main] = "end" \/ crash # "none"

(* The program has returned or died.                                       *)
Stopped == Finished /\ UNCHANGED vars

Next == Solve \/ (\E p \in Threads : ThreadSolve(p)) \/ Stopped

(* The operating system runs every thread that can run, and a mutex is     *)
(* only held inside an action, so no thread is ever kept from its next     *)
(* step.                                                                   *)
Fairness == WF_vars(Solve) /\ \A p \in Threads : WF_vars(ThreadSolve(p))

Spec == Init /\ [][Next]_vars
FairSpec == Spec /\ Fairness
------------------------------------------------------------------------------
(* Properties.                                                             *)

Stored == {heap[s].cube : s \in Pointers}

Verdict ==
  IF crash # "none" THEN "crashed"
  ELSE IF pc[Main] # "end" THEN "searching"
  ELSE IF isSolved THEN "solved" ELSE "unsolved"

Search == INSTANCE GraphSearch WITH known <- Stored, verdict <- Verdict

(* The threads implement GraphSearch: however their steps interleave, what *)
(* is stored grows by turns of stored cubes only, solve reports a solution *)
(* only if the solved cube was found, and comes back without one only when *)
(* no turn of any stored cube leads out of the storage, although a worker  *)
(* returns whenever it meets an empty queue (thread_solve, the while).     *)
ImplementsSearch == Search!Spec

(* The look-up and the insertion of check_state are two critical sections, *)
(* so two threads may both miss a cube and both store it; but one thread   *)
(* never stores the same cube twice, so there are at most as many copies   *)
(* as processes.                                                           *)
OneCopyPerThread ==
  \A s, t \in Pointers :
    s # t /\ heap[s].cube = heap[t].cube => heap[s].by # heap[t].by

(* Whatever the order of the insertions, storage->data is sorted, which is *)
(* what the binary search of storage_location_of relies on, and holds each *)
(* CubeState exactly once, so the teardown destroys each exactly once.     *)
StorageIsSorted ==
  pc[Main] # "end" =>
    /\ \A i, j \in DOMAIN list : i < j => CubeAt(i) <= CubeAt(j)
    /\ \A i, j \in DOMAIN list : list[i] = list[j] => i = j
    /\ {list[i] : i \in DOMAIN list} = Pointers

(* A CubeState is handed out at most once: it is never twice in the queue, *)
(* in the queue while a thread checks it, or checked by two threads.       *)
CheckedByOneThread ==
  /\ \A i, j \in DOMAIN queue : queue[i] = queue[j] => i = j
  /\ \A p \in Procs, i \in DOMAIN queue : cur[p] # queue[i]
  /\ \A p, q \in Procs : cur[p] = cur[q] /\ cur[p] # Null => p = q

(* Workers leave whenever they find the queue empty, but never all of them *)
(* while there is something to check: as long as nothing is solved and the *)
(* queue holds a state, some worker has not returned.                      *)
WorkIsAttended ==
  queue # <<>> /\ ~isSolved /\ pc[Main] \in {"join", "report"} =>
    \E p \in Threads : pc[p] # "end"

(* When a solution is announced, the CubeState whose turns are printed is  *)
(* one of the solved cube: join order and early returns never leave main   *)
(* with a NULL finalState or one that a thread merely passed through.      *)
FinalIsSolved ==
  /\ pc[Main] = "report" /\ isSolved =>
       finalState # Null /\ heap[finalState].cube = Solved
  /\ crash # "report"

(* Depths are lowered by threads that race without a lock, through         *)
(* locations that may have come to denote another state: no step ever      *)
(* raises one, or changes the cube or the moves of a stored state.         *)
DepthsNeverRise ==
  [][\A s \in Pointers : heap'[s].depth <= heap[s].depth
                         /\ heap'[s].cube = heap[s].cube
                         /\ heap'[s].moves = heap[s].moves]_heap

(* Every run ends, solve returns or the process dies: the threads' loops,  *)
(* the compare-and-swap loop among them, cannot go on for ever.  Nothing   *)
(* is promised of a run in which a thread follows a location in freed      *)
(* memory, whose contents may change under the loop.                       *)
FollowsFreed == \E p \in Procs : pc[p] \in {"visit", "again"} /\ slot[p] = Dangling

Terminates == <>(Finished \/ FollowsFreed)

------------------------------------------------------------------------------
(* What the turns of a CubeState do to the cube solve was given, which is  *)
(* the first CubeState stored.                                             *)

Replay(c, turns) ==
  LET after[i \in 0..Len(turns)] ==
        IF i = 0 THEN c ELSE Turn[after[i - 1]][turns[i]]
  IN after[Len(turns)]

Path(s) == SubSeq(s.moves, 1, s.depth)

(* "Represents a path from the starting state, storing the current state   *)
(* and the moves to get from the initial to the current": the turns of a   *)
(* stored CubeState make its cube of the first one.  One thread keeps      *)
(* this, and several do until they lower a depth.                          *)
PathsReplay ==
  \A s \in Pointers : Replay(heap[1].cube, Path(heap[s])) = heap[s].cube

(* As long as nothing is solved the search is breadth first: no way to a   *)
(* stored cube is shorter than the one it has, whichever of equal cubes    *)
(* the look-up hit.  Workers keep this as long as none of them is ahead of *)
(* another by a level, one worker alone always does.                       *)
Wider(cubes) == cubes \cup {Turn[c][m] : c \in cubes, m \in Moves}

Within(c, n) ==    \* the cubes at most n turns from c
  LET after[i \in 0..n] == IF i = 0 THEN {c} ELSE Wider(after[i - 1])
  IN after[n]

DepthsAreShortest ==
  ~isSolved => \A s \in Pointers : heap[s].depth > 0 =>
    heap[s].cube \notin Within(heap[1].cube, heap[s].depth - 1)

(* solve "goes until it reaches the solved (default) state of the cube":   *)
(* the turns it prints, whichever thread found the solution, take the cube *)
(* it was given to the solved one, and no fewer turns do.  One worker      *)
(* keeps this, too, and so do several that keep to one level.              *)
SolutionIsShortest ==
  pc[Main] = "end" /\ isSolved =>
    /\ Replay(heap[1].cube, printed) = Solved
    /\ Len(printed) > 0 => Solved \notin Within(heap[1].cube, Len(printed) - 1)

(* solve comes back without a solution ("solved: 0") only for a cube that  *)
(* no turns solve, however many workers raced: Len(heap) turns lead to     *)
(* every cube that any number of turns makes.                              *)
UnsolvedIsUnreachable ==
  pc[Main] = "end" /\ ~isSolved => Solved \notin Within(heap[1].cube, Len(heap))

------------------------------------------------------------------------------
(* What comments of the code say, and its steps do not keep.               *)

(* "@return Item the item that was at the top of the queue" - thread_solve  *)
(* uses what it pops, so queue_pop never returns NULL to it.               *)
NeverPopsNull == crash # "pop"

(* The depth of a stored state is lowered only on behalf of a thread that  *)
(* has reached the same cube.                                              *)
DepthsLoweredForSameCube ==
  [][\A s \in Pointers : heap'[s].depth < heap[s].depth =>
       \E p \in Procs : pc[p] = "cas" /\ new[p].cube = heap[s].cube
                        /\ new[p].depth = heap'[s].depth]_heap

(* Only cubes that were not reached before are stored.                     *)
EachCubeStoredOnce ==
  \A s, t \in Pointers : heap[s].cube = heap[t].cube => s = t
==============================================================================
