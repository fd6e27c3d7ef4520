--------------------------- MODULE SequentialSolver ---------------------------
(***************************************************************************)
(* Solver/solver.c over Storage/arraylist.c and Storage/queue.c: the       *)
(* search of the concurrent solver in one thread, whose callback inserts   *)
(* by itself and answers with the location it was given.                   *)
(*                                                                         *)
(* Memory.  A CubeState pointer is the address of a block.  malloc returns *)
(* any block that is not live, freed ones among them.  Reading a freed     *)
(* block faults or gives anything; freeing one twice ends the process.     *)
(* What realloc does to the array matters to nobody here: no location is   *)
(* kept across an insertion.                                               *)
(***************************************************************************)
EXTENDS CubeGraph, Sequences, FiniteSetsExt

CONSTANTS
  Blocks,        \* addresses
  MaxDepth,      \* bound on the depths that freed blocks seem to hold
  CopyOutcomes   \* as in ConcurrentSolver: what cube_copy may do through
                 \* CubeState.cube, for which nothing allocates a buffer

VARIABLES
  block,       \* what every block holds
  live,        \* the blocks that are allocated
  list,        \* storage->data[0 .. size-1]
  queue,       \* the items of the list of nodes, head first
  cur,         \* solve: current
  move,        \* check_state: the turn of the loops
  new,         \* check_state: the block cube_state_next made
  printed,     \* what solve printed
  crash,       \* what killed the process, "none" while it runs
  pc,
  known        \* history: the cubes that were ever inserted

heap == <<block, live>>
vars == <<heap, list, queue, cur, move, new, printed, crash, pc, known>>

Null == 0

(* The turns of a CubeState are left out: the search does not read them.   *)
CubeState == [cube : Cubes, depth : 0..MaxDepth]
NoState == [cube |-> Solved, depth |-> 0]

TypeOK ==
  /\ block \in [Blocks -> CubeState]
  /\ live \subseteq Blocks
  /\ list \in Seq(Blocks) /\ queue \in Seq(Blocks)
  /\ cur \in Blocks \cup {Null} /\ new \in Blocks \cup {Null}
  /\ move \in Moves
  /\ printed \in {"nothing", "solved", "unsolved"}
  /\ crash \in {"none", "cube", "freed", "double free"}
  /\ pc \in {"start", "check", "next", "lookup", "loop", "teardown", "end"}
  /\ known \subseteq Cubes

Init ==
  /\ block = [b \in Blocks |-> NoState]
  /\ live = {}
  /\ list = <<>>
  /\ queue = <<>>
  /\ cur = Null
  /\ move = 0
  /\ new = Null
  /\ printed = "nothing"
  /\ crash = "none"
  /\ pc = "start"
  /\ known = {}
-------------------------------------------------------------------------------
At(label) == crash = "none" /\ pc = label

Die(reason) ==
  /\ crash' = reason
  /\ UNCHANGED <<heap, list, queue, cur, move, new, printed, pc, known>>

CopyFault ==
  /\ At("start") \/ At("next")
  /\ "fault" \in CopyOutcomes
  /\ Die("cube")

(* What the blocks may seem to hold to one reader.                         *)
Contents == {view \in [Blocks -> CubeState] : \A b \in live : view[b] = block[b]}

(* storage_location_of: binary search, 0 when it finds nothing.  The array *)
(* need not be sorted, when the blocks it leads to have changed.           *)
LocationOf(view, c) ==
  LET search[left \in 1..(Len(list) + 1), right \in 0..Len(list)] ==
        LET mid == (left + right) \div 2
            here == view[list[mid]].cube
        IN IF left > right THEN 0
           ELSE IF c > here THEN search[mid + 1, right]
           ELSE IF c < here THEN search[left, mid - 1]
           ELSE mid
  IN search[1, Len(list)]

(* storage_insert moves entries up from the end until one compares no      *)
(* greater.                                                                *)
Inserted(view, b) ==
  LET k == Max({0} \cup {j \in DOMAIN list : view[list[j]].cube <= view[b].cube})
  IN SubSeq(list, 1, k) \o <<b>> \o SubSeq(list, k + 1, Len(list))

(* queue_push.                                                             *)
Pushed(b) == Append(queue, b)

(* solve up to its first call of check_state.                              *)
Start ==
  /\ At("start")
  /\ "copied" \in CopyOutcomes
  /\ \E c \in Cubes, b \in Blocks :
       /\ block' = [block EXCEPT ![b] = [cube |-> c, depth |-> 0]]
       /\ live' = {b}
       /\ list' = <<b>>
       /\ cur' = b
       /\ known' = {c}
  /\ pc' = "check"
  /\ UNCHANGED <<queue, move, new, printed, crash>>

(* check_state's first test.  When it holds the loop of solve ends and the *)
(* result is printed.                                                      *)
CheckSolved ==
  /\ At("check")
  /\ block[cur].cube = Solved
  /\ printed' = "solved"
  /\ pc' = "teardown"
  /\ UNCHANGED <<heap, list, queue, cur, move, new, crash, known>>

CheckOther ==
  /\ At("check")
  /\ block[cur].cube # Solved
  /\ pc' = "next"
  /\ UNCHANGED <<heap, list, queue, cur, move, new, printed, crash, known>>

CubeStateNext ==
  /\ At("next")
  /\ "copied" \in CopyOutcomes
  /\ \E b \in Blocks \ live :
       /\ new' = b
       /\ block' = [block EXCEPT ![b] = [cube |-> Turn[block[cur].cube][move],
                                         depth |-> block[cur].depth + 1]]
       /\ live' = live \cup {b}
  /\ pc' = "lookup"
  /\ UNCHANGED <<list, queue, cur, move, printed, crash, known>>
-------------------------------------------------------------------------------
(* storage_do with solver_update_cubestate, and what check_state makes of  *)
(* the answer.                                                             *)

Advance ==
  /\ move' = (move + 1) % NumMoves
  /\ pc' = IF move + 1 < NumMoves THEN "next" ELSE "loop"
  /\ new' = Null
  /\ UNCHANGED <<cur, printed, crash>>

(* No match: the callback inserts new and answers with the NULL location,  *)
(* whereupon check_state destroys new.                                     *)
UpdateMiss ==
  /\ At("lookup")
  /\ \E view \in Contents :
       /\ LocationOf(view, block[new].cube) = 0
       /\ list' = Inserted(view, new)
  /\ live' = live \ {new}
  /\ known' = known \cup {block[new].cube}
  /\ Advance
  /\ UNCHANGED <<block, queue>>

(* A match that is no deeper: NULL again, and new is destroyed.            *)
UpdateKnown ==
  /\ At("lookup")
  /\ \E view \in Contents :
       LET i == LocationOf(view, block[new].cube)
       IN i # 0 /\ view[list[i]].depth <= block[new].depth
  /\ live' = live \ {new}
  /\ Advance
  /\ UNCHANGED <<block, list, queue, known>>

(* A deeper match: the stored state is destroyed, overwritten where it     *)
(* was, and new is enqueued.                                               *)
UpdateDeeper ==
  /\ At("lookup")
  /\ \E view \in Contents :
       LET i == LocationOf(view, block[new].cube)
       IN /\ i # 0 /\ view[list[i]].depth > block[new].depth
          /\ list[i] \in live
          /\ live' = live \ {list[i]}
          /\ block' = [block EXCEPT ![list[i]] = block[new]]
  /\ queue' = Pushed(new)
  /\ Advance
  /\ UNCHANGED <<list, known>>

UpdateFreed ==
  /\ At("lookup")
  /\ \E view \in Contents :
       LET i == LocationOf(view, block[new].cube)
       IN i # 0 /\ view[list[i]].depth > block[new].depth /\ list[i] \notin live
  /\ Die("double free")

(* The search compares with freed blocks.                                  *)
CompareFault ==
  /\ At("lookup")
  /\ \E i \in DOMAIN list : list[i] \notin live
  /\ Die("freed")
-------------------------------------------------------------------------------
(* solve's loop, and the end of solve.                                     *)

QueuePop ==
  /\ At("loop")
  /\ queue # <<>>
  /\ cur' = Head(queue)
  /\ queue' = Tail(queue)
  /\ pc' = "check"
  /\ UNCHANGED <<heap, list, move, new, printed, crash, known>>

QueueIsEmpty ==
  /\ At("loop")
  /\ queue = <<>>
  /\ printed' = "unsolved"
  /\ pc' = "teardown"
  /\ UNCHANGED <<heap, list, queue, cur, move, new, crash, known>>

(* The storage's states are destroyed, one after the other.                *)
TearDown ==
  /\ At("teardown")
  /\ IF \A i, j \in DOMAIN list : list[i] \in live /\ (list[i] = list[j] => i = j)
     THEN /\ live' = live \ {list[i] : i \in DOMAIN list}
          /\ list' = <<>> /\ queue' = <<>>
          /\ pc' = "end"
          /\ UNCHANGED <<block, cur, move, new, printed, crash, known>>
     ELSE Die("double free")

Next ==
  \/ Start \/ CopyFault
  \/ CheckSolved \/ CheckOther \/ CubeStateNext
  \/ UpdateMiss \/ UpdateKnown \/ UpdateDeeper \/ UpdateFreed \/ CompareFault
  \/ QueuePop \/ QueueIsEmpty \/ TearDown

Spec == Init /\ [][Next]_vars
-------------------------------------------------------------------------------
Verdict ==
  IF printed # "nothing" THEN printed
  ELSE IF crash # "none" THEN "crashed" ELSE "searching"

Search == INSTANCE GraphSearch WITH verdict <- Verdict

(* "Checks all permutations from this state; if they are not in storage,   *)
(* adds them to queue": the search comes back without a solution only      *)
(* when no turn of a stored cube leads out of the storage.                 *)
ImplementsSearch == Search!Spec
===============================================================================
