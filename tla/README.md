# Rubik's Cube solver: TLA+ models, model checking and proofs

This directory models the C program of this repository: a Rubik's cube held in
20 bytes, and a brute-force solver that searches breadth first from a given
cube, with ten worker threads over one shared queue and one shared sorted list.
The modules are written from the code under `src/`; where a comment and the code
disagree, the models follow the code and a run shows the disagreement.

## 1. The system

| component | source | state it keeps | operations |
|---|---|---|---|
| Subcube | `Cube/subcube.c` | none: a piece is one byte, identity in the low half, axis and flip bits in the high half | default piece of a position, quarter/half turn of a piece, face it shows along an axis |
| Cube | `Cube/cube.c` | an array of 20 pieces | create (solved), copy, rotate a side, compare, print, hash |
| Cube states | `Solver/cubestate.c` | `CubeState`: pointer to a cube, the turns that led to it, their number (`depth`) | next state by one turn, compare, destroy, print |
| Concurrent solver | `Solver/concurrent_solver.c` | `isSolved`, the queue and storage shared by all threads; locals of each thread | `solve`, `startThreads`, `thread_solve`, `check_state`, `solver_update_cubestate` |
| Concurrent array list | `Storage/concurrent_arraylist.c` | sorted array of `CubeState` pointers, size, capacity, one mutex | create, insert (and resize), location_of, do, for_each, destroy |
| Concurrent queue | `Storage/concurrent_queue.c` | linked nodes, head and tail with counts | push, pop, is_empty, destroy: a Michael-Scott queue |
| Sequential solver | `Solver/solver.c` | like the concurrent one, one thread | `solve`, `check_state`, `solver_update_cubestate` |
| Sequential list, queue | `Storage/arraylist.c`, `Storage/queue.c` | sorted array; linked list | insert, location_of, replace, do; push, pop |
| Hash table | `Storage/hashtable.c` | open addressing, accessor count, spin lock | insert, resize, location_of, do (no target builds it) |
| Main, tests, build | `main.c`, `test/`, `makefile` | none | turns a cube three times and calls `solve` |

How they interact. `main` turns a cube and calls `solve`. `solve` stores the
start, checks it itself, and if it is not the solved cube starts the workers and
joins them. A worker loops: if the queue is not empty and nobody has set
`isSolved`, pop a `CubeState` and `check_state` it. `check_state` compares it to
the solved cube; otherwise it makes the 18 turned states, and for each one calls
`storage_do`, which looks the cube up under the list's mutex, releases the mutex
and then calls back `solver_update_cubestate` with the location found. A miss is
inserted (a second critical section) and enqueued; a hit may have its depth
lowered by a compare-and-swap loop, without the mutex.

The solver's queue is `queue.h` over a Michael-Scott queue: a list of nodes with
a dummy in front, every pointer with a count, no lock. Its callers synchronise
only through the exchanges on head, tail and next fields; a pop frees the dummy
it leaves behind. The sequential program replaces the solver, the list and the
queue by one-threaded ones behind the same headers; there the callback inserts
by itself. (The makefile's rule for `concurrent` substitutes `/%.o`, which
matches nothing, so it links the sequential objects too; the repository's README
gives the compiler call that links the concurrent ones.) The hash table is a third
`storage.h`, meant for many threads; nothing links it.

What is hard: everything between the critical sections. The look-up and the
insertion can be separated by the same insertion of another thread; a location
is used after the array has been shifted or moved by `realloc`; a depth changes
while another thread copies as many moves as it says; the queue is tested and
popped in two steps; a worker leaves for good the first time it sees an empty
queue; several workers may find the solution; the compare-and-swap loop has no
exit of its own. In the queue: count and pointer of one field are loaded apart;
a push links and swings the tail in two steps, and others must neither wait for
the second nor free the node in between; a freed node may come back under the
same address. In the hash table: two threads meet at an empty slot, and the slot
that ended a search is read again. In the cube: turn tables whose indices go through unsigned
negative shifts, a loop that changes chains in the middle of a half turn, and
orientation kept as bits under exclusive or. All of it is listed, with lines, in
`PROJECT.json` under `hazards`.

What makes each part correct:

* the pieces are permuted, turns compose as turns do, layers turn as one, and
  the faces shown are those of a real cube (true of the sides, not of corners);
* the list is sorted, loses nothing, holds each state once, never overflows;
* a state is handed out once; a thread stores a cube once; depths only fall;
* the queue is linearizable, keeps order, loses and doubles nothing, frees every
  node once, and no stopped thread blocks another;
* the table overwrites nothing, keeps every item findable from its hash, misses
  only what was not there, and counts its accessors;
* the search is sound and complete: "solved" only with a solved state, "not
  solved" only when everything reachable was tried; it ends; paths replay.

## 2. Modules

| module | what it is |
|---|---|
| `CubeGraph` | constants of a search problem: cubes (as ranks in the order of `cube_compare`), turns, the solved cube |
| `GraphSearch` | abstract specification of `solve`: known cubes grow by turns of known ones; how it may conclude |
| `ConcurrentSolver` | the concurrent solver over the concurrent array list; shown to implement `GraphSearch` |
| `ConcurrentSolverProofs` | theorems about `ConcurrentSolver`, checked by TLAPS: the inductive invariant, types, depths |
| `ConcurrentSolverSafety` | further theorems that rest on it: the final state, the order of the storage |
| `ConcurrentSolverRefinement` | who holds a `CubeState`, no copies, and that it implements `GraphSearch` |
| `SolutionProofs` | what the answer is worth: unsolved means unsolvable; when the turns replay, when they are a shortest solution |
| `MCConcurrentSolver` | a graph of ten cubes and two turns for TLC |
| `MCSingleWorker` | a graph of 96 real cubes, computed with `Cube` |
| `Fifo` | abstract specification of a queue that threads share: a call takes effect at one instant |
| `ConcurrentQueue` | the Michael-Scott queue with its nodes, `malloc` and `free`; shown to implement `Fifo` |
| `ConcurrentQueueProofs` | theorems about it for every use, nodes freed and allocated again; that it implements `Fifo` |
| `MCConcurrentQueue` | three threads and the ways in which they use the queue |
| `Hashtable`, `MCHashtable` | the lock-free part of the hash table; items and hash functions for TLC |
| `HashtableProofs` | theorems about `Hashtable`: types, accessors, no item overwritten, its searches |
| `SequentialSolver`, `MCSequentialSolver` | the sequential solver with its list and queue, and the blocks it frees; a ring of six cubes |
| `Subcube`, `Cube` | the piece and the cube, as operators |
| `Stickers` | what a turn is without pieces and tables: stickers in space, rotations of space |
| `CubeTurns` | the cube as a state machine; what is printed, compared with `Stickers` |
| `CubeTurnsProofs` | theorems about it, for any number of turns; that sides turn as `Stickers` says; what the solver takes for granted of cubes |

### ConcurrentSolver and the code

Process 0 is the thread that calls `solve`, processes `1..NumThreads` are the
workers. `pc` holds where each process is:

| label | code | actions |
|---|---|---|
| `start` | `solve` up to `check_state` | `Start`, `StartFault` |
| `compare` | `check_state`, the test, and what the caller does with TRUE | `CompareSolved`, `CompareOther` |
| `depth`, `copy` | `cube_state_next`: first and later reads of `curr->depth`, the copy of the cube | `NextDepth`, `CopyMoves`, `CopyFault` |
| `lookup` | `storage_location_of`, one critical section | `LookupMiss`, `LookupHit` |
| `visit`, `load`, `again`, `cas` | one round of the callback's loop: read `*loc`, load its depth, read `*loc` again, compare and swap | `FollowSlot`, `SlotFault`, `VisitDone`, `VisitDeeper`, `CasDepth` |
| `insert`, `push` | `storage_insert`, one critical section; `queue_push` and the next turn of the loops | `Insert`, `Push` |
| `idle` | a worker not yet created | - |
| `empty`, `flag`, `pop` | the two reads of `thread_solve`'s condition, `queue_pop` and its NULL | `QueueIsEmpty`, `ReadIsSolved`, `Pop`, `PopNull` |
| `spawn`, `join`, `report`, `end` | `startThreads`, the rest of `solve` | `Spawn`, `Join`, `Report` |

`heap` is every `CubeState` ever stored (a pointer is an index of it; stored
states are never freed before the teardown), `list` the array as a sequence of
pointers, `queue` the items of the queue, `slot[p]` the location the callback
was given. A state that is made and destroyed again lives only in `new[p]`. The
field `by` is history and is read by no action.

Deliberate choices, each of them wider than or equal to what a build does:

* A slot of the array is read without the mutex while an insertion may be
  shifting it. Slot by slot the insertion replaces the old value by the new one,
  so a reader sees one of the two: the value before or after the whole critical
  section, which is what the interleaving of actions gives.
* `realloc` may extend the block or move it. When it moves, every location
  handed out is `Dangling`; a thread that follows one reads any `CubeState`
  there is, or dies. (Freed memory could hold anything; reads of it that neither
  fault nor look like a pointer to a state are not modelled.)
* `CubeState.cube` is never allocated: `solve` copies through NULL and
  `cube_state_next` through an uninitialised field. `CopyOutcomes` says what
  these writes do: `"fault"` kills the process, `"copied"` is the outcome in
  which the pointer happens to be usable. Runs that ask about the threads take
  `"copied"` or both.
* `solve` allocates the queue and the storage with the size of a pointer; the
  models start after those writes have done no harm. The same goes for
  `subcube_rotations`, which writes one element past its array.
* Every queue operation is one action, as `Fifo` allows: `queue_push` at its `Put`,
  `queue_pop` at its `Take`. That the queue keeps that promise is what `ConcurrentQueue`
  is about; with a `malloc` that reuses nodes it does not.
* A binary search returns some entry that compares equal. The model allows any.
* `queue_pop` by a worker that finds nothing returns NULL, and the next line
  reads through it: the process dies (`PopNull`). The remaining properties are
  about the runs up to that point as well as the others.

### ConcurrentQueue and the code

One action is one atomic access; `pc` names the next one. A thread's `head`,
`tail`, `next`, `node`, `obj` are the locals of its call, set back when they go
out of scope.

| labels | code | actions |
|---|---|---|
| `push_init` | `malloc`, then the write of the whole node | `StartPush`, `PushInit` |
| `push_tail`, `push_next`, `push_count`, `push_ptr` | lines 69, 70 and the two loads of line 72 | `PushLoadTail` ... `PushCheckPtr` |
| `push_link` | line 75, the exchange of the last node's next field | `PushLink` |
| `push_help` | line 81, the tail moved on for another push | `PushHelp` |
| `push_swing`, `push_astray` | line 88, the tail moved to the new node | `PushSwing` |
| `pop_head` ... `pop_ptr` | lines 99 to 102, and the test of line 103 | `PopLoadHead` ... `PopCheckPtr`, `PopChanged`, `PopNull` |
| `pop_help`, `pop_value`, `pop_swing`, `pop_free` | lines 110, 113, 116, 121 | `PopHelp`, `PopLoadValue`, `PopSwing`, `PopFree` |
| `empty_head`, `empty_next` | line 142 | `EmptyLoadHead`, `EmptyLoadNext` |

Every access to a shared pointer is sequentially consistent in the code (`_Atomic`
fields without an explicit order), so interleaving them loses nothing. `chain` is
history: the nodes of the list, as the exchanges made them. `seen` is history of
`Fifo`: the answers `queue_is_empty` could rightly give. A push takes effect at
`PushLink`, a pop at `PopSwing`; a pop that returns NULL, and `queue_is_empty`, at
some instant when their answer was true. `push_astray` is `push_swing` of a push
whose exchange succeeded on a node that was not the last of the list; it differs
for the refinement only.

`use` says how an execution uses the queue: what each thread calls, whether
`malloc` is careful, and which thread is sure to go on. `Available` is what `malloc`
may return: a node that was never used, or one that was freed; a careful `malloc`
leaves alone the freed nodes that some thread still has as its head or tail
(`Holds`), so a node comes back as soon as no comparison with it is left.
`queue_create` and the pushes before the threads start are `Init`, `queue_destroy` is
`Destroy`, after the last call. The counter of the program is 32 bits wide; `CountRange` is 2
in the passing run, so that it wraps all the time.

### Hashtable and the code

A thread takes an item that nobody has taken, looks it up (`storage_do`) and, if
nothing was found, inserts it (`storage_insert`), as `check_state` does; each call
counts itself in and out of `accessors` (`ReadAccessors`, `SwapStart`,
`SwapFinish`), goes from slot to slot (`LookPast`, `InsertPast`) and ends with a
hit (`LookHit`), an empty slot (`LookEmpty`, then `LookAgain`, the read of line
104) or an exchange (`InsertHere`, `Exchange`). The comparator is never called: an
item of the same hash counts as the item. `size` is never incremented, so the
table cannot grow and `storage_resize`, with its lock, is unreachable; it is left
out. Were it reached, it would also free the array that `realloc` has just given it.
`hash_cube` hashes the bytes of the `CubeState` structure, not of the cube; the model only
asks that the hash of an item does not change.

### SequentialSolver and the code

One thread, so one action is a stretch of code between two choices. `block` is
what each address holds, `live` which are allocated; `Contents` is what a reader may
see: the truth of a live block, anything of a freed one (`CompareFault` is the
outcome in which the read faults). `LocationOf` is the binary search with its two
indices and `Inserted` the insertion from the end, because the array stops being
sorted once its entries are freed blocks. `UpdateMiss`, `UpdateKnown` and
`UpdateDeeper` are the three ways through the callback and what `check_state` does
with its answer; `TearDown` is the destruction of the storage's states.

### Cube, Subcube, Stickers

`Subcube` keeps the byte as an identity and a set of flags, so that exclusive or
is symmetric difference. `Cube!Exchanges` is the loop of `cube_rotate`: its four
<from, to> pairs, with the jump to the second chain in a half turn; reading from
the old cube and writing to the copy makes the order of the four immaterial,
which is why a turn is one function of the old cube. `CubeTurns!Printed` is the
face `cube_string` prints at each place where a cube has a sticker, and
`Stickers` rotates stickers as vectors in space, with no table in common. The two are
compared turn by turn: `Rotate(side, rot)` must be `Stickers`' turn of that side by as
many quarters, clockwise, so that a side that turns the wrong way round is found. The
cube that turns is one `cube_create` makes; `main` turns an array it has not initialised,
of which there is nothing to say.

## 3. Runs

| run | instance | shows |
|---|---|---|
| `concurrent` | 2 workers + main, 10 cubes, 2 turns, capacity 3, both copy outcomes, all ten starts; 40 098 states | the invariants below, `DepthsNeverRise`, that it implements `GraphSearch`, that it ends |
| `single_worker` | 1 worker, the 96 cubes of the half turns of WHITE, BLUE and GREEN, all starts; 87 119 states | breadth-first order: shortest depths, replayable paths, a shortest solution, each cube stored once |
| `null_pop`, `paths`, `wrong_depth` | 2 workers, same graph, capacity 8 | that comments of the code do not hold with two workers |
| `queue` | 2 threads that call everything, or 2 that push and 1 that pops; a careful `malloc` that reuses nodes; 2 calls each, 0 or 1 item to begin with; 1 077 535 states | that the queue implements `Fifo`, its list in memory, what freed nodes cannot do, that nothing leaks, that nobody waits |
| `queue_reuse` | 1 thread that pushes, 1 that pushes and pops, 3 calls each, a `malloc` that is not careful | that it does not, once a node is reused under a slower push |
| `hashtable` | 2 threads, 4 items, 3 slots, 5 hash functions; 207 128 states | the table's invariants, and that calls end |
| `stray_hits` | the same | that a look-up can return the slot of another item |
| `sequential` | a ring of 6 cubes, 3 blocks | that the sequential solver gives up after one round of turns |
| `cube_turns` | the solved cube, all 18 turns, up to 4 of them; 50 524 states | the geometry of turns, and that sides turn like stickers |
| `corners` | up to 2 turns | that corners do not |

Properties of the concurrent run:

* `ImplementsSearch`: soundness and completeness. Particularly, `solve` returns
  "not solved" only if no turn of any stored cube leads out of the storage,
  although each worker gives up at its first empty queue: the last worker to
  leave has pushed everything it made before it looked.
* `UnsolvedIsUnreachable`: the same for the caller, without the abstract search: if
  `solve` comes back unsolved, no sequence of turns solves the cube.
* `WorkIsAttended`: the reason for both, as an invariant.
* `CheckedByOneThread`, `OneCopyPerThread`: a state is handed out once, and a
  thread never stores a cube twice, though two threads may store it once each.
* `StorageIsSorted`: order, no entry twice, none missing.
* `FinalIsSolved`: the first result kept by the joins is a solved state.
* `DepthsNeverRise`: even through a location that has come to denote another
  state, or lies in freed memory, the compare-and-swap only ever lowers.
* `Terminates`: under fairness every run ends, except that nothing is promised
  once a thread follows a location in freed memory.

The run with a single worker adds what the order of the queue gives: `PathsReplay`
and `DepthsAreShortest` of every stored state, and `SolutionIsShortest` of what is
printed in the end. With two workers they do not hold (`paths`).

Properties of the queue's run:

* `ImplementsFifo`: the queue is linearizable as long as `malloc` is careful. It is
  checked as a refinement, with history variables only for the list and for what
  `queue_is_empty` may answer.
* `ChainIsInMemory`: following next fields from the head gives the list that the
  exchanges made, ending in NULL, no node twice.
* `TailIsNearEnd`: the tail is the last node or the one before; it never falls
  behind the head, where it would point to a freed node.
* `LateExchangesFail`: threads do go on to read nodes that have been freed (lines 70,
  101 and 142) and to compare with what they read. While `malloc` is careful none of
  these exchanges succeeds, and a pop returns the item of the node it takes.
* `NothingLeaks`: each node is freed once, `queue_destroy` included.
* `NonBlocking`: one thread finishes its calls though the others may stop for ever in
  the middle of theirs, as the file's second line means it to.

Properties of the hash table's run: `StoredOnce` (no insertion overwrites another,
each item has one slot), `Findable` (no empty slot between an item's hash and its
slot), `MissesAreTrue`, `OldHitsAreRight` (of what was stored when it began, a look-up
answers nothing for an item of another hash), `AccessorsAreCounted`, and `CallsEnd`: every
call ends unless the table is full. `HitsAreRight`, what `storage.h` promises of every
hit, fails in the run `stray_hits`: the slot that ended the search empty is read a second
time, and by then another thread's item is in it.

Bounds, and why they are enough. Two workers and main give every pair of
interfering roles: each hazard listed for the solver needs two threads. Ten
cubes: a short and a long way to the same cube, so that depths are lowered,
compare-and-swaps fail, and a lowered state is already being expanded; a second
part of the graph from which the solved cube cannot be reached, so that the
unsolved end is reached with a full exploration. Capacity 3 makes the array move
at three sizes (the program starts at 8; the runs that show a disagreement use
8). It has been confirmed that the instance reaches duplicates, lowered depths,
failed exchanges, exchanges on the wrong state, truncated copies of moves, a
fault in freed memory, a NULL pop, the unsolved end, and two workers that both
return solutions. For the queue, three threads with two calls each reach every
branch: a tail that has fallen behind seen by a push and by a pop, exchanges that
fail, a head that changes between its loads, NULL answers in the middle of other
calls, a wrapped count, a node that is reused while others are in the middle of their
calls. Every push allocates, and eight nodes are more than are ever used at once. For
the hash table, four items in three slots fill it, and the hash functions make chains
that collide, that wrap around the end and that share a slot. The ring of six cubes has a
shortest solution of three turns. For the geometry, each side piece reaches all of its 24
placements within three turns, so four turns show every placement turned once
more. `CHECK_DEADLOCK FALSE` there because a cube that has been turned
`MaxTurns` times is turned no more; the bound is the only reason to stop.

Fairness. Weak fairness of each worker and of main: these are POSIX threads the
system keeps scheduling, and a mutex is held only within one action, so nothing
a thread does can keep another from its next step. A compare-and-swap that fails
is a step, and is not assumed to succeed eventually: `Terminates` holds because
depths only fall. `CallsEnd` assumes the same of the threads that use the hash
table. `NonBlocking` assumes less: weak fairness of one thread only, the lone one of
`use`; its exchanges fail only when another thread has made progress, and the other
threads make finitely many calls.

Disagreements (the `findings` of `PROJECT.json`): a worker can pop NULL and
follow it; a stored state's moves need not lead to its cube; the depth of another cube's
state can be lowered; the faces shown of corners are wrong after two quarter turns about
different axes; a push can return although its item is not in the queue, when a node is
reused; a look-up of the hash table can return the slot of another item; the sequential
solver enqueues nothing and gives up after one round of turns. Three that have no run:
two workers can miss the same cube and both store and enqueue it, where the comments of
`concurrent_solver.c:153` and `157` say that only cubes not reached before are added, and
safely (`EachCubeStoredOnce` is for a lone worker, `OneCopyPerThread` is what remains of
it for more);
`queue.h:55` documents the answers of `queue_is_empty` the wrong way round; and
`queue_for_each` of the concurrent queue runs through the NULL at the end of the list
(nothing calls it).

## 4. Proofs

`ConcurrentSolverProofs`, `ConcurrentSolverSafety`, `ConcurrentSolverRefinement` and
`SolutionProofs` are about every graph, every number of workers and every
initial capacity of at least 2 (`GraphAssumption`, `SolverAssumption`: the turns
map cubes to cubes, there is at least one turn and one worker). Checked by TLAPS
with its SMT, Zenon and PTL backends:

* `Invariance`: `Spec => []IInv`. `TypeOK` is not inductive by itself, because
  most steps follow a pointer that another variable says they have. `IInv` adds
  `Phases` (which of main and the workers can be where: workers are idle until
  main spawns them and have ended once it has joined them), `Locals` (what a
  process holds at each label: a current state, a location that is dangling or
  inside the list, a target, a `seen` depth greater than its own, a new state
  with exactly as many moves as its depth) and `MovesCoverDepth` (a stored state
  has at least as many moves as its depth: what makes the copy of moves and the
  printing of the solution stay inside their arrays). The proof has one step per
  action; `CheckerMoves`, `WorkerMoves` and `MainMoves` do the control flow,
  `LocalsStay` what other processes keep, `Stores` and `CasLowers` the two ways
  the heap changes.
* `TypeCorrect`: `Spec => []TypeOK`, which includes that the list never fills
  its block.
* `DepthsFall`: `Spec => DepthsNeverRise`, from the invariant: the exchange
  happens only when the depth it finds is `seen`, and `seen` is greater than the
  new depth, whatever state the location denotes by then.
* `FinalSolved`: `Spec => []FinalIsSolved`. The strengthening `Results` says where
  a solution can be between the worker that finds it and main: once `isSolved` is
  set, main has it or some worker not yet joined has returned it, and what any of
  them returned or main kept has the solved cube. `NextKeepsHeap` (no step
  changes the cube of a stored state) carries it over the steps of the others.
* `Sorted`: `Spec => []StorageIsSorted`. `InsertSorts` follows `storage_insert`:
  the entries it moves up are greater and those it leaves are not, so the new
  entry fits between them. Until `solve` tears the storage down, the list is thus
  sorted and holds every stored state exactly once.

* `HandedOnce`: `Spec => []CheckedByOneThread`. `Handed` adds what makes it
  inductive: a process that checks nothing holds no `CubeState`, and between its
  insertion and its push a new state is in nobody's hands but the inserter's.
* `Attended`: `Spec => []WorkIsAttended`. Whoever fills the queue is still checking
  when it does, and will look at the queue again before it leaves.
* `OneCopy`: `Spec => []OneCopyPerThread`. `Authors` says that the cube a process is
  about to insert is not among those it has stored: it has looked it up since its
  last insertion, and `MissIsTrue` (from `Sorted`) is why a miss tells the truth.
* `Implements`: `Spec => ImplementsSearch`, the refinement of `GraphSearch`.
  `SearchInv` carries completeness. `Progress` says which turns of its current state
  a process has behind it, all of them stored. `Covered`: as long as nothing is
  solved every stored state is still waiting (in the queue, in some hands, or
  between insertion and push), or is expanded, that is, not the solved cube and
  with all its turns stored. When main reports, the workers have ended
  (`NothingWaits`, which needs `Attended` and `Handed`), so nothing is left waiting
  and everything stored is expanded: that is what `GraphSearch` asks of giving up.

`SolutionProofs` goes on from there to what the caller of `solve` may believe. For
any number of workers:

* `UnsolvedMeansUnsolvable`: `Spec => []UnsolvedForGood`. When `solve` has come back
  unsolved everything stored is expanded (`Exhausted`, from `Implements`'s
  `Covered`), and a set of cubes that contains the start and is closed under turns
  contains all that any number of turns reach (`NothingBeyond`).
  `UnsolvedUnreachable` is the property the run checks, which stops at as many turns
  as there are cubes.
* `ScrambledIsSolved`: `ASSUME Invertible PROVE Spec => []MadeCubesAreSolved`. A cube
  that turns of the solved one make is never reported unsolved: the turns can be
  undone (`WayBack`). That each turn can is true of the program's turns
  (`TurnsUndone` below) and of the half turns in the run `single_worker`; it is not
  true of the three- and four-cycles of the run `concurrent`, so it is an assumption here. It
  says nothing of `main`, which turns an array it has not initialised.

For more than one worker `PathsReplay`, `DepthsAreShortest` and `SolutionIsShortest` fail
as they stand: a worker that pops late can push what is deeper first, and another then
lowers a depth (the run `paths`). The theorems say on what they hang, again for every
number of workers:

* `PathsHold`: `Spec /\ DepthsStay => []PathsReplay`. `DepthsStay` says that no step
  lowers a depth, so it speaks of an execution up to the first compare-and-swap that
  succeeds. However the workers interleave, duplicates included, the turns kept with
  each state lead from the start to its cube: `Made` follows the state a process makes
  from the copy of the moves to its insertion. `PrintedSolves`: in the same executions
  the turns that `solve` prints lead to the solved cube, whichever of the solutions
  main kept (`Reported`).
* `LevelsAreShortest`: `Spec /\ []LevelByLevel => []DepthsAreShortest`. `LevelByLevel`:
  all who check a `CubeState` at the same time check states of one depth. Within a level
  the workers may interleave as they like, and store a cube twice; what must not happen is that one
  begins the next level before another has done with this one. `LevelInv` is the
  breadth-first argument: the queue is in order of depth and rises by one at most, what
  is in hands or being stored fits in, and everything within as many turns as the
  shallowest waiting state has is stored, so that a cube that is missing is no nearer.
* `LevelsLowerNothing`: `Spec /\ []LevelByLevel => DepthsStay`, so `PathsHold` applies,
  and `LevelsSolve`: `Spec /\ []LevelByLevel => []SolutionIsShortest`.

Neither hypothesis is enforced by the code when there are ten workers; they name the
schedules on which its answers are right. With one worker the code does keep to it:
`OneWorkerKeepsToALevel` proves `[]LevelByLevel` for `NumThreads = 1`, which is why the
run `single_worker` passes.

`Replay` and `Within` are recursive functions, so these proofs need induction.
The library's theorems for it take an operator; `Induct` states it for a set of
numbers, and follows from the well-foundedness of `<`. `TraceExists` and
`SpreadExists` show that the functions exist, `ReplayNext` and `WithinNext` what one
more turn does.

`ConcurrentQueueProofs` is about every number of threads, whatever calls each may
make, every set of nodes and every `CountRange` (`QueueAssumption`). Nodes are freed and
allocated again. The theorems follow an execution up to the first time `malloc` returns
a freed node that some thread still has as its head or tail: their hypothesis is
`NothingHeldReused`, which says that no step does that. Past that point `ImplementsFifo`
is false, and no theorem can say otherwise (the run `queue_reuse`: the counts do not help,
since a new node starts again at count 0). Up to it the counts decide nothing, and
the theorems hold even with `CountRange = 1`.

* `CarefulSpares`: `Spec /\ [](use.careful) => NothingHeldReused`: what the run `queue`
  assumes of `malloc` is an instance of the hypothesis.
* `Invariance`: `Spec /\ NothingHeldReused => []IInv`. A node is `Linked` when it is in
  the list, or was once, has a successor and is nobody's new node. `TailIsSwung` says that
  the tail is behind only while the push that linked the last node has not moved it.
  `Accounted`: every allocated node is in the list or some thread's, nodes of two threads
  differ, and none is reached before it is linked. Per thread, `Owned` is about the node it
  is about to link or to free; `Loaded` about the pointers it has loaded, which may be
  old: they are linked nodes, not further on than the shared ones, and equal to these
  if they point to the same node; `Pushing` and `Popping` are what holds at each
  label. A step of one thread never takes this from another, since the nodes the other
  points to stay linked, keep their values and successors, and head and tail only go on
  (`Onward`, `OthersKeep`); a node that comes back is one nobody points to. `SwingKeeps`
  shows that an exchange of the tail that succeeds reaches the end, `Links` that a push
  succeeds at the last node only, `Takes` that a pop succeeds only while the first two
  nodes are those it has read.
* `TypeCorrect`, `ListInMemory`, `TailNearEnd`, `NoLeak` and `LateOnesFail` are its
  consequences.
* `Implements`: `Spec /\ NothingHeldReused => ImplementsFifo`: the queue is linearizable.
  The steps are mapped one by one: a push takes effect at `PushLink`, a pop at `PopSwing`,
  a pop that returns NULL and `queue_is_empty` at an instant recorded in `seen`. The
  mapping rests on less than `IInv`, on `CoreInv` (`CoreImplements`).

`HashtableProofs` is about every number of threads, every capacity
from 1, every set of items and every hash function (`TableAssumption`):

* `Invariance`: `Spec => []IInv`, where `IInv` is `TypeOK` and `AccessorsAreCounted`
  with `Labelled` (which call a thread can be in at each label), `Held` (a busy
  thread has an item that no other has) and `Placed` (an item is unused, or some
  thread's, or in exactly one slot). Neither of the two is inductive without the
  others: that the count never falls below zero follows from the thread that
  leaves being counted, and that an exchange stores an item only once from nobody
  else having it. `OneMore` and `OneLess` are the counting. `TypeCorrect`,
  `Counted` and `Once` are its consequences.
* `SearchInvariance`: `Spec => []SearchInv`, for the three properties of searches.
  `Findable` says that no empty slot lies between an item's hash and its slot. It
  is not inductive alone: that an insertion leaves no gap rests on what it has
  passed. `Knows` is what each call may rely on though others store meanwhile: an
  insertion has passed taken slots only; a look-up has passed only items of other
  hashes; what was stored when it began still is. The argument follows the code:
  slots only fill (`DataGrows`), so what the others do takes nothing away
  (`OthersKnow`), and a look-up that meets an empty slot has passed every item of
  its hash that was there, since one beyond the empty slot would contradict
  `Findable` (`LookAgainKnows`). `BetweenIs`, `BetweenNext` and `BetweenOrder` are
  the arithmetic of slots on a ring. `AllFindable`, `TrueMisses` and `OldHits`
  are its consequences.

`CubeTurnsProofs` is about a cube turned any number of times (`MaxTurns` is any
number): all the cubes that can be reached, of which the run sees those within four
turns. The argument goes from the tables to the cube. `SlotDeterminesPiece` and
`SlotHasPiece`: `subcube` is a bijection from the 20 positions to the slots.
`RoundFacts` and `RoundCovers`: the two rotation orders name just the corners and
sides of a layer. `ExchangesAre`, `OriginInLayer` and `OriginElsewhere`: the loop of
`cube_rotate`, with its second chain for half turns, takes the piece at each place of
the round `Shift` places on, and leaves the rest. So `Source` is a permutation of the
slots, and the turns of a side add up (`SourcesAdd`).

* `Invariance`: `Spec => []IInv`. That a side has two axis bits set is not inductive:
  an exclusive or with the two bits that are not the turn's axis keeps two set only
  if the bit of that axis was. `PiecesFit` adds that the bits name the axes on which
  the place has a face; `ShownAfterTurn` is why a turn keeps that: the order of a
  side's round alternates between its two axes. `IdsApart` and `SamePieces` say that
  the pieces are those of the solved cube.
* `TypeCorrect`, `BitsMatch`, `NoPieceLost` and `Group` are its consequences; `Group`
  also needs that toggling bits twice undoes it (`RotatedTwice`) and that opposite
  layers are disjoint.
* `OneLayer`: `Spec => LayersTurnAsOne`. Two pieces of a layer are neighbours when
  they are `Abreast` in the two orders, and both go on by the same number of places.
* `SidesLikeStickers`: `Spec => SidesTurnLikeStickers`: each turn of a side turns the
  printed sides as `Stickers` turns that very side, by as many quarters and in the same
  sense. `QuarterTurn`: one place on in the round is a quarter turn of space, clockwise,
  for the six sides. `OrderOfFaces` is the reason for the flip bit: moving
  from one of two axes to the other keeps the order of a piece's two faces, unless
  the turn is about BG, the axis between. `DefaultFace` is the solved cube.

* `TurnsUndone`: every turn of every cube that fits is undone by a turn of the same side,
  and the result fits again. `CompareOrders`: `cube_compare` is a strict total order,
  which compares bytes as signed characters (`Chars`) and goes by the first that
  differ (`FirstDifference`). The two are what `ConcurrentSolver` takes for granted when
  cubes are ranks in that order and turns are functions of them.

The same statement about corners is false (the run `corners`). What is proved of
them is what does not depend on the faces that are shown: where they go, their
identities and their bits.

Only model-checked: liveness (`Terminates`, `CallsEnd`, `NonBlocking`), which is
beyond the prover. The sequential solver has no theorem: its promise fails, which is
the finding.

## 5. Plan

Done: all modules of section 2. What is left:

* `ConcurrentSolver` over `ConcurrentQueue` in place of an atomic queue, on a graph
  small enough for both.
* One statement that joins the theorems about the solver with those about the cube.
  The solver's graph is of ranks, the cube's turns are of arrays of pieces;
  `CompareOrders` and `TurnsUndone` show what the ranks take for granted, but the
  numbering itself is only done by TLC, in `MCSingleWorker`.

## 6. Not modelled

Printing of cubes and states apart from which face is shown where; `cube_hash`
(only the hash table uses it); `storage_resize` of the hash table, which nothing can
reach; the reads `queue_size`, `queue_for_each` and `storage_print`;
`storage_contains` and `storage_replace`, which nothing calls; `subcube_primary_faces`, documented as
unimplemented, and the SIDE branch of `subcube_colors`, which only a test calls;
`cube_randomized`, a stub; the tests, the makefile and `main`'s use of a cube it
never initialised. `THREADS` is 10 in the program and the parameter `NumThreads`
here. Integer overflow of depths and sizes is out of reach of any run that fits
in memory.
