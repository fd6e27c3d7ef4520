---------------------------- MODULE SolutionProofs ----------------------------
(***************************************************************************)
(* What the answer of solve is worth, with any number of workers.  It      *)
(* comes back without a solution only if there is none.  Until a step      *)
(* lowers a depth, the turns of a stored CubeState lead to its cube and    *)
(* the turns printed solve the one that was given.  While no worker is     *)
(* ahead of another by a level, no step does, no way to a stored state is  *)
(* shorter than its own, and the solution printed is a shortest one.       *)
(***************************************************************************)
EXTENDS ConcurrentSolverRefinement, WellFoundedInduction

USE GraphAssumption, SolverAssumption DEF Null, Dangling, Main

(* Induction over the natural numbers, for a set instead of a predicate.   *)
LEMMA Induct ==
  ASSUME NEW T, 0 \in T, \A n \in Nat : n \in T => n + 1 \in T
  PROVE  \A n \in Nat : n \in T
<1>. SUFFICES ASSUME Nat \ T # {} PROVE FALSE
  OBVIOUS
<1>1. PICK n \in Nat \ T : \A m \in Nat \ T : ~(<<m, n>> \in OpToRel(<, Nat))
  BY WFMin, NatLessThanWellFounded
<1>2. \A m \in Nat \ T : ~(m < n)
  BY <1>1 DEF OpToRel
<1>3. n # 0 /\ n - 1 \in Nat
  OBVIOUS
<1>4. n - 1 \in T
  BY <1>2, <1>3
<1>5. (n - 1) + 1 \in T
  BY <1>3, <1>4
<1>. QED BY <1>5
-------------------------------------------------------------------------------
(* Replay: the function it is defined by exists, and is the only one.      *)

(* f[i] is the cube after the first i turns.                               *)
Traces(f, c, turns, n) ==
  f = [i \in 0..n |-> IF i = 0 THEN c ELSE Turn[f[i - 1]][turns[i]]]

LEMMA TraceValues ==
  ASSUME NEW f, NEW c, NEW turns, NEW n \in Nat,
         Traces(f, c, turns, n)
  PROVE  f[0] = c /\ \A i \in 1..n : f[i] = Turn[f[i - 1]][turns[i]]
<1> DEFINE value(i) == IF i = 0 THEN c ELSE Turn[f[i - 1]][turns[i]]
<1>1. \A i \in 0..n : f[i] = value(i)
  <2>1. f = [i \in 0..n |-> value(i)]
    BY DEF Traces
  <2>. HIDE DEF value
  <2>. QED BY <2>1
<1>2. 0 \in 0..n /\ \A i \in 1..n : i \in 0..n /\ i # 0
  OBVIOUS
<1>3. f[0] = value(0) /\ \A i \in 1..n : f[i] = value(i)
  <2>. HIDE DEF value
  <2>. QED BY <1>1, <1>2
<1>. QED BY <1>2, <1>3

LEMMA TraceExists ==
  ASSUME NEW c, NEW turns
  PROVE  \A n \in Nat : \E f : Traces(f, c, turns, n)
<1> DEFINE T == {n \in Nat : \E f : Traces(f, c, turns, n)}
<1>1. 0 \in T
  <2>. DEFINE f == [i \in 0..0 |-> c]
  <2>1. f = [i \in 0..0 |-> IF i = 0 THEN c ELSE Turn[f[i - 1]][turns[i]]]
    OBVIOUS
  <2>. QED BY <2>1 DEF Traces
<1>2. ASSUME NEW n \in Nat, n \in T PROVE n + 1 \in T
  <2>1. PICK f : Traces(f, c, turns, n)
    BY <1>2
  <2> DEFINE g == [i \in 0..(n + 1) |-> IF i = n + 1 THEN Turn[f[n]][turns[n + 1]] ELSE f[i]]
  <2>2. \A i \in 0..n : g[i] = f[i]
    OBVIOUS
  <2>3. g[n + 1] = Turn[f[n]][turns[n + 1]]
    OBVIOUS
  <2>4. \A i \in 0..n : i # 0 => i \in 1..n /\ i - 1 \in 0..n
    OBVIOUS
  <2>5. f[0] = c /\ \A i \in 1..n : f[i] = Turn[f[i - 1]][turns[i]]
    BY <2>1, TraceValues
  <2>6. \A i \in 0..(n + 1) : g[i] = IF i = 0 THEN c ELSE Turn[g[i - 1]][turns[i]]
    <3>1. \A i \in 0..n : g[i] = IF i = 0 THEN c ELSE Turn[g[i - 1]][turns[i]]
      <4>. HIDE DEF g
      <4>. QED BY <2>2, <2>4, <2>5
    <3>2. g[n + 1] = Turn[g[n + 1 - 1]][turns[n + 1]] /\ n + 1 # 0
      <4>1. n + 1 - 1 = n /\ n \in 0..n /\ n + 1 # 0
        OBVIOUS
      <4>2. g[n] = f[n]
        BY <2>2, <4>1
      <4>. HIDE DEF g
      <4>. QED BY <2>3, <4>1, <4>2
    <3>3. \A i \in 0..(n + 1) : i \in 0..n \/ i = n + 1
      OBVIOUS
    <3>. HIDE DEF g
    <3>. QED BY <3>1, <3>2, <3>3
  <2>7. g = [i \in 0..(n + 1) |-> g[i]]
    OBVIOUS
  <2>8. g = [i \in 0..(n + 1) |-> IF i = 0 THEN c ELSE Turn[g[i - 1]][turns[i]]]
    <3>. HIDE DEF g
    <3>. QED BY <2>6, <2>7
  <2>9. \E h : Traces(h, c, turns, n + 1)
    <3>. HIDE DEF g
    <3>. QED BY <2>8 DEF Traces
  <2>. QED BY <2>9
<1>3. \A n \in Nat : n \in T
  <2>. HIDE DEF T
  <2>. QED BY <1>1, <1>2, Induct
<1>. QED BY <1>3

LEMMA ReplayIs ==
  ASSUME NEW c, NEW turns, Len(turns) \in Nat
  PROVE  \E f : Traces(f, c, turns, Len(turns)) /\ Replay(c, turns) = f[Len(turns)]
<1> DEFINE after == CHOOSE f : Traces(f, c, turns, Len(turns))
<1>1. Traces(after, c, turns, Len(turns))
  <2>. QED BY TraceExists, Zenon
<1>2. Replay(c, turns) = after[Len(turns)]
  BY Zenon DEF Replay, Traces
<1>. QED BY <1>1, <1>2, Zenon

(* Turns that begin alike lead the same way.                               *)
LEMMA TracesAgree ==
  ASSUME NEW c, NEW t, NEW u, NEW f, NEW g, Traces(f, c, t, Len(t)), Traces(g, c, u, Len(u)),
         NEW n \in Nat, Len(t) \in Nat, Len(u) \in Nat, n <= Len(t), n <= Len(u),
         \A i \in 1..n : t[i] = u[i]
  PROVE  f[n] = g[n]
<1> DEFINE T == {i \in Nat : i <= n => f[i] = g[i]}
<1>1. f[0] = c /\ \A i \in 1..Len(t) : f[i] = Turn[f[i - 1]][t[i]]
  BY TraceValues
<1>2. g[0] = c /\ \A i \in 1..Len(u) : g[i] = Turn[g[i - 1]][u[i]]
  BY TraceValues
<1>3. 0 \in T
  BY <1>1, <1>2
<1>4. ASSUME NEW i \in Nat, i \in T PROVE i + 1 \in T
  <2>1. CASE i + 1 <= n
    <3>1. i + 1 \in 1..Len(t) /\ i + 1 \in 1..Len(u) /\ i + 1 \in 1..n /\ (i + 1) - 1 = i
      BY <2>1
    <3>2. f[i + 1] = Turn[f[i]][t[i + 1]] /\ g[i + 1] = Turn[g[i]][u[i + 1]]
      BY <1>1, <1>2, <3>1
    <3>3. f[i] = g[i]
      BY <1>4, <2>1
    <3>. QED BY <3>1, <3>2, <3>3
  <2>. QED BY <2>1
<1>5. \A i \in Nat : i \in T
  <2>. HIDE DEF T
  <2>. QED BY <1>3, <1>4, Induct
<1>. QED BY <1>5

(* No turns lead to the cube itself, and one turn more to its turn.        *)
LEMMA ReplayNone ==
  ASSUME NEW c, NEW turns, Len(turns) = 0
  PROVE  Replay(c, turns) = c
<1>1. PICK f : Traces(f, c, turns, Len(turns)) /\ Replay(c, turns) = f[0]
  BY ReplayIs
<1>2. f[0] = c
  BY <1>1, TraceValues
<1>. QED BY <1>1, <1>2

LEMMA ReplayNext ==
  ASSUME NEW c, NEW t, NEW u, Len(t) \in Nat, Len(u) = Len(t) + 1,
         \A i \in 1..Len(t) : u[i] = t[i]
  PROVE  Replay(c, u) = Turn[Replay(c, t)][u[Len(u)]]
<1>1. PICK f : Traces(f, c, t, Len(t)) /\ Replay(c, t) = f[Len(t)]
  BY ReplayIs
<1>2. PICK g : Traces(g, c, u, Len(u)) /\ Replay(c, u) = g[Len(u)]
  BY ReplayIs
<1>3. f[Len(t)] = g[Len(t)]
  BY <1>1, <1>2, TracesAgree
<1>4. \A i \in 1..Len(u) : g[i] = Turn[g[i - 1]][u[i]]
  BY <1>2, TraceValues
<1>5. g[Len(u)] = Turn[g[Len(t)]][u[Len(u)]]
  BY <1>4
<1>. QED BY <1>1, <1>2, <1>3, <1>5
-------------------------------------------------------------------------------
(* Within, likewise.  f[i] is the set of cubes within i turns.             *)
Spreads(f, c, n) == f = [i \in 0..n |-> IF i = 0 THEN {c} ELSE Wider(f[i - 1])]

LEMMA SpreadValues ==
  ASSUME NEW f, NEW c, NEW n \in Nat, Spreads(f, c, n)
  PROVE  f[0] = {c} /\ \A i \in 1..n : f[i] = Wider(f[i - 1])
<1> DEFINE value(i) == IF i = 0 THEN {c} ELSE Wider(f[i - 1])
<1>1. \A i \in 0..n : f[i] = value(i)
  <2>1. f = [i \in 0..n |-> value(i)]
    BY DEF Spreads
  <2>. HIDE DEF value
  <2>. QED BY <2>1
<1>2. 0 \in 0..n /\ \A i \in 1..n : i \in 0..n /\ i # 0
  OBVIOUS
<1>3. f[0] = value(0) /\ \A i \in 1..n : f[i] = value(i)
  <2>. HIDE DEF value
  <2>. QED BY <1>1, <1>2
<1>. QED BY <1>2, <1>3

LEMMA SpreadExists ==
  ASSUME NEW c
  PROVE  \A n \in Nat : \E f : Spreads(f, c, n)
<1> DEFINE T == {n \in Nat : \E f : Spreads(f, c, n)}
<1>1. 0 \in T
  <2>. DEFINE f == [i \in 0..0 |-> {c}]
  <2>1. f = [i \in 0..0 |-> IF i = 0 THEN {c} ELSE Wider(f[i - 1])]
    OBVIOUS
  <2>. QED BY <2>1 DEF Spreads
<1>2. ASSUME NEW n \in Nat, n \in T PROVE n + 1 \in T
  <2>1. PICK f : Spreads(f, c, n)
    BY <1>2
  <2> DEFINE g == [i \in 0..(n + 1) |-> IF i = n + 1 THEN Wider(f[n]) ELSE f[i]]
  <2>2. \A i \in 0..n : g[i] = f[i]
    OBVIOUS
  <2>3. g[n + 1] = Wider(f[n])
    OBVIOUS
  <2>4. \A i \in 0..n : i # 0 => i \in 1..n /\ i - 1 \in 0..n
    OBVIOUS
  <2>5. f[0] = {c} /\ \A i \in 1..n : f[i] = Wider(f[i - 1])
    BY <2>1, SpreadValues
  <2>6. \A i \in 0..(n + 1) : g[i] = IF i = 0 THEN {c} ELSE Wider(g[i - 1])
    <3>1. \A i \in 0..n : g[i] = IF i = 0 THEN {c} ELSE Wider(g[i - 1])
      <4>. HIDE DEF g
      <4>. QED BY <2>2, <2>4, <2>5
    <3>2. g[n + 1] = Wider(g[n + 1 - 1]) /\ n + 1 # 0
      <4>1. n + 1 - 1 = n /\ n \in 0..n /\ n + 1 # 0
        OBVIOUS
      <4>2. g[n] = f[n]
        BY <2>2, <4>1
      <4>. HIDE DEF g
      <4>. QED BY <2>3, <4>1, <4>2
    <3>3. \A i \in 0..(n + 1) : i \in 0..n \/ i = n + 1
      OBVIOUS
    <3>. HIDE DEF g
    <3>. QED BY <3>1, <3>2, <3>3
  <2>7. g = [i \in 0..(n + 1) |-> g[i]]
    OBVIOUS
  <2>8. g = [i \in 0..(n + 1) |-> IF i = 0 THEN {c} ELSE Wider(g[i - 1])]
    <3>. HIDE DEF g
    <3>. QED BY <2>6, <2>7
  <2>9. \E h : Spreads(h, c, n + 1)
    <3>. HIDE DEF g
    <3>. QED BY <2>8 DEF Spreads
  <2>. QED BY <2>9
<1>3. \A n \in Nat : n \in T
  <2>. HIDE DEF T
  <2>. QED BY <1>1, <1>2, Induct
<1>. QED BY <1>3

LEMMA WithinIs ==
  ASSUME NEW c, NEW n \in Nat
  PROVE  \E f : Spreads(f, c, n) /\ Within(c, n) = f[n]
<1> DEFINE after == CHOOSE f : Spreads(f, c, n)
<1>1. Spreads(after, c, n)
  BY SpreadExists, Zenon
<1>2. Within(c, n) = after[n]
  BY Zenon DEF Within, Spreads
<1>. QED BY <1>1, <1>2, Zenon

LEMMA SpreadsAgree ==
  ASSUME NEW c, NEW m \in Nat, NEW n \in Nat, m <= n, NEW f, NEW g,
         Spreads(f, c, m), Spreads(g, c, n)
  PROVE  f[m] = g[m]
<1> DEFINE T == {i \in Nat : i <= m => f[i] = g[i]}
<1>1. f[0] = {c} /\ \A i \in 1..m : f[i] = Wider(f[i - 1])
  BY SpreadValues
<1>2. g[0] = {c} /\ \A i \in 1..n : g[i] = Wider(g[i - 1])
  BY SpreadValues
<1>3. 0 \in T
  BY <1>1, <1>2
<1>4. ASSUME NEW i \in Nat, i \in T PROVE i + 1 \in T
  <2>1. CASE i + 1 <= m
    <3>1. i + 1 \in 1..m /\ i + 1 \in 1..n /\ (i + 1) - 1 = i
      BY <2>1
    <3>2. f[i + 1] = Wider(f[i]) /\ g[i + 1] = Wider(g[i])
      BY <1>1, <1>2, <3>1
    <3>3. f[i] = g[i]
      BY <1>4, <2>1
    <3>. QED BY <3>1, <3>2, <3>3
  <2>. QED BY <2>1
<1>5. \A i \in Nat : i \in T
  <2>. HIDE DEF T
  <2>. QED BY <1>3, <1>4, Induct
<1>. QED BY <1>5

(* One cube is within no turns; within one more are those and their turns. *)
LEMMA WithinNone ==
  ASSUME NEW c
  PROVE  Within(c, 0) = {c}
<1>1. PICK f : Spreads(f, c, 0) /\ Within(c, 0) = f[0]
  BY WithinIs
<1>. QED BY <1>1, SpreadValues

LEMMA WithinNext ==
  ASSUME NEW c, NEW n \in Nat
  PROVE  Within(c, n + 1) = Wider(Within(c, n))
<1>1. PICK f : Spreads(f, c, n) /\ Within(c, n) = f[n]
  BY WithinIs
<1>2. PICK g : Spreads(g, c, n + 1) /\ Within(c, n + 1) = g[n + 1]
  BY WithinIs
<1>3. f[n] = g[n]
  BY <1>1, <1>2, SpreadsAgree
<1>4. g[n + 1] = Wider(g[n])
  <2>1. \A i \in 1..(n + 1) : g[i] = Wider(g[i - 1])
    BY <1>2, SpreadValues
  <2>2. n + 1 \in 1..(n + 1) /\ (n + 1) - 1 = n
    OBVIOUS
  <2>. QED BY <2>1, <2>2
<1>. QED BY <1>1, <1>2, <1>3, <1>4

LEMMA WithinGrows ==
  ASSUME NEW c, NEW m \in Nat, NEW n \in Nat, m <= n
  PROVE  Within(c, m) \subseteq Within(c, n)
<1> DEFINE T == {k \in Nat : Within(c, m) \subseteq Within(c, m + k)}
<1>1. 0 \in T
  OBVIOUS
<1>2. ASSUME NEW k \in Nat, k \in T PROVE k + 1 \in T
  <2>1. Within(c, m) \subseteq Within(c, m + k)
    BY <1>2
  <2>2. m + k \in Nat /\ m + (k + 1) = (m + k) + 1
    OBVIOUS
  <2>3. Within(c, m + k) \subseteq Within(c, (m + k) + 1)
    BY <2>2, WithinNext DEF Wider
  <2>. QED BY <2>1, <2>2, <2>3
<1>3. \A k \in Nat : k \in T
  <2>. HIDE DEF T
  <2>. QED BY <1>1, <1>2, Induct
<1>4. n - m \in Nat /\ m + (n - m) = n
  OBVIOUS
<1>5. n - m \in T
  BY <1>3, <1>4
<1>. QED BY <1>4, <1>5
-------------------------------------------------------------------------------
(* No step lowers a depth.  It is what solver_update_cubestate's loop does *)
(* when a thread meets a state that is deeper than the one it made.        *)
DepthsStay == [][\A s \in Pointers : heap'[s].depth = heap[s].depth]_heap

(* Whoever checks a CubeState checks one of the same depth as the others   *)
(* do: any number of workers, overlapping as they like on one level, but   *)
(* none begins the next before the last of them is done.                   *)
LevelByLevel ==
  \A p, q \in Procs :
    pc[p] \in Checking /\ pc[q] \in Checking => heap[cur[p]].depth = heap[cur[q]].depth

(* A single worker keeps to one level, since main and its worker never     *)
(* check CubeStates at once.                                               *)
LEMMA OneChecks ==
  ASSUME IInv, NumThreads = 1, NEW p \in Procs, pc[p] \in Checking,
         NEW q \in Procs, pc[q] \in Checking
  PROVE  p = q
<1>1. Threads = {1} /\ Procs = {0, 1}
  BY DEF Threads, Procs
<1>2. pc[0] \in Checking => pc[1] = "idle"
  BY <1>1 DEF IInv, Phases, Checking
<1>. QED BY <1>1, <1>2 DEF Checking

LEMMA OneWorkerKeepsToALevel ==
  ASSUME NumThreads = 1
  PROVE  Spec => []LevelByLevel
<1>1. ASSUME IInv PROVE LevelByLevel
  BY <1>1, OneChecks DEF LevelByLevel
<1>2. IInv => LevelByLevel
  BY <1>1
<1>. QED BY <1>2, Invariance, PTL

(* What a step does to the heap that lowers no depth: nothing that is      *)
(* stored changes.                                                         *)
StatesStay ==
  /\ heap' = heap \/ Start \/ \E p \in Procs : Insert(p)
  /\ Pointers \subseteq Pointers'
  /\ \A s \in Pointers : heap'[s] = heap[s]

LEMMA StoringStays ==
  ASSUME IInv, [Next]_vars, \A p \in Procs : CasDepth(p) => heap' = heap
  PROVE  StatesStay
<1>1. ASSUME NEW p \in Procs, Insert(p)
      PROVE  Pointers \subseteq Pointers' /\ \A s \in Pointers : heap'[s] = heap[s]
  BY <1>1, InsertStores
<1>2. Start => Pointers = {} /\ Pointers' = {1}
  BY StartStores
<1>3. heap' = heap => Pointers' = Pointers
  BY DEF Pointers
<1>. QED BY <1>1, <1>2, <1>3, HeapSteps DEF StatesStay

(* The first CubeState stays the first.                                    *)
LEMMA FirstStays ==
  ASSUME IInv, StatesStay, Pointers # {}
  PROVE  heap'[1] = heap[1]
<1>1. 1 \in Pointers
  BY Types
<1>. QED BY <1>1 DEF StatesStay

LEMMA DepthsAre ==
  ASSUME IInv
  PROVE  \A s \in Pointers : heap[s].depth \in Nat
<1>1. \A s \in Pointers : heap[s] \in CubeState
  BY Types
<1>. QED BY <1>1 DEF CubeState
-------------------------------------------------------------------------------
(* PathsReplay.                                                            *)

(* The turns of a CubeState lead from the first cube to its own.           *)
Leads(s) == Replay(heap[1].cube, Path(s)) = s.cube

(* The state a process makes is one deeper than the one it turns, and when *)
(* the moves are copied they lead to it.                                   *)
Made(p) ==
  /\ pc[p] \in Checking \ {"compare", "depth"} => new[p].depth = heap[cur[p]].depth + 1
  /\ pc[p] \in Checking \ {"compare", "depth", "copy"} => Leads(new[p])

PathInv == PathsReplay /\ \A p \in Procs : Made(p)

LEMMA PathIs ==
  ASSUME IInv, NEW s \in Pointers
  PROVE  /\ Len(Path(heap[s])) = heap[s].depth
         /\ \A i \in 1..heap[s].depth : Path(heap[s])[i] = heap[s].moves[i]
<1>1. heap[s] \in CubeState /\ heap[s].depth <= Len(heap[s].moves)
  BY Types DEF IInv, MovesCoverDepth
<1>2. heap[s].moves \in Seq(Moves) /\ heap[s].depth \in Nat
  BY <1>1 DEF CubeState
<1>. QED BY <1>1, <1>2, SubSeqProperties DEF Path

(* The copy of the moves, with the turn that was made at its end.          *)
LEMMA CopyLeads ==
  ASSUME IInv, SearchInv, PathInv, NEW p \in Procs, CopyMoves(p)
  PROVE  /\ Leads(new[p])'
         /\ new'[p].depth = heap[cur[p]].depth + 1
<1> DEFINE s == heap[cur[p]]
           u == Path(new'[p])
<1>1. /\ pc[p] = "copy" /\ cur[p] \in Pointers /\ move[p] \in Moves /\ new[p] \in CubeState
      /\ s \in CubeState /\ heap' = heap
  BY Types DEF CopyMoves, At, IInv, Locals, Checking, shared
<1>2. new[p].depth = s.depth + 1 /\ s.depth \in Nat
  BY <1>1 DEF PathInv, Made, Checking, CubeState
<1>3. PICK len \in s.depth..(new[p].depth - 1) :
        new' = [new EXCEPT ![p].moves = CopiedMoves(s, len, new[p].depth, move[p])]
  BY DEF CopyMoves
<1>4. len = s.depth
  BY <1>2
<1>5. /\ new'[p].moves = CopiedMoves(s, s.depth, s.depth + 1, move[p])
      /\ new'[p].depth = s.depth + 1 /\ new'[p].cube = new[p].cube
  <2>1. new \in [Procs -> CubeState]
    BY Types
  <2>. QED BY <1>1, <1>2, <1>3, <1>4, <2>1 DEF CubeState
<1>6. /\ new'[p].moves = [i \in 1..(s.depth + 1) |->
                            IF i = s.depth + 1 THEN move[p]
                            ELSE IF i <= s.depth THEN s.moves[i] ELSE 0]
  BY <1>5 DEF CopiedMoves
<1>7. /\ Len(u) = s.depth + 1 /\ u[s.depth + 1] = move[p]
      /\ \A i \in 1..s.depth : u[i] = s.moves[i]
  <2>1. Len(u) = s.depth + 1 /\ \A i \in 1..(s.depth + 1) : u[i] = new'[p].moves[i]
    <3>1. u = SubSeq(new'[p].moves, 1, s.depth + 1)
      BY <1>5 DEF Path
    <3>2. \A n \in Nat : \A m : LET v == SubSeq(m, 1, n)
                                IN Len(v) = n /\ \A i \in 1..n : v[i] = m[i]
      OBVIOUS
    <3>. QED BY <1>2, <3>1, <3>2
  <2>2. s.depth + 1 \in 1..(s.depth + 1) /\ \A i \in 1..s.depth : i \in 1..(s.depth + 1) /\ i # s.depth + 1 /\ i <= s.depth
    BY <1>2
  <2>. QED BY <1>6, <2>1, <2>2
<1>8. Len(Path(s)) = s.depth /\ \A i \in 1..s.depth : Path(s)[i] = s.moves[i]
  BY <1>1, PathIs
<1>9. Replay(heap[1].cube, Path(s)) = s.cube
  BY <1>1 DEF PathInv, PathsReplay
<1>10. Replay(heap[1].cube, u) = Turn[Replay(heap[1].cube, Path(s))][u[Len(u)]]
  <2>1. Len(Path(s)) \in Nat /\ Len(u) = Len(Path(s)) + 1
    BY <1>2, <1>7, <1>8
  <2>2. \A i \in 1..Len(Path(s)) : u[i] = Path(s)[i]
    BY <1>7, <1>8
  <2>. HIDE DEF u, s
  <2>. QED BY <2>1, <2>2, ReplayNext
<1>11. Replay(heap[1].cube, u) = Turn[s.cube][move[p]]
  BY <1>7, <1>9, <1>10
<1>12. new[p].cube = Turn[s.cube][move[p]]
  BY <1>1 DEF SearchInv, Progress, Checking
<1>. QED BY <1>1, <1>5, <1>11, <1>12 DEF Leads

(* A step of the process that steps, and of the others.                    *)
LEMMA OwnMade ==
  ASSUME IInv, SearchInv, PathInv, StatesStay, NEW p \in Procs,
         CheckState(p) \/ (p \in Threads /\ ThreadSolve(p))
  PROVE  Made(p)'
<1>t. /\ pc \in [Procs -> Labels] /\ cur \in [Procs -> Pointers \cup {0}]
      /\ new \in [Procs -> CubeState]
  BY Types
<1>f. Made(p)
  BY DEF PathInv
<1>c. pc[p] \in Checking => /\ heap'[1] = heap[1]
                            /\ heap'[cur[p]] = heap[cur[p]]
  <2>1. pc[p] \in Checking => cur[p] \in Pointers /\ Pointers # {}
    BY DEF IInv, Locals
  <2>. QED BY <2>1, FirstStays DEF StatesStay
<1> USE DEF Goto, At
<1>0. ASSUME pc'[p] \notin Checking \ {"compare", "depth"} PROVE Made(p)'
  BY <1>0 DEF Made, Checking
<1>1. CASE CompareSolved(p) \/ CompareOther(p)
  BY <1>t, <1>0, <1>1 DEF CompareSolved, CompareOther, Checking
<1>2. CASE VisitDone(p) \/ Push(p)
  <2>1. pc'[p] \in {"depth", "spawn", "empty"}
    BY <1>2, Advances DEF VisitDone, Push
  <2>. QED BY <1>0, <2>1 DEF Checking
<1>3. CASE p \in Threads /\ (QueueIsEmpty(p) \/ ReadIsSolved(p) \/ Pop(p) \/ PopNull(p))
  <2>1. pc'[p] \in {"end", "flag", "pop", "compare"}
    BY <1>t, <1>3 DEF QueueIsEmpty, ReadIsSolved, Pop, PopNull, Die
  <2>. QED BY <1>0, <2>1 DEF Checking
<1>4. CASE NextDepth(p)
  <2>1. /\ pc'[p] = "copy" /\ heap' = heap /\ cur' = cur
        /\ new'[p].depth = heap[cur[p]].depth + 1
    BY <1>t, <1>4 DEF NextDepth, shared
  <2>. QED BY <2>1 DEF Made, Checking
<1>5. CASE CopyMoves(p)
  <2>1. pc'[p] = "lookup" /\ heap' = heap /\ cur' = cur
    BY <1>t, <1>5 DEF CopyMoves, shared
  <2>. QED BY <1>5, <2>1, CopyLeads DEF Made, Checking
<1>6. CASE CopyFault(p) \/ SlotFault(p)
  BY <1>f, <1>6 DEF CopyFault, SlotFault, Die, shared, local, Made, Leads
<1>7. CASE \/ LookupMiss(p) \/ LookupHit(p) \/ FollowSlot(p) \/ VisitDeeper(p)
           \/ CasDepth(p) \/ Insert(p)
  <2>1. /\ pc[p] \in Checking \ {"compare", "depth", "copy"} /\ cur' = cur /\ new' = new
    BY <1>7 DEF LookupMiss, LookupHit, FollowSlot, VisitDeeper, CasDepth, Insert, shared,
       local, Checking
  <2>. QED BY <1>c, <1>f, <2>1 DEF Made, Checking, Leads
<1>. QED BY <1>1, <1>2, <1>3, <1>4, <1>5, <1>6, <1>7 DEF CheckState, ThreadSolve

LEMMA NextMade ==
  ASSUME IInv, SearchInv, PathInv, StatesStay, [Next]_vars, NEW q \in Procs
  PROVE  Made(q)'
<1>t. pc \in [Procs -> Labels]
  BY Types
<1>k. ASSUME pc'[q] \in Checking \ {"compare", "depth"} => pc[q] = pc'[q],
             cur'[q] = cur[q], new'[q] = new[q]
      PROVE  Made(q)'
  <2>1. pc[q] \in Checking => /\ heap'[1] = heap[1]
                              /\ heap'[cur[q]] = heap[cur[q]]
    <3>1. pc[q] \in Checking => cur[q] \in Pointers /\ Pointers # {}
      BY DEF IInv, Locals
    <3>. QED BY <3>1, FirstStays DEF StatesStay
  <2>. QED BY <1>k, <2>1 DEF PathInv, Made, Leads
<1>1. ASSUME NEW p \in Procs, CheckState(p) \/ (p \in Threads /\ ThreadSolve(p)) PROVE Made(q)'
  <2>1. CASE q = p
    BY <1>1, <2>1, OwnMade
  <2>2. CASE q # p
    BY <1>1, <1>k, <2>2, OthersKeep
  <2>. QED BY <2>1, <2>2
<1>2. CASE UNCHANGED <<pc, local>>
  BY <1>2, <1>k DEF local
<1>3. CASE Start
  <2>1. pc'[q] \notin Checking \ {"compare", "depth"}
    BY <1>t, <1>3, ProcsAre DEF Start, Goto, At, IInv, Phases, Checking
  <2>. QED BY <2>1 DEF Made, Checking
<1>4. CASE Spawn \/ Join \/ Report
  <2>1. cur' = cur /\ new' = new
    BY <1>4 DEF Spawn, Join, Report, Die, local
  <2>2. pc'[q] \in Checking => pc[q] = pc'[q]
    BY <1>t, <1>4, ProcsAre DEF Spawn, Join, Report, Die, Goto, Checking
  <2>. QED BY <1>k, <2>1, <2>2
<1>. QED BY <1>1, <1>2, <1>3, <1>4, ProcsAre DEF Next, Solve, Stopped, StartFault, Die, vars

LEMMA NextPaths ==
  ASSUME IInv, PathInv, StatesStay
  PROVE  PathsReplay'
<1>1. CASE heap' = heap
  BY <1>1 DEF PathInv, PathsReplay, Pointers
<1>2. CASE Start
  <2>1. PICK c \in Cubes :
          StorageInsert([cube |-> c, moves |-> <<>>, depth |-> 0, by |-> Main])
    BY <1>2 DEF Start
  <2>2. /\ Pointers' = {1} /\ heap'[1].depth = 0
    BY <1>2, <2>1, StartStores, FirstIsState, Stores DEF IInv
  <2>3. Len(Path(heap'[1])) = 0
    BY <2>2 DEF Path
  <2>4. Replay(heap'[1].cube, Path(heap'[1])) = heap'[1].cube
    BY <2>3, ReplayNone
  <2>. QED BY <2>2, <2>4 DEF PathsReplay
<1>3. ASSUME NEW p \in Procs, Insert(p) PROVE PathsReplay'
  <2>1. /\ Pointers' = Pointers \cup {Len(heap) + 1} /\ \A t \in Pointers : heap'[t] = heap[t]
        /\ heap'[Len(heap) + 1] = new[p]
    BY <1>3, InsertStores
  <2>2. pc[p] = "insert" /\ cur[p] \in Pointers /\ Leads(new[p])
    BY <1>3 DEF Insert, At, IInv, Locals, PathInv, Made, Checking
  <2>3. heap'[1] = heap[1]
    BY <2>2, FirstStays
  <2>. QED BY <2>1, <2>2, <2>3 DEF PathInv, PathsReplay, Leads
<1>. QED BY <1>1, <1>2, <1>3 DEF StatesStay

LEMMA NextPathInv ==
  ASSUME IInv, SearchInv, PathInv, StatesStay, [Next]_vars
  PROVE  PathInv'
BY NextMade, NextPaths DEF PathInv

LEMMA InitPathInv == Init => PathInv
<1>. SUFFICES ASSUME Init PROVE PathInv
  OBVIOUS
<1>1. Pointers = {} /\ \A p \in Procs : pc[p] \in {"start", "idle"}
  BY EmptySeq, LenProperties DEF Init, Pointers
<1>. QED BY <1>1 DEF PathInv, PathsReplay, Made, Checking

(* Without a depth lowered, from Init on.                                  *)
LEMMA Replays == Spec /\ DepthsStay => [](IInv /\ PathInv)
<1>1. IInv /\ Handed /\ SearchInv /\ [Next]_vars => Handed' /\ SearchInv'
  BY NextHanded, NextSearchInv
<1>2. ASSUME IInv, SearchInv, PathInv, [Next]_vars,
             [\A s \in Pointers : heap'[s].depth = heap[s].depth]_heap
      PROVE  PathInv'
  <2>1. ASSUME NEW p \in Procs, CasDepth(p), heap' # heap PROVE FALSE
    <3> DEFINE t == target[p]
               e == [heap[t] EXCEPT !.depth = new[p].depth]
    <3>1. heap[t].depth = seen[p] /\ heap' = [heap EXCEPT ![t] = e]
      BY <2>1 DEF CasDepth
    <3>2. t \in Pointers /\ seen[p] > new[p].depth /\ seen[p] \in Nat /\ new[p] \in CubeState
      BY <1>2, <2>1 DEF CasDepth, At, IInv, TypeOK, Locals
    <3>3. heap[t] \in CubeState /\ new[p].depth \in Nat
      BY <1>2, <3>2, Types DEF CubeState
    <3>4. heap'[t] = e
      BY <3>1, <3>2 DEF Pointers
    <3>5. e.depth = new[p].depth
      BY <3>3 DEF CubeState
    <3>6. heap'[t].depth = heap[t].depth
      BY <1>2, <2>1, <3>2
    <3>. HIDE DEF e
    <3>. QED BY <3>1, <3>2, <3>3, <3>4, <3>5, <3>6
  <2>2. StatesStay
    BY <1>2, <2>1, StoringStays
  <2>. QED BY <1>2, <2>2, NextPathInv
<1>3. IInv /\ SearchInv /\ PathInv /\ [Next]_vars
        /\ [\A s \in Pointers : heap'[s].depth = heap[s].depth]_heap => PathInv'
  BY <1>2
<1>. QED BY <1>1, <1>3, InitSearchInv, InitPathInv, Invariance, PTL DEF Spec, DepthsStay

(* "Represents a path from the starting state, storing the current state   *)
(* and the moves to get from the initial to the current": up to the first  *)
(* exchange of a depth, the moves of every stored CubeState, replayed on   *)
(* the first, make its cube, however many workers store them at once       *)
(* (cube_state_next, check_state).                                         *)
THEOREM PathsHold == Spec /\ DepthsStay => []PathsReplay
<1>1. PathInv => PathsReplay
  BY DEF PathInv
<1>. QED BY <1>1, Replays, PTL
-------------------------------------------------------------------------------
(* DepthsAreShortest.                                                      *)

(* The queue while the workers keep to one level: its states are in the    *)
(* order of their depths and no stored state is more than one deeper than  *)
(* one that waits or is checked.                                           *)
Ordered ==
  /\ \A i, j \in DOMAIN queue : i < j => heap[queue[i]].depth <= heap[queue[j]].depth
  /\ \A s \in Pointers, i \in DOMAIN queue : heap[s].depth <= heap[queue[i]].depth + 1
  /\ \A p \in Procs : cur[p] # Null =>
       /\ \A i \in DOMAIN queue : heap[cur[p]].depth <= heap[queue[i]].depth
       /\ \A s \in Pointers : heap[s].depth <= heap[cur[p]].depth + 1

(* No way from the first cube to this one is shorter.                      *)
Farther(s) == s.cube \notin Within(heap[1].cube, s.depth - 1)

(* Nobody meets a deeper state than the one it made, and what it is about  *)
(* to store has no shorter way to it: as long as nothing is solved, and    *)
(* for the solved cube for good.                                           *)
Fresh(p) ==
  /\ pc[p] \notin {"again", "cas"}
  /\ pc[p] = "push" => heap[result[p]].depth = new[p].depth
  /\ pc[p] = "insert" /\ (~isSolved \/ new[p].cube = Solved) => Farther(new[p])

Shortest ==
  \A s \in Pointers :
    heap[s].depth > 0 /\ (~isSolved \/ heap[s].cube = Solved) => Farther(heap[s])

LevelInv ==
  /\ Ordered
  /\ PathInv
  /\ \A p \in Procs : Fresh(p)
  /\ Shortest
  /\ isSolved => Solved \in Stored

LEMMA LevelHeap ==
  ASSUME IInv, LevelInv, [Next]_vars
  PROVE  StatesStay
<1>1. ASSUME NEW p \in Procs, CasDepth(p) PROVE FALSE
  BY <1>1 DEF CasDepth, At, LevelInv, Fresh
<1>. QED BY <1>1, StoringStays

LEMMA StoringOrders ==
  ASSUME IInv, Handed, LevelByLevel, LevelInv, NEW p \in Procs, Insert(p)
  PROVE  Ordered'
<1>1. /\ Pointers' = Pointers \cup {Len(heap) + 1} /\ queue' = queue /\ cur' = cur
      /\ \A t \in Pointers : heap'[t] = heap[t]
      /\ heap'[Len(heap) + 1] = new[p]
  BY InsertStores DEF Insert
<1>2. /\ pc[p] = "insert" /\ cur[p] \in Pointers /\ cur[p] # 0
      /\ new[p].depth = heap[cur[p]].depth + 1
  BY Types DEF Insert, At, IInv, Locals, LevelInv, PathInv, Made, Checking
<1>3. /\ \A i \in DOMAIN queue : queue[i] \in Pointers
      /\ \A q \in Procs : cur[q] # 0 => cur[q] \in Pointers
  BY Types
<1>4. \A q \in Procs : cur[q] # 0 => heap[cur[q]].depth = heap[cur[p]].depth
  BY <1>2 DEF Handed, Checking, LevelByLevel
<1>d. \A s \in Pointers : heap[s].depth \in Nat
  BY DepthsAre
<1>5. \A i, j \in DOMAIN queue' : i < j => heap'[queue'[i]].depth <= heap'[queue'[j]].depth
  BY <1>1, <1>3 DEF LevelInv, Ordered
<1>6. ASSUME NEW s \in Pointers', NEW i \in DOMAIN queue'
      PROVE  heap'[s].depth <= heap'[queue'[i]].depth + 1
  <2>1. CASE s \in Pointers
    BY <1>1, <1>3, <2>1 DEF LevelInv, Ordered
  <2>2. CASE s = Len(heap) + 1
    <3>1. heap[cur[p]].depth <= heap[queue[i]].depth
      BY <1>1, <1>2 DEF LevelInv, Ordered
    <3>2. queue'[i] = queue[i] /\ queue[i] \in Pointers /\ heap'[queue[i]] = heap[queue[i]]
      BY <1>1, <1>3
    <3>3. heap'[s].depth = heap[cur[p]].depth + 1
      BY <1>1, <1>2, <2>2
    <3>4. heap[cur[p]].depth \in Nat /\ heap[queue[i]].depth \in Nat
      BY <1>2, <1>d, <3>2
    <3>. QED BY <3>1, <3>2, <3>3, <3>4
  <2>. QED BY <1>1, <2>1, <2>2
<1>7. ASSUME NEW q \in Procs, cur'[q] # Null
      PROVE  /\ \A i \in DOMAIN queue' : heap'[cur'[q]].depth <= heap'[queue'[i]].depth
             /\ \A s \in Pointers' : heap'[s].depth <= heap'[cur'[q]].depth + 1
  <2>1. /\ cur'[q] = cur[q] /\ cur[q] # 0 /\ heap'[cur[q]] = heap[cur[q]]
        /\ heap[cur[q]].depth = heap[cur[p]].depth
    BY <1>1, <1>3, <1>4, <1>7
  <2>2. \A i \in DOMAIN queue' : heap'[cur'[q]].depth <= heap'[queue'[i]].depth
    BY <1>1, <1>3, <2>1 DEF LevelInv, Ordered
  <2>3. \A s \in Pointers : heap'[s].depth <= heap'[cur'[q]].depth + 1
    BY <1>1, <2>1 DEF LevelInv, Ordered
  <2>4. heap'[Len(heap) + 1].depth <= heap'[cur'[q]].depth + 1
    BY <1>1, <1>2, <1>d, <2>1
  <2>. QED BY <1>1, <2>2, <2>3, <2>4
<1>. QED BY <1>5, <1>6, <1>7 DEF Ordered

LEMMA StartOrders ==
  ASSUME IInv, Start
  PROVE  Ordered'
<1>1. /\ Pointers = {} /\ Pointers' = {1} /\ queue' = queue
      /\ \A p \in Procs : cur'[p] \in {0, 1}
  BY StartStores, Types DEF Start
<1>2. DOMAIN queue = {}
  BY <1>1, Types
<1>3. heap'[1].depth = 0
  <2>1. PICK c \in Cubes :
          StorageInsert([cube |-> c, moves |-> <<>>, depth |-> 0, by |-> Main])
    BY DEF Start
  <2>2. Len(heap) = 0
    BY StartStores
  <2>. QED BY <2>1, <2>2, FirstIsState, Stores DEF IInv
<1>. QED BY <1>1, <1>2, <1>3 DEF Ordered

LEMMA PushOrders ==
  ASSUME IInv, Handed, LevelByLevel, LevelInv, NEW p \in Procs, Push(p)
  PROVE  Ordered'
<1>1. /\ queue' = Append(queue, result[p]) /\ heap' = heap /\ Pointers' = Pointers
      /\ pc[p] = "push" /\ cur[p] \in Pointers /\ cur[p] # 0 /\ result[p] \in Pointers
  BY Types DEF Push, At, IInv, Locals, Checking, Pointers
<1>2. \A q \in Procs : cur'[q] # 0 =>
        cur[q] # 0 /\ cur'[q] = cur[q] /\ heap[cur[q]].depth = heap[cur[p]].depth
  <2>1. \A q \in Procs : q # p => cur'[q] = cur[q]
    BY Advances DEF Push
  <2>2. cur'[p] \in {0, cur[p]}
    BY Advances DEF Push
  <2>3. \A q \in Procs : cur[q] # 0 => heap[cur[q]].depth = heap[cur[p]].depth
    BY <1>1 DEF Handed, Checking, LevelByLevel
  <2>. QED BY <2>1, <2>2, <2>3
<1>3. heap[result[p]].depth = heap[cur[p]].depth + 1
  BY <1>1 DEF LevelInv, PathInv, Made, Fresh, Checking
<1>4. /\ DOMAIN queue = 1..Len(queue) /\ Len(queue) \in Nat
      /\ DOMAIN queue' = 1..(Len(queue) + 1)
      /\ \A i \in DOMAIN queue : queue'[i] = queue[i] /\ queue[i] \in Pointers
      /\ queue'[Len(queue) + 1] = result[p]
  BY <1>1, Types, AppendProperties
<1>d. \A s \in Pointers : heap[s].depth \in Nat
  BY DepthsAre
<1>5. \A s \in Pointers : heap[s].depth <= heap[cur[p]].depth + 1
  BY <1>1 DEF LevelInv, Ordered
<1>6. \A i \in DOMAIN queue : heap[cur[p]].depth <= heap[queue[i]].depth
  BY <1>1 DEF LevelInv, Ordered
<1>7. \A i \in DOMAIN queue' : i \in DOMAIN queue \/ i = Len(queue) + 1
  BY <1>4
<1>8. ASSUME NEW i \in DOMAIN queue', NEW j \in DOMAIN queue', i < j
      PROVE  heap'[queue'[i]].depth <= heap'[queue'[j]].depth
  <2>1. i \in DOMAIN queue
    BY <1>4, <1>7, <1>8
  <2>2. CASE j \in DOMAIN queue
    BY <1>1, <1>4, <1>8, <2>1, <2>2 DEF LevelInv, Ordered
  <2>3. CASE j = Len(queue) + 1
    BY <1>1, <1>3, <1>4, <1>5, <2>1, <2>3
  <2>. QED BY <1>7, <2>2, <2>3
<1>9. ASSUME NEW s \in Pointers, NEW i \in DOMAIN queue'
      PROVE  heap[s].depth <= heap[queue'[i]].depth + 1
  <2>1. CASE i \in DOMAIN queue
    BY <1>4, <2>1 DEF LevelInv, Ordered
  <2>2. CASE i = Len(queue) + 1
    BY <1>1, <1>3, <1>4, <1>5, <1>d, <2>2
  <2>. QED BY <1>7, <2>1, <2>2
<1>10. \A i \in DOMAIN queue' : heap[cur[p]].depth <= heap[queue'[i]].depth
  BY <1>1, <1>3, <1>4, <1>6, <1>7, <1>d
<1>. QED BY <1>1, <1>2, <1>5, <1>8, <1>9, <1>10 DEF Ordered

LEMMA PopOrders ==
  ASSUME IInv, Ordered, NEW p \in Threads, Pop(p)
  PROVE  Ordered'
<1>1. /\ heap' = heap /\ Pointers' = Pointers /\ queue # <<>> /\ queue' = Tail(queue)
      /\ queue \in Seq(Pointers)
      /\ cur \in [Procs -> Pointers \cup {0}] /\ cur' = [cur EXCEPT ![p] = Head(queue)]
  BY Types DEF Pop, Pointers
<1>2. /\ Len(queue) \in Nat /\ Len(queue) >= 1 /\ DOMAIN queue = 1..Len(queue)
      /\ DOMAIN queue' = 1..(Len(queue) - 1)
      /\ \A i \in DOMAIN queue' : i + 1 \in DOMAIN queue /\ queue'[i] = queue[i + 1]
      /\ Head(queue) = queue[1]
  BY <1>1, HeadTailProperties, EmptySeq, LenProperties
<1>3. \A i, j \in DOMAIN queue' : i < j => heap'[queue'[i]].depth <= heap'[queue'[j]].depth
  BY <1>1, <1>2 DEF Ordered
<1>4. \A s \in Pointers', i \in DOMAIN queue' : heap'[s].depth <= heap'[queue'[i]].depth + 1
  BY <1>1, <1>2 DEF Ordered
<1>5. ASSUME NEW q \in Procs, cur'[q] # Null
      PROVE  /\ \A i \in DOMAIN queue' : heap'[cur'[q]].depth <= heap'[queue'[i]].depth
             /\ \A s \in Pointers' : heap'[s].depth <= heap'[cur'[q]].depth + 1
  <2>1. CASE q = p
    <3>1. cur'[q] = queue[1] /\ 1 \in DOMAIN queue
      BY <1>1, <1>2, <2>1, ProcsAre
    <3>2. \A i \in DOMAIN queue' : heap[queue[1]].depth <= heap[queue[i + 1]].depth
      BY <1>2, <3>1 DEF Ordered
    <3>. QED BY <1>1, <1>2, <3>1, <3>2 DEF Ordered
  <2>2. CASE q # p
    <3>1. cur'[q] = cur[q]
      BY <1>1, <2>2
    <3>. QED BY <1>1, <1>2, <1>5, <3>1 DEF Ordered
  <2>. QED BY <2>1, <2>2
<1>. QED BY <1>3, <1>4, <1>5 DEF Ordered

LEMMA NextOrdered ==
  ASSUME IInv, Handed, LevelByLevel, LevelInv, StatesStay, [Next]_vars
  PROVE  Ordered'
<1>1. ASSUME heap' = heap, queue' = queue,
             \A q \in Procs : cur'[q] \in {0, cur[q]}
      PROVE  Ordered'
  BY <1>1 DEF LevelInv, Ordered, Pointers
<1>2. ASSUME NEW p \in Procs, CompareSolved(p) \/ VisitDone(p) PROVE Ordered'
  <2>1. heap' = heap /\ queue' = queue
    BY <1>2 DEF CompareSolved, VisitDone, shared
  <2>2. \A q \in Procs : cur'[q] \in {0, cur[q]}
    <3>1. CASE CompareSolved(p)
      BY <3>1, Types DEF CompareSolved
    <3>2. CASE VisitDone(p)
      BY <3>2, Advances DEF VisitDone
    <3>. QED BY <1>2, <3>1, <3>2
  <2>. QED BY <1>1, <2>1, <2>2
<1>3. CASE Report
  <2>1. CASE queue' = queue
    BY <1>1, <1>3, <2>1 DEF Report, Die, local, shared
  <2>2. CASE queue' = <<>>
    <3>1. DOMAIN queue' = {} /\ heap' = heap /\ cur' = cur
      BY <1>3, <2>2, EmptySeq DEF Report, Die, local, shared
    <3>. QED BY <3>1 DEF LevelInv, Ordered, Pointers
  <2>. QED BY <1>3, <2>1, <2>2 DEF Report, Die, shared
<1>4. CASE heap' = heap /\ UNCHANGED <<queue, cur, result>>
  BY <1>1, <1>4
<1>5. CASE Start
  BY <1>5, StartOrders
<1>6. ASSUME NEW p \in Procs, Insert(p) PROVE Ordered'
  BY <1>6, StoringOrders
<1>7. ASSUME NEW p \in Procs, Push(p) PROVE Ordered'
  BY <1>7, PushOrders
<1>8. ASSUME NEW p \in Threads, Pop(p) PROVE Ordered'
  BY <1>8, PopOrders DEF LevelInv
<1>. QED BY <1>2, <1>3, <1>4, <1>5, <1>6, <1>7, <1>8, HandSteps DEF StatesStay

(* All cubes within as many turns as the shallowest of the waiting states  *)
(* has are stored.                                                         *)
LEMMA Levels ==
  ASSUME IInv, SearchInv, Shortest, ~isSolved, pc[Main] # "end", Pointers # {},
         NEW n \in Nat, \A s \in Pointers : Waiting(s) => heap[s].depth >= n
  PROVE  Within(heap[1].cube, n) \subseteq Stored
<1> DEFINE first == heap[1].cube
           T == {k \in Nat : k <= n => Within(first, k) \subseteq Stored}
<1>1. 0 \in T
  <2>1. 1 \in Pointers
    BY Types
  <2>2. first \in Stored
    BY <2>1 DEF Stored
  <2>. HIDE DEF first
  <2>. QED BY <2>2, WithinNone
<1>2. ASSUME NEW k \in Nat, k \in T PROVE k + 1 \in T
  <2>. SUFFICES ASSUME k + 1 <= n, NEW c \in Within(first, k + 1) PROVE c \in Stored
    OBVIOUS
  <2>1. Within(first, k) \subseteq Stored
    BY <1>2
  <2>2. Within(first, k + 1) = Wider(Within(first, k))
    <3>. HIDE DEF first
    <3>. QED BY WithinNext
  <2>3. CASE c \in Within(first, k)
    BY <2>1, <2>3
  <2>4. ASSUME NEW d \in Within(first, k), NEW m \in Moves, c = Turn[d][m] PROVE c \in Stored
    <3>1. PICK s \in Pointers : heap[s].cube = d
      BY <2>1 DEF Stored
    <3>2. heap[s].depth \in Nat
      BY DepthsAre
    <3>3. ASSUME heap[s].depth > k PROVE FALSE
      <4>1. heap[s].depth - 1 \in Nat /\ k <= heap[s].depth - 1 /\ heap[s].depth > 0
        BY <3>2, <3>3
      <4>2. Within(first, k) \subseteq Within(first, heap[s].depth - 1)
        BY <4>1, WithinGrows
      <4>3. heap[s].cube \notin Within(first, heap[s].depth - 1)
        BY <4>1 DEF Shortest, Farther
      <4>. QED BY <3>1, <4>2, <4>3
    <3>4. ~(heap[s].depth >= n)
      BY <3>2, <3>3
    <3>5. Expanded(s)
      BY <3>4 DEF SearchInv, Covered
    <3>. QED BY <2>4, <3>1, <3>5 DEF Expanded
  <2>. HIDE DEF first
  <2>. QED BY <2>2, <2>3, <2>4 DEF Wider
<1>3. \A k \in Nat : k \in T
  <2>. HIDE DEF T
  <2>. QED BY <1>1, <1>2, Induct
<1>4. n \in T
  BY <1>3
<1>. QED BY <1>4

(* What a process that has missed a cube is about to store.                *)
LEMMA MissIsFarther ==
  ASSUME IInv, Handed, SearchInv, StorageIsSorted, LevelByLevel, LevelInv,
         NEW p \in Procs, LookupMiss(p), ~isSolved \/ new[p].cube = Solved
  PROVE  Farther(new[p])
<1> DEFINE n == heap[cur[p]].depth
<1>1. /\ pc[p] = "lookup" /\ pc[p] \in Checking /\ cur[p] \in Pointers /\ Pointers # {}
      /\ cur[p] # 0
  BY Types DEF LookupMiss, At, IInv, Locals, Checking
<1>2. new[p].depth = n + 1 /\ n \in Nat
  BY <1>1, DepthsAre DEF LevelInv, PathInv, Made, Checking
<1>3. new[p].cube \notin Stored
  BY MissIsTrue DEF Stored
<1>4. ~isSolved
  BY <1>3 DEF LevelInv
<1>5. ASSUME NEW s \in Pointers, Waiting(s) PROVE heap[s].depth >= n
  <2>d. heap[s].depth \in Nat
    BY DepthsAre
  <2>1. ASSUME NEW i \in DOMAIN queue, queue[i] = s PROVE heap[s].depth >= n
    BY <1>1, <1>2, <2>1, <2>d DEF LevelInv, Ordered
  <2>2. ASSUME NEW q \in Procs, cur[q] = s PROVE heap[s].depth >= n
    <3>1. pc[q] \in Checking
      BY <2>2, Types DEF Handed
    <3>2. heap[cur[q]].depth = n
      BY <1>1, <3>1 DEF LevelByLevel
    <3>. QED BY <1>2, <2>2, <3>2
  <2>3. ASSUME NEW q \in Procs, pc[q] = "push", result[q] = s PROVE heap[s].depth >= n
    <3>1. pc[q] \in Checking /\ heap[s].depth = heap[cur[q]].depth + 1
      BY <2>3 DEF LevelInv, Fresh, PathInv, Made, Checking
    <3>2. heap[cur[q]].depth = n
      BY <1>1, <3>1 DEF LevelByLevel
    <3>. QED BY <1>2, <3>1, <3>2
  <2>. QED BY <1>5, <2>1, <2>2, <2>3 DEF Waiting
<1>6. Within(heap[1].cube, n) \subseteq Stored
  <2>1. pc[Main] # "end"
    BY <1>1, Awake
  <2>. HIDE DEF n
  <2>. QED BY <1>1, <1>2, <1>4, <1>5, <2>1, Levels DEF LevelInv
<1>7. new[p].depth - 1 = n
  BY <1>2
<1>. QED BY <1>3, <1>6, <1>7 DEF Farther

LEMMA OwnFresh ==
  ASSUME IInv, Handed, SearchInv, StorageIsSorted, LevelByLevel, LevelInv, StatesStay,
         NEW p \in Procs, CheckState(p) \/ (p \in Threads /\ ThreadSolve(p))
  PROVE  Fresh(p)'
<1>t. /\ pc \in [Procs -> Labels] /\ new \in [Procs -> CubeState]
      /\ result \in [Procs -> Pointers \cup {0}]
  BY Types
<1>f. Fresh(p) /\ Made(p)
  BY DEF LevelInv, PathInv
<1> USE DEF Goto, At
<1>0. ASSUME pc'[p] \notin {"again", "cas", "push", "insert"} PROVE Fresh(p)'
  BY <1>0 DEF Fresh
<1>1. CASE CompareSolved(p) \/ CompareOther(p) \/ NextDepth(p) \/ CopyMoves(p) \/ LookupHit(p)
  BY <1>t, <1>0, <1>1 DEF CompareSolved, CompareOther, NextDepth, CopyMoves, LookupHit
<1>2. CASE VisitDone(p) \/ Push(p)
  <2>1. pc'[p] \in {"depth", "spawn", "empty"}
    BY <1>2, Advances DEF VisitDone, Push
  <2>. QED BY <1>0, <2>1
<1>3. CASE p \in Threads /\ (QueueIsEmpty(p) \/ ReadIsSolved(p) \/ Pop(p) \/ PopNull(p))
  <2>1. pc'[p] \in {"end", "flag", "pop", "compare"}
    BY <1>t, <1>3 DEF QueueIsEmpty, ReadIsSolved, Pop, PopNull, Die
  <2>. QED BY <1>0, <2>1
<1>4. CASE CopyFault(p) \/ SlotFault(p)
  BY <1>f, <1>4 DEF CopyFault, SlotFault, Die, shared, local, Fresh, Farther
<1>5. CASE LookupMiss(p)
  <2>1. pc'[p] = "insert" /\ heap' = heap /\ isSolved' = isSolved /\ new' = new
    BY <1>t, <1>5 DEF LookupMiss, shared, local
  <2>2. ~isSolved \/ new[p].cube = Solved => Farther(new[p])
    BY <1>5, MissIsFarther
  <2>. QED BY <2>1, <2>2 DEF Fresh, Farther
<1>6. CASE FollowSlot(p)
  <2>1. pc[p] = "visit"
    BY <1>f, <1>6 DEF FollowSlot, Fresh
  <2>2. pc'[p] = "load"
    BY <1>t, <1>6, <2>1 DEF FollowSlot
  <2>. QED BY <1>0, <2>2
<1>7. ASSUME VisitDeeper(p) PROVE FALSE
  <2>1. /\ pc[p] = "load" /\ heap[target[p]].depth > new[p].depth
        /\ target[p] \in Pointers /\ cur[p] \in Pointers /\ cur[p] # 0
    BY <1>7, Types DEF VisitDeeper, IInv, Locals, Checking
  <2>2. new[p].depth = heap[cur[p]].depth + 1
    BY <1>f, <2>1 DEF Made, Checking
  <2>3. heap[target[p]].depth <= heap[cur[p]].depth + 1
    BY <2>1 DEF LevelInv, Ordered
  <2>4. heap[target[p]].depth \in Nat /\ heap[cur[p]].depth \in Nat
    BY <2>1, DepthsAre
  <2>. QED BY <2>1, <2>2, <2>3, <2>4
<1>8. ASSUME CasDepth(p) PROVE FALSE
  BY <1>f, <1>8 DEF CasDepth, Fresh
<1>9. CASE Insert(p)
  <2>1. pc'[p] = "push" /\ new' = new /\ result'[p] = Len(heap) + 1
    BY <1>t, <1>9 DEF Insert
  <2>2. heap'[result'[p]] = new[p]
    BY <1>9, <2>1, InsertStores
  <2>. QED BY <2>1, <2>2 DEF Fresh
<1>. QED BY <1>1, <1>2, <1>3, <1>4, <1>5, <1>6, <1>7, <1>8, <1>9 DEF CheckState, ThreadSolve

LEMMA NextFresh ==
  ASSUME IInv, Handed, SearchInv, StorageIsSorted, LevelByLevel, LevelInv, StatesStay,
         [Next]_vars, NEW q \in Procs
  PROVE  Fresh(q)'
<1>t. pc \in [Procs -> Labels]
  BY Types
<1>s. isSolved => isSolved'
  BY SolvedStays
<1>k. ASSUME pc'[q] = pc[q], new'[q] = new[q], result'[q] = result[q]
      PROVE  Fresh(q)'
  <2>1. pc[q] \in Checking => heap'[1] = heap[1]
    <3>1. pc[q] \in Checking => Pointers # {}
      BY DEF IInv, Locals
    <3>. QED BY <3>1, FirstStays
  <2>2. pc[q] = "push" => heap'[result[q]] = heap[result[q]]
    BY DEF IInv, Locals, StatesStay
  <2>3. Fresh(q)
    BY DEF LevelInv
  <2>. QED BY <1>k, <1>s, <2>1, <2>2, <2>3 DEF Fresh, Farther, Checking
<1>1. ASSUME NEW p \in Procs, CheckState(p) \/ (p \in Threads /\ ThreadSolve(p)) PROVE Fresh(q)'
  <2>1. CASE q = p
    BY <1>1, <2>1, OwnFresh
  <2>2. CASE q # p
    BY <1>1, <1>k, <2>2, OthersKeep
  <2>. QED BY <2>1, <2>2
<1>2. CASE UNCHANGED <<pc, local>>
  BY <1>2, <1>k DEF local
<1>3. CASE Start
  <2>1. pc'[q] \in {"compare", "idle"}
    BY <1>t, <1>3, ProcsAre DEF Start, Goto, At, IInv, Phases
  <2>. QED BY <2>1 DEF Fresh
<1>4. CASE Spawn \/ Join \/ Report
  <2>1. new' = new /\ result' = result
    BY <1>4 DEF Spawn, Join, Report, Die, local
  <2>2. pc'[q] = pc[q] \/ pc'[q] \in {"join", "report", "end", "empty"}
    BY <1>t, <1>4, ProcsAre DEF Spawn, Join, Report, Die, Goto
  <2>. QED BY <1>k, <2>1, <2>2 DEF Fresh
<1>. QED BY <1>1, <1>2, <1>3, <1>4, ProcsAre DEF Next, Solve, Stopped, StartFault, Die, vars

LEMMA NextShortest ==
  ASSUME IInv, LevelInv, StatesStay, [Next]_vars
  PROVE  Shortest'
<1>s. isSolved => isSolved'
  BY SolvedStays
<1>1. CASE heap' = heap
  BY <1>s, <1>1 DEF LevelInv, Shortest, Farther, Pointers
<1>2. CASE Start
  <2>1. PICK c \in Cubes :
          StorageInsert([cube |-> c, moves |-> <<>>, depth |-> 0, by |-> Main])
    BY <1>2 DEF Start
  <2>2. Pointers' = {1} /\ heap'[1].depth = 0
    BY <1>2, <2>1, StartStores, FirstIsState, Stores DEF IInv
  <2>. QED BY <2>2 DEF Shortest
<1>3. ASSUME NEW p \in Procs, Insert(p) PROVE Shortest'
  <2>1. /\ Pointers' = Pointers \cup {Len(heap) + 1} /\ \A t \in Pointers : heap'[t] = heap[t]
        /\ heap'[Len(heap) + 1] = new[p]
    BY <1>3, InsertStores
  <2>2. pc[p] = "insert" /\ Pointers # {}
    BY <1>3 DEF Insert, At, IInv, Locals, Checking
  <2>3. heap'[1] = heap[1]
    BY <2>2, FirstStays
  <2>4. ~isSolved \/ new[p].cube = Solved => Farther(new[p])
    BY <2>2 DEF LevelInv, Fresh
  <2>. QED BY <1>s, <2>1, <2>3, <2>4 DEF LevelInv, Shortest, Farther
<1>. QED BY <1>1, <1>2, <1>3 DEF StatesStay

LEMMA NextLevelInv ==
  IInv /\ Handed /\ SearchInv /\ StorageIsSorted /\ LevelByLevel /\ LevelInv /\ [Next]_vars
    => LevelInv' /\ [\A s \in Pointers : heap'[s].depth = heap[s].depth]_heap
<1>. SUFFICES ASSUME IInv, Handed, SearchInv, StorageIsSorted, LevelByLevel, LevelInv,
                     [Next]_vars
              PROVE  LevelInv' /\ \A s \in Pointers : heap'[s].depth = heap[s].depth
  OBVIOUS
<1>1. StatesStay
  BY LevelHeap
<1>2. Ordered'
  BY <1>1, NextOrdered
<1>3. PathInv'
  BY <1>1, NextPathInv DEF LevelInv
<1>4. \A p \in Procs : Fresh(p)'
  BY <1>1, NextFresh
<1>5. Shortest'
  BY <1>1, NextShortest
<1>6. isSolved' => (Solved \in Stored)'
  <2>1. Stored \subseteq Stored'
    BY <1>1 DEF StatesStay, Stored
  <2>2. ASSUME NEW p \in Procs, CompareSolved(p) PROVE Solved \in Stored
    BY <2>2 DEF CompareSolved, At, IInv, Locals, Checking, Stored
  <2>3. isSolved' = isSolved \/ \E p \in Procs : CompareSolved(p)
    BY ResultSteps DEF Join, Report, Die, shared
  <2>. QED BY <2>1, <2>2, <2>3 DEF LevelInv
<1>. QED BY <1>1, <1>2, <1>3, <1>4, <1>5, <1>6 DEF LevelInv, StatesStay

LEMMA InitLevelInv == Init => LevelInv
<1>. SUFFICES ASSUME Init PROVE LevelInv
  OBVIOUS
<1>1. /\ DOMAIN queue = {} /\ Pointers = {} /\ ~isSolved
      /\ \A p \in Procs : cur[p] = 0 /\ pc[p] \in {"start", "idle"}
  BY EmptySeq, LenProperties DEF Init, Pointers
<1>2. Ordered /\ Shortest
  BY <1>1 DEF Ordered, Shortest
<1>3. \A p \in Procs : Fresh(p)
  BY <1>1 DEF Fresh
<1>. QED BY <1>1, <1>2, <1>3, InitPathInv DEF LevelInv

(* While the workers keep to one level, from Init on.                      *)
LEMMA Levelled == Spec /\ []LevelByLevel => [](IInv /\ LevelInv) /\ DepthsStay
<1>1. IInv /\ Handed /\ SearchInv /\ [Next]_vars => Handed' /\ SearchInv'
  BY NextHanded, NextSearchInv
<1>. QED BY <1>1, NextLevelInv, InitSearchInv, InitLevelInv, Invariance, Sorted, PTL
         DEF Spec, DepthsStay

(* As long as no worker is ahead of another by a level, the search is      *)
(* breadth first, however they overlap on one: until a solution is found,  *)
(* the depth of a stored CubeState is the least number of turns that make  *)
(* its cube of the first (thread_solve, queue_push, queue_pop).            *)
THEOREM LevelsAreShortest == Spec /\ []LevelByLevel => []DepthsAreShortest
<1>1. LevelInv => DepthsAreShortest
  BY DEF LevelInv, Shortest, Farther, DepthsAreShortest
<1>. QED BY <1>1, Levelled, PTL

(* Nobody who keeps to the level meets a deeper state of the cube it made, *)
(* although copies of it are stored: the exchange of depths, which lowers  *)
(* those of other cubes and leaves moves too long, comes only of workers   *)
(* that are ahead of others (solver_update_cubestate).                     *)
THEOREM LevelsLowerNothing == Spec /\ []LevelByLevel => DepthsStay
BY Levelled, PTL
-------------------------------------------------------------------------------
(* What solve has said when it is over, with any number of workers.        *)

(* Only the end of solve itself ends it.                                   *)
LEMMA ReportEnds ==
  ASSUME IInv, [Next]_vars, pc[Main] # "end", pc'[Main] = "end"
  PROVE  Report /\ pc[Main] = "report" /\ ~(isSolved /\ finalState = Null)
<1>t. pc \in [Procs -> Labels] /\ Main \in Procs
  BY Types, ProcsAre
<1> USE DEF Goto, At, Die, shared, mainVars, local
<1>1. ASSUME CheckState(Main) PROVE FALSE
  <2>1. CASE CompareSolved(Main) \/ CompareOther(Main) \/ NextDepth(Main) \/ CopyMoves(Main)
             \/ CopyFault(Main) \/ LookupMiss(Main) \/ LookupHit(Main)
    BY <1>t, <2>1 DEF CompareSolved, CompareOther, NextDepth, CopyMoves, CopyFault, LookupMiss,
       LookupHit
  <2>2. CASE FollowSlot(Main) \/ SlotFault(Main) \/ VisitDeeper(Main) \/ CasDepth(Main)
             \/ Insert(Main)
    BY <1>t, <2>2 DEF FollowSlot, SlotFault, VisitDeeper, CasDepth, Insert
  <2>3. CASE VisitDone(Main) \/ Push(Main)
    <3>1. Advance(Main)
      BY <2>3 DEF VisitDone, Push
    <3>2. pc'[Main] = "depth" \/ pc'[Main] = "spawn"
      BY <1>t, <3>1, Advances
    <3>. QED BY <3>2
  <2>. QED BY <1>1, <2>1, <2>2, <2>3 DEF CheckState
<1>2. ASSUME NEW p \in Threads, ThreadSolve(p) PROVE FALSE
  <2>1. p \in Procs /\ Main # p
    BY ProcsAre
  <2>2. pc'[Main] = pc[Main]
    BY <1>2, <1>t, <2>1, OthersKeep
  <2>. QED BY <2>2
<1>3. ASSUME Start \/ StartFault \/ Spawn \/ Join \/ UNCHANGED vars PROVE FALSE
  BY <1>t, <1>3 DEF Start, StartFault, Spawn, Join, vars
<1>4. Report
  BY <1>1, <1>2, <1>3 DEF Next, Solve, Stopped
<1>. QED BY <1>4 DEF Report

(* What it has printed is the path of a stored state of the solved cube;   *)
(* without a solution everything stored is expanded.                       *)
Reported ==
  pc[Main] = "end" /\ isSolved =>
    /\ finalState \in Pointers /\ heap[finalState].cube = Solved
    /\ printed = Path(heap[finalState])

Exhausted ==
  pc[Main] = "end" /\ ~isSolved => Pointers # {} /\ \A s \in Pointers : Expanded(s)

LEMMA NextReported == IInv /\ Results /\ Reported /\ [Next]_vars => Reported'
<1>. SUFFICES ASSUME IInv, Results, Reported, [Next]_vars, pc'[Main] = "end", isSolved'
              PROVE  /\ finalState' \in Pointers' /\ heap'[finalState'].cube = Solved
                     /\ printed' = Path(heap'[finalState'])
  BY DEF Reported
<1>1. CASE pc[Main] = "end"
  BY <1>1, EndStays DEF vars, shared, mainVars, Reported, Pointers
<1>2. CASE pc[Main] # "end"
  <2>1. Report /\ ~(isSolved /\ finalState = Null)
    BY <1>2, ReportEnds
  <2>2. /\ UNCHANGED <<heap, isSolved, finalState>> /\ Pointers' = Pointers
        /\ printed' = (IF isSolved THEN Path(heap[finalState]) ELSE <<>>)
    BY <2>1 DEF Report, Pointers, Path
  <2>3. finalState \in Pointers /\ heap[finalState].cube = Solved
    BY <2>1, <2>2 DEF IInv, TypeOK, Results
  <2>. QED BY <2>2, <2>3
<1>. QED BY <1>1, <1>2

LEMMA NextExhausted ==
  IInv /\ Handed /\ SearchInv /\ WorkIsAttended /\ Exhausted /\ [Next]_vars => Exhausted'
<1>. SUFFICES ASSUME IInv, Handed, SearchInv, WorkIsAttended, Exhausted, [Next]_vars,
                     pc'[Main] = "end", ~isSolved'
              PROVE  Pointers' # {} /\ \A s \in Pointers' : Expanded(s)'
  BY DEF Exhausted
<1>1. CASE pc[Main] = "end"
  BY <1>1, EndStays DEF vars, shared, Exhausted, Pointers, Expanded, Stored
<1>2. CASE pc[Main] # "end"
  <2>1. Report /\ pc[Main] = "report" /\ ~(isSolved /\ finalState = Null)
    BY <1>2, ReportEnds
  <2>2. UNCHANGED <<heap, isSolved>> /\ Pointers' = Pointers
    BY <2>1 DEF Report, Pointers
  <2>3. Pointers # {} /\ \A s \in Pointers : Expanded(s)
    BY <1>2, <2>1, <2>2, NothingWaits DEF SearchInv, Covered
  <2>. QED BY <2>2, <2>3 DEF Expanded, Stored
<1>. QED BY <1>1, <1>2

(* When everything stored is expanded, no number of turns leads out.       *)
LEMMA NothingBeyond ==
  ASSUME IInv, Pointers # {}, \A s \in Pointers : Expanded(s)
  PROVE  \A n \in Nat : Within(heap[1].cube, n) \subseteq Stored
<1> DEFINE first == heap[1].cube
           T == {n \in Nat : Within(first, n) \subseteq Stored}
<1>1. 0 \in T
  <2>1. 1 \in Pointers
    BY Types
  <2>2. first \in Stored
    BY <2>1 DEF Stored
  <2>. HIDE DEF first
  <2>. QED BY <2>2, WithinNone
<1>2. ASSUME NEW n \in Nat, n \in T PROVE n + 1 \in T
  <2>1. Within(first, n) \subseteq Stored
    BY <1>2
  <2>2. Within(first, n + 1) = Wider(Within(first, n))
    <3>. HIDE DEF first
    <3>. QED BY WithinNext
  <2>3. \A c \in Stored, m \in Moves : Turn[c][m] \in Stored
    BY DEF Stored, Expanded
  <2>. HIDE DEF first
  <2>. QED BY <2>1, <2>2, <2>3 DEF Wider
<1>3. \A n \in Nat : n \in T
  <2>. HIDE DEF T
  <2>. QED BY <1>1, <1>2, Induct
<1>. QED BY <1>3

(* No number of turns, not only as many as are stored.                     *)
UnsolvedForGood ==
  pc[Main] = "end" /\ ~isSolved => \A n \in Nat : Solved \notin Within(heap[1].cube, n)

(* However many workers race and however early some of them leave, solve   *)
(* comes back without a solution only for a cube that no turns solve       *)
(* (solve, startThreads, thread_solve, check_state).                       *)
THEOREM UnsolvedMeansUnsolvable == Spec => []UnsolvedForGood
<1>1. Init => Exhausted
  BY ProcsAre DEF Init, Exhausted
<1>2. ASSUME IInv, Exhausted PROVE UnsolvedForGood
  <2>. SUFFICES ASSUME pc[Main] = "end", ~isSolved, NEW n \in Nat
                PROVE  Solved \notin Within(heap[1].cube, n)
    BY DEF UnsolvedForGood
  <2>1. Pointers # {} /\ \A s \in Pointers : Expanded(s)
    BY <1>2 DEF Exhausted
  <2>2. Within(heap[1].cube, n) \subseteq Stored
    BY <1>2, <2>1, NothingBeyond
  <2>3. Solved \notin Stored
    BY <2>1 DEF Stored, Expanded
  <2>. QED BY <2>2, <2>3
<1>3. IInv /\ Handed /\ SearchInv /\ [Next]_vars => Handed' /\ SearchInv'
  BY NextHanded, NextSearchInv
<1>4. IInv /\ Exhausted => UnsolvedForGood
  BY <1>2
<1>. QED BY <1>1, <1>3, <1>4, InitSearchInv, NextExhausted, Invariance, Attended, PTL DEF Spec

(* In particular not as many as it has stored.                             *)
THEOREM UnsolvedUnreachable == Spec => []UnsolvedIsUnreachable
<1>1. ASSUME IInv, UnsolvedForGood PROVE UnsolvedIsUnreachable
  BY <1>1, Types DEF UnsolvedForGood, UnsolvedIsUnreachable
<1>2. IInv /\ UnsolvedForGood => UnsolvedIsUnreachable
  BY <1>1
<1>. QED BY <1>2, UnsolvedMeansUnsolvable, Invariance, PTL

(* solve "goes until it reaches the solved (default) state of the cube":   *)
(* up to the first exchange of a depth the turns it prints, applied to the *)
(* cube it was given, make the solved one (solve, startThreads).           *)
TurnsSolve == pc[Main] = "end" /\ isSolved => Replay(heap[1].cube, printed) = Solved

THEOREM PrintedSolves == Spec /\ DepthsStay => []TurnsSolve
<1>1. Init => Reported /\ Results
  BY ProcsAre DEF Init, Reported, Results
<1>2. PathInv /\ Reported => TurnsSolve
  BY DEF PathInv, Reported, PathsReplay, TurnsSolve
<1>. QED BY <1>1, <1>2, NextReported, NextResults, Invariance, Replays, PTL DEF Spec

(* While no worker is ahead of another by a level, no fewer turns do,      *)
(* whichever of them found the solution and whichever solution main kept.  *)
THEOREM LevelsSolve == Spec /\ []LevelByLevel => []SolutionIsShortest
<1>1. Init => Reported /\ Results
  BY ProcsAre DEF Init, Reported, Results
<1>2. ASSUME IInv, LevelInv, Reported PROVE SolutionIsShortest
  <2>. SUFFICES ASSUME pc[Main] = "end", isSolved
                PROVE  /\ Replay(heap[1].cube, printed) = Solved
                       /\ Len(printed) > 0 =>
                            Solved \notin Within(heap[1].cube, Len(printed) - 1)
    BY DEF SolutionIsShortest
  <2>1. finalState \in Pointers /\ heap[finalState].cube = Solved
        /\ printed = Path(heap[finalState])
    BY <1>2 DEF Reported
  <2>2. Len(printed) = heap[finalState].depth
    BY <1>2, <2>1, PathIs
  <2>. QED BY <1>2, <2>1, <2>2 DEF LevelInv, PathInv, PathsReplay, Shortest, Farther
<1>3. IInv /\ LevelInv /\ Reported => SolutionIsShortest
  BY <1>2
<1>. QED BY <1>1, <1>3, NextReported, NextResults, Invariance, Levelled, PTL DEF Spec
-------------------------------------------------------------------------------
(* Ways back.  Every turn of the program is undone by one: a quarter turn  *)
(* by three quarters, a half turn by itself (CubeTurnsProofs, TurnsUndone).*)
Invertible == \A m \in Moves : \E w \in Moves : \A c \in Cubes : Turn[Turn[c][m]][w] = c

LEMMA WiderCubes ==
  ASSUME NEW S, S \subseteq Cubes
  PROVE  Wider(S) \subseteq Cubes
<1>1. \A d \in Cubes, m \in Moves : Turn[d][m] \in Cubes
  OBVIOUS
<1>2. S \subseteq Cubes
  OBVIOUS
<1>. QED BY ONLY <1>1, <1>2 DEF Wider

LEMMA WithinCubes ==
  ASSUME NEW c \in Cubes
  PROVE  \A n \in Nat : Within(c, n) \subseteq Cubes
<1> DEFINE T == {n \in Nat : Within(c, n) \subseteq Cubes}
<1>1. 0 \in T
  BY WithinNone
<1>2. ASSUME NEW n \in Nat, n \in T PROVE n + 1 \in T
  <2>1. Within(c, n) \subseteq Cubes
    BY <1>2
  <2>2. Within(c, n + 1) = Wider(Within(c, n))
    BY WithinNext
  <2>. QED BY <2>1, <2>2, WiderCubes
<1>3. \A n \in Nat : n \in T
  <2>. HIDE DEF T
  <2>. QED BY <1>1, <1>2, Induct
<1>. QED BY <1>3

(* A turn more at the beginning.                                           *)
LEMMA WithinFirst ==
  ASSUME NEW c \in Cubes, NEW m \in Moves
  PROVE  \A n \in Nat : Within(Turn[c][m], n) \subseteq Within(c, n + 1)
<1> DEFINE d == Turn[c][m]
           T == {n \in Nat : Within(d, n) \subseteq Within(c, n + 1)}
<1>1. 0 \in T
  <2>1. Within(c, 0 + 1) = Wider({c})
    <3>1. Within(c, 0 + 1) = Wider(Within(c, 0))
      BY WithinNext, Zenon
    <3>. QED BY <3>1, WithinNone, Zenon
  <2>2. d \in Wider({c})
    BY DEF Wider
  <2>. HIDE DEF d
  <2>. QED BY <2>1, <2>2, WithinNone
<1>2. ASSUME NEW n \in Nat, n \in T PROVE n + 1 \in T
  <2>1. Within(d, n) \subseteq Within(c, n + 1)
    BY <1>2
  <2>2. Wider(Within(d, n)) \subseteq Wider(Within(c, n + 1))
    <3>. HIDE DEF d
    <3>. QED BY <2>1 DEF Wider
  <2>3. Within(d, n + 1) = Wider(Within(d, n))
    <3>. HIDE DEF d
    <3>. QED BY WithinNext
  <2>4. Within(c, (n + 1) + 1) = Wider(Within(c, n + 1))
    BY WithinNext
  <2>. HIDE DEF d
  <2>. QED BY <2>2, <2>3, <2>4
<1>3. \A n \in Nat : n \in T
  <2>. HIDE DEF T
  <2>. QED BY <1>1, <1>2, Induct
<1>. QED BY <1>3

LEMMA WayBack ==
  ASSUME Invertible, NEW c \in Cubes
  PROVE  \A n \in Nat : \A d \in Within(c, n) : c \in Within(d, n)
<1> DEFINE T == {n \in Nat : \A d \in Within(c, n) : c \in Within(d, n)}
<1>1. 0 \in T
  BY WithinNone
<1>2. ASSUME NEW n \in Nat, n \in T PROVE n + 1 \in T
  <2>. SUFFICES ASSUME NEW d \in Within(c, n + 1) PROVE c \in Within(d, n + 1)
    OBVIOUS
  <2>1. d \in Wider(Within(c, n))
    BY WithinNext
  <2>2. CASE d \in Within(c, n)
    <3>1. c \in Within(d, n)
      BY <1>2, <2>2
    <3>. QED BY <3>1, WithinGrows
  <2>3. ASSUME NEW e \in Within(c, n), NEW m \in Moves, d = Turn[e][m]
        PROVE  c \in Within(d, n + 1)
    <3>1. e \in Cubes /\ d \in Cubes
      BY <2>3, WithinCubes
    <3>2. PICK w \in Moves : Turn[d][w] = e
      BY <2>3, <3>1 DEF Invertible
    <3>3. Within(Turn[d][w], n) \subseteq Within(d, n + 1)
      BY <3>1, WithinFirst
    <3>4. c \in Within(e, n)
      BY <1>2
    <3>. QED BY <3>2, <3>3, <3>4
  <2>. QED BY <2>1, <2>2, <2>3 DEF Wider
<1>3. \A n \in Nat : n \in T
  <2>. HIDE DEF T
  <2>. QED BY <1>1, <1>2, Induct
<1>. QED BY <1>3

(* Every cube that turns of the solved one make is solved, when solve      *)
(* comes back, by however many workers: none of them leaving early, and no *)
(* cube missed or stored twice, ever costs the solution (solve,            *)
(* startThreads, thread_solve, check_state).                               *)
MadeCubesAreSolved ==
  pc[Main] = "end" /\ (\E n \in Nat : heap[1].cube \in Within(Solved, n)) => isSolved

THEOREM ScrambledIsSolved ==
  ASSUME Invertible
  PROVE  Spec => []MadeCubesAreSolved
<1>1. ASSUME UnsolvedForGood PROVE MadeCubesAreSolved
  <2>. SUFFICES ASSUME pc[Main] = "end", ~isSolved, NEW n \in Nat,
                       heap[1].cube \in Within(Solved, n)
                PROVE  FALSE
    BY DEF MadeCubesAreSolved
  <2>1. Solved \in Within(heap[1].cube, n)
    BY WayBack
  <2>. QED BY <1>1, <2>1 DEF UnsolvedForGood
<1>2. UnsolvedForGood => MadeCubesAreSolved
  BY <1>1
<1>. QED BY <1>2, UnsolvedMeansUnsolvable, PTL
===============================================================================
