---------------------------- MODULE MCSingleWorker ----------------------------
(***************************************************************************)
(* One worker on a graph of the program's own cubes: the 96 that the half  *)
(* turns of WHITE, BLUE and GREEN make of the solved one, turned and       *)
(* ordered as module Cube does.  Two of these turns commute, so most cubes *)
(* have several shortest ways to them.                                     *)
(***************************************************************************)
EXTENDS ConcurrentSolver, Cube

MCTurns == <<<<WHITE, ROT_180>>, <<BLUE, ROT_180>>,
             <<GREEN, ROT_180>>>>

MCDiameter == 12    \* enough turns to make every cube of the graph

Made(c, m) == cube_rotate(c, MCTurns[m + 1][1], MCTurns[m + 1][2])

Reachable ==
  LET after[i \in 0..MCDiameter] ==
        IF i = 0 THEN {cube_create}
        ELSE LET cubes == after[i - 1]
             IN cubes \cup {Made(c, m) : c \in cubes, m \in 0..(Len(MCTurns) - 1)}
  IN after[MCDiameter]

(* Cubes in the order of cube_compare.                                     *)
InOrder(cubes) ==
  LET sorted[n \in 0..Cardinality(cubes)] ==
        IF n = 0 THEN <<>>
        ELSE LET least == sorted[n - 1]
                 rest == cubes \ {least[i] : i \in DOMAIN least}
             IN Append(least, CHOOSE c \in rest : \A d \in rest : ~Less(d, c))
  IN sorted[Cardinality(cubes)]

(* turn[r][m] is the rank of the cube that turn m makes of the cube with   *)
(* rank r.                                                                 *)
Ranked(cube) ==
  LET rank(c) == CHOOSE r \in DOMAIN cube : cube[r] = c
  IN [turn   |-> [r \in DOMAIN cube |->
                    [m \in 0..(Len(MCTurns) - 1) |-> rank(Made(cube[r], m))]],
      solved |-> rank(cube_create)]

MCGraph == Ranked(InOrder(Reachable))
MCNumMoves == Len(MCTurns)
MCTurn == MCGraph.turn
MCCubes == 1..96    \* GraphAssumption fails with another number than DOMAIN MCTurn
MCSolved == MCGraph.solved
==============================================================================
