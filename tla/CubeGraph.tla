------------------------------ MODULE CubeGraph ------------------------------
(***************************************************************************)
(* The graph that both solvers search: its nodes are cube values and its   *)
(* edges the turns cube_rotate makes.  A turn is numbered by the change_id *)
(* cube_state_next stores, side * 3 + rot - 1, which is also the order of  *)
(* check_state's two nested loops; the program has 18 of them.             *)
(*                                                                         *)
(* A cube is represented by an integer, its rank in the total order of     *)
(* cube_compare, because nothing else about a cube matters to a search.    *)
(* Module Cube defines the turns themselves.                               *)
(***************************************************************************)
EXTENDS Integers

CONSTANTS
  Cubes,      \* the cubes of the instance
  NumMoves,   \* how many turns check_state tries
  Turn,       \* Turn[c][m] is the cube that turn m makes of c
  Solved      \* the cube cube_create makes, the one solve looks for

Moves == 0..(NumMoves - 1)

ASSUME GraphAssumption ==
  /\ Cubes \subseteq Int
  /\ NumMoves \in Nat \ {0}
  /\ Turn \in [Cubes -> [Moves -> Cubes]]
  /\ Solved \in Cubes
==============================================================================
