--------------------------- MODULE MCSequentialSolver ---------------------------
(***************************************************************************)
(* Six cubes on a ring, and the turns to either side.                      *)
(***************************************************************************)
EXTENDS SequentialSolver

MCCubes == 0..5
MCTurn == [c \in MCCubes |-> [m \in 0..1 |-> IF m = 0 THEN (c + 1) % 6 ELSE (c + 5) % 6]]
===============================================================================
