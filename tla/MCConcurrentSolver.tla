-------------------------- MODULE MCConcurrentSolver --------------------------
(***************************************************************************)
(* A graph of ten cubes and two turns.  Like the real turns these are      *)
(* permutations, and like the real cubes these fall into parts that no     *)
(* turn connects: the search can succeed from 0..4 and cannot from 5..9.   *)
(* In both parts a short way and a long way lead to the same cube, from 0  *)
(* to 1 and from 5 to 6, and behind 6 the search goes on: threads that     *)
(* race can store a depth that is too large, and lower it when the state   *)
(* is already being checked.                                               *)
(***************************************************************************)
EXTENDS ConcurrentSolver

MCCubes == 0..9

MCCycles == <<{<<0, 2, 1>>, <<5, 7, 6>>}, {<<0, 3, 4, 1>>, <<5, 8, 9, 6>>}>>

MCTurn ==
  [c \in MCCubes |-> [m \in 0..1 |->
     IF \E w \in MCCycles[m + 1] : \E i \in DOMAIN w : w[i] = c
     THEN LET w == CHOOSE w \in MCCycles[m + 1] : \E i \in DOMAIN w : w[i] = c
              i == CHOOSE i \in DOMAIN w : w[i] = c
          IN w[(i % Len(w)) + 1]
     ELSE c]]
==============================================================================
