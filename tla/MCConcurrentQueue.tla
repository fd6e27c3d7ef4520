--------------------------- MODULE MCConcurrentQueue ---------------------------
(***************************************************************************)
(* Three threads, which use the queue in one of two ways: two workers call *)
(* what they like, or two threads push what a third one pops.  Freed nodes *)
(* are reused as soon as nobody else points to them.                       *)
(***************************************************************************)
EXTENDS ConcurrentQueue

MCWorkers == <<Calls, Calls, {}>>
MCTwoPush == <<{"push"}, {"push"}, {"pop"}>>

MCUses == [calls : {MCWorkers, MCTwoPush}, careful : {TRUE}, lone : {1}]

(* The solver's workers push and pop, and free gives nodes back at once.   *)
(* That the first one only pushes is enough.                               *)
MCReusing ==
  {[calls |-> <<{"push"}, {"push", "pop"}, {}>>, careful |-> FALSE, lone |-> 1]}
===============================================================================
