----------------------------- MODULE GraphSearch -----------------------------
(***************************************************************************)
(* What solve promises: starting from one cube, learn of further cubes by  *)
(* turning known ones, and end either with "solved", only when the solved  *)
(* cube is known, or with "unsolved", only when every turn of every known  *)
(* cube has been tried and the solved cube is not among them.  The process *)
(* may also die.  No queue, no storage and no threads: those are how the   *)
(* solvers keep this promise.                                              *)
(***************************************************************************)
EXTENDS CubeGraph

VARIABLES
  known,     \* the cubes found so far
  verdict    \* "searching", or how the search ended

searchVars == <<known, verdict>>

Verdicts == {"searching", "solved", "unsolved", "crashed"}

TypeOK ==
  /\ known \subseteq Cubes
  /\ verdict \in Verdicts

Init ==
  /\ known = {}
  /\ verdict = "searching"

Begin ==
  /\ verdict = "searching"
  /\ known = {}
  /\ \E c \in Cubes : known' = {c}
  /\ UNCHANGED verdict

Discover ==
  /\ verdict = "searching"
  /\ \E c \in known, m \in Moves : known' = known \cup {Turn[c][m]}
  /\ UNCHANGED verdict

Closed == \A c \in known, m \in Moves : Turn[c][m] \in known

ConcludeSolved ==
  /\ verdict = "searching"
  /\ Solved \in known
  /\ verdict' = "solved"
  /\ UNCHANGED known

ConcludeUnsolved ==
  /\ verdict = "searching"
  /\ known # {}
  /\ Closed
  /\ Solved \notin known
  /\ verdict' = "unsolved"
  /\ UNCHANGED known

Crash ==
  /\ verdict = "searching"
  /\ verdict' = "crashed"
  /\ UNCHANGED known

Next == Begin \/ Discover \/ ConcludeSolved \/ ConcludeUnsolved \/ Crash

Spec == Init /\ [][Next]_searchVars
==============================================================================
