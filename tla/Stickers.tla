------------------------------- MODULE Stickers -------------------------------
(***************************************************************************)
(* What turning a cube means, without pieces, tables or bits: a cube is a  *)
(* set of stickers in space, each at a position and facing one way, and a  *)
(* turn of a side moves every sticker of that layer by one rotation of     *)
(* space, clockwise as seen from outside the side.                         *)
(***************************************************************************)
EXTENDS Integers

CONSTANTS
  Stickers,   \* pairs <<where, facing>> of vectors
  Outward     \* Outward[f] is the vector that points out of side f

VARIABLE colour   \* colour[s] is the side that s had in the solved cube

X == 1  Y == 2  Z == 3
Vectors == {-1, 0, 1} \X {-1, 0, 1} \X {-1, 0, 1}
Sides == DOMAIN Outward

Dot(v, w) == v[X] * w[X] + v[Y] * w[Y] + v[Z] * w[Z]

Cross(v, w) == <<v[Y] * w[Z] - v[Z] * w[Y],
                 v[Z] * w[X] - v[X] * w[Z],
                 v[X] * w[Y] - v[Y] * w[X]>>

(* v rotated by a quarter turn about the axis n, clockwise when n points   *)
(* at the onlooker: the part along n stays, the rest turns.                *)
Quarter(n, v) ==
  LET w == Cross(v, n)
  IN <<Dot(n, v) * n[X] + w[X], Dot(n, v) * n[Y] + w[Y], Dot(n, v) * n[Z] + w[Z]>>

Turned(n, quarters, v) ==    \* by one, two or three quarters
  LET once == Quarter(n, v)
      twice == Quarter(n, once)
  IN IF quarters = 1 THEN once
     ELSE IF quarters = 2 THEN twice ELSE Quarter(n, twice)

Init == \A s \in Stickers : colour[s] \in Sides /\ Outward[colour[s]] = s[2]

(* The sticker that ends up as s is the one that three further turns of    *)
(* the same kind, that is, its inverse, bring s to.                        *)
Turn(f, quarters) ==
  colour' = [s \in Stickers |->
               IF Dot(s[1], Outward[f]) = 1
               THEN colour[<<Turned(Outward[f], 4 - quarters, s[1]),
                             Turned(Outward[f], 4 - quarters, s[2])>>]
               ELSE colour[s]]
==============================================================================
