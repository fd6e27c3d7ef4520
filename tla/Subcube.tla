------------------------------- MODULE Subcube -------------------------------
(***************************************************************************)
(* Cube/subcube.c: a piece of the cube, one byte in the program.  The low  *)
(* four bits are the identity of the piece, the high four bits are flags:  *)
(* one for each axis, and the flip bit.  The flags are a set here, and the *)
(* exclusive or of two bytes is their symmetric difference.                *)
(***************************************************************************)
EXTENDS Integers, FiniteSets

BLANK == -1  WHITE == 0  BLUE == 1  ORANGE == 2  YELLOW == 3  GREEN == 4  RED == 5
Faces == {WHITE, BLUE, ORANGE, YELLOW, GREEN, RED}

ROT_90 == 1  ROT_180 == 2  ROT_270 == 3
Rotations == {ROT_90, ROT_180, ROT_270}

WY == 0  BG == 1  OR == 2
Axes == {WY, BG, OR}
FLIP == 3

CORNER == 0  SIDE == 1  CENTER == 2  HOLLOW == 3

(* A position is a coordinate on each axis; 0 is the WHITE, BLUE or ORANGE *)
(* end of the axis and 2 the other one.                                    *)
Positions == [Axes -> 0..2]

Subcubes == [id : 0..15, rots : SUBSET (Axes \cup {FLIP})]

SymDiff(A, B) == (A \ B) \cup (B \ A)

faceToAxis(face) == face % 3

subcube_type(p) == Cardinality({a \in Axes : p[a] = 1})

Sum(p) == 9 * p[WY] + 3 * p[BG] + p[OR]

(* The index of a side skips the hollow in the middle; its id does not.    *)
subcube_index(p) ==
  LET n == (Sum(p) + 1) \div 2 - 1 IN IF n > 6 THEN n - 1 ELSE n

subcube_default_at(p) ==
  IF subcube_type(p) = CORNER
  THEN [id   |-> p[WY] \div 2 + 2 * (p[BG] \div 2) + 4 * (p[OR] \div 2),
        rots |-> {}]
  ELSE LET id == (Sum(p) + 1) \div 2 - 1 IN
       [id |-> id, rots |-> IF id % 3 = 0 THEN {WY, BG}
                            ELSE IF id > 3 /\ id < 9 THEN {BG, OR} ELSE {WY, OR}]

(* A wrong ToggledBits, to test: it treats sides like corners.             *)
ToggledBitsSame(type, face) == {faceToAxis(face)}

(* A quarter turn toggles the turn's axis bit of a corner; of a side the   *)
(* two other axis bits, with the flip bit if the turn is about BG.  A half *)
(* turn changes neither.                                                   *)
ToggledBits(type, face) ==
  LET axis == faceToAxis(face) IN
  IF type = CORNER THEN {axis}
  ELSE (Axes \ {axis}) \cup (IF axis = BG THEN {FLIP} ELSE {})

(* A wrong subcube_rotate, to test: it ignores turns by 270.               *)
subcube_rotateClockwise(s, type, rot, face) ==
  IF rot = ROT_90
  THEN [s EXCEPT !.rots = SymDiff(@, ToggledBits(type, face))] ELSE s

subcube_rotate(s, type, rot, face) ==
  IF rot = ROT_180 THEN s
  ELSE [s EXCEPT !.rots = SymDiff(@, ToggledBits(type, face))]
------------------------------------------------------------------------------
(* What cube_print shows.  subcube_rotations stores the flip bit one past  *)
(* the end of a bool[3]; the model takes the builds in which it is there   *)
(* when it is read back.                                                   *)

sideIDtoFaces ==
  LET row == <<<<WHITE, BLUE>>, <<WHITE, ORANGE>>, <<WHITE, RED>>, <<WHITE, GREEN>>,
               <<BLUE, ORANGE>>, <<BLUE, RED>>, <<BLANK, BLANK>>, <<GREEN, ORANGE>>,
               <<GREEN, RED>>, <<YELLOW, BLUE>>, <<YELLOW, ORANGE>>, <<YELLOW, RED>>,
               <<YELLOW, GREEN>>>>
  IN [id \in 0..12 |-> row[id + 1]]

(* subcube_colors of a corner: WHITE, BLUE and ORANGE, or their opposites. *)
CornerColors(s) == [a \in Axes |-> a + 3 * ((s.id \div 2^a) % 2)]

SwapOthers(f, axis) ==
  LET a == (axis + 1) % 3  b == (axis + 2) % 3
  IN [f EXCEPT ![a] = f[b], ![b] = f[a]]

CornerFace(s, axis) ==
  LET After[n \in 0..3] ==     \* the faces after the first n axes
        IF n = 0 THEN CornerColors(s)
        ELSE IF n - 1 \in s.rots THEN SwapOthers(After[n - 1], n - 1)
        ELSE After[n - 1]
  IN After[3][axis]

(* The second face is on OR, or on BG when the piece shows none on OR; the *)
(* flip bit exchanges the two.                                             *)
SideFace(s, axis) ==
  LET second == axis = OR \/ (OR \notin s.rots /\ axis = BG)
      which  == IF second # (FLIP \in s.rots) THEN 2 ELSE 1
  IN IF axis \in s.rots THEN sideIDtoFaces[s.id][which] ELSE BLANK

subcube_color_along_axis(s, axis, type) ==
  IF type = CORNER THEN CornerFace(s, axis)
  ELSE IF type = SIDE THEN SideFace(s, axis) ELSE BLANK
==============================================================================
