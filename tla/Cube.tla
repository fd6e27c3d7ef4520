--------------------------------- MODULE Cube ---------------------------------
(***************************************************************************)
(* Cube/cube.c: the cube as an array of 20 pieces, made solved by          *)
(* cube_create, turned by cube_rotate and ordered by cube_compare.         *)
(***************************************************************************)
EXTENDS Subcube, Sequences

NUM_CORNERS == 8
Slots == 0..19

(* subcube(cube, i, j, k): where the array holds the piece at a position.  *)
Pieces == {p \in Positions : subcube_type(p) \in {CORNER, SIDE}}

subcube(p) ==
  IF subcube_type(p) = CORNER THEN 2 * p[WY] + p[BG] + p[OR] \div 2
  ELSE NUM_CORNERS + subcube_index(p)

PieceAt == [n \in Slots |-> CHOOSE p \in Pieces : subcube(p) = n]

cube_create == [n \in Slots |-> subcube_default_at(PieceAt[n])]

(* A wrong cornerRotationOrder, to test: it goes round the other way.      *)
cornerRotationOrderBug == <<<<0, 0>>, <<2, 0>>, <<2, 2>>, <<0, 2>>>>

(* The four positions a piece of a turning side goes round, in order: the  *)
(* two coordinates that are not on the side's axis, in axis order.         *)
cornerRotationOrder == <<<<0, 0>>, <<0, 2>>, <<2, 2>>, <<2, 0>>>>
sideRotationOrder   == <<<<0, 1>>, <<1, 2>>, <<2, 1>>, <<1, 0>>>>

pos(face, index, ordering) ==
  LET axis == faceToAxis(face)
      first == IF axis = WY THEN BG ELSE WY
  IN [a \in Axes |-> IF a = axis THEN (IF face < 3 THEN 0 ELSE 2)
                     ELSE ordering[index + 1][IF a = first THEN 1 ELSE 2]]

(* A wrong Shift, to test: RED turns the other way round.                  *)
ShiftRed(side, rot) ==
  LET shift == IF rot = ROT_270 THEN -1 ELSE rot
  IN (IF side \in {YELLOW, BLUE} THEN -shift ELSE shift) % 4

(* How far along the order a turn takes a piece, modulo 4 as size_t does.  *)
Shift(side, rot) ==
  LET shift == IF rot = ROT_270 THEN -1 ELSE rot
  IN (IF side \in {YELLOW, BLUE, RED} THEN -shift ELSE shift) % 4

(* A wrong Exchanges, to test: it goes on by one place, not by the shift.  *)
ExchangesByOne(side, rot) ==
  LET Following(e) == <<e[2], (e[2] + 1) % 4>>
      first == <<0, Shift(side, rot)>>
      third == IF rot = ROT_180 THEN <<1, 3>> ELSE Following(Following(first))
  IN {first, Following(first), third, Following(third)}

(* The loop of cube_rotate: the four <<from, to>> pairs of indexes.  The   *)
(* pieces of a quarter turn form one chain; a half turn has two of length  *)
(* two, and the loop starts the second after two iterations.               *)
Exchanges(side, rot) ==
  LET Following(e) == <<e[2], (e[2] + Shift(side, rot)) % 4>>
      first == <<0, Shift(side, rot)>>
      third == IF rot = ROT_180 THEN <<1, 3>> ELSE Following(Following(first))
  IN {first, Following(first), third, Following(third)}

(* The slot whose piece a turn takes to slot n; none if n does not turn.   *)
Untouched == -1

Origin ==
  [side \in Faces |-> [rot \in Rotations |-> [n \in Slots |->
     LET ordering == IF n < NUM_CORNERS THEN cornerRotationOrder
                     ELSE sideRotationOrder
         at(index) == subcube(pos(side, index, ordering))
         into == {e \in Exchanges(side, rot) : at(e[2]) = n}
     IN IF into = {} THEN Untouched ELSE at((CHOOSE e \in into : TRUE)[1])]]]

(* Every piece is read from the old cube and written to a copy of it.      *)
cube_rotate(c, side, rot) ==
  [n \in Slots |->
     IF Origin[side][rot][n] = Untouched THEN c[n]
     ELSE subcube_rotate(c[Origin[side][rot][n]],
                         IF n < NUM_CORNERS THEN CORNER ELSE SIDE, rot, side)]

(* cube_compare: lexicographic, in the order of char, which is signed.     *)
AsChar(s) ==
  s.id + 16 * Cardinality(s.rots \cap {WY}) + 32 * Cardinality(s.rots \cap {BG})
  + 64 * Cardinality(s.rots \cap {OR}) - 128 * Cardinality(s.rots \cap {FLIP})

Less(c, d) ==      \* cube_compare(c, d) < 0
  \E n \in Slots : /\ AsChar(c[n]) < AsChar(d[n])
                   /\ \A m \in Slots : m < n => c[m] = d[m]
==============================================================================
