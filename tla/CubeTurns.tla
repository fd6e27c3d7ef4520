------------------------------ MODULE CubeTurns ------------------------------
(***************************************************************************)
(* A cube made by cube_create and turned by cube_rotate up to MaxTurns     *)
(* times, any side by any amount: what cube_state_next does, called by     *)
(* check_state for every side and rotation, along every path of a search   *)
(* that starts at the solved cube.                                         *)
(***************************************************************************)
EXTENDS Cube

CONSTANT MaxTurns    \* bounds the state space only

ASSUME TurnsAssumption == MaxTurns \in Nat

VARIABLES
  cube,    \* the array of pieces
  turns    \* how many turns were made

vars == <<cube, turns>>

(* Corners keep the flip bit clear; a side has two of the three axis bits  *)
(* set, and never the identity 6 that the hollow would have.               *)
TypeOK ==
  /\ cube \in [Slots -> Subcubes]
  /\ \A n \in Slots :
       IF n < NUM_CORNERS THEN cube[n].id < 8 /\ FLIP \notin cube[n].rots
       ELSE cube[n].id \in 0..12 \ {6} /\ Cardinality(cube[n].rots \cap Axes) = 2
  /\ turns \in 0..MaxTurns

Init ==
  /\ cube = cube_create
  /\ turns = 0

Rotate(side, rot) ==
  /\ turns < MaxTurns
  /\ cube' = cube_rotate(cube, side, rot)
  /\ turns' = turns + 1

Next == \E side \in Faces, rot \in Rotations : Rotate(side, rot)

Spec == Init /\ [][Next]_vars
------------------------------------------------------------------------------
(* Properties.                                                             *)

(* Space seen from WHITE, with BLUE above and ORANGE on the left, which is *)
(* how cube_string lays the cube out: x to the right, y up and z towards   *)
(* the onlooker.                                                           *)
Vector(p) == <<p[OR] - 1, 1 - p[BG], 1 - p[WY]>>

Along(p, axis) == Vector([a \in Axes |-> IF a = axis THEN p[a] ELSE 1])

Outward ==
  [f \in Faces |-> Along([a \in Axes |-> IF f < 3 THEN 0 ELSE 2], faceToAxis(f))]

(* The faces cube_string prints, each in the place where the real cube has *)
(* a sticker.                                                              *)
Facelets == {f \in Pieces \X Axes : f[1][f[2]] # 1}

Sticker(facelet) == <<Vector(facelet[1]), Along(facelet[1], facelet[2])>>

StickersOf(type) == {Sticker(f) : f \in {g \in Facelets : subcube_type(g[1]) = type}}

FaceletAt ==
  [s \in {Sticker(f) : f \in Facelets} |->
     LET f == CHOOSE f \in Facelets : Sticker(f) = s
     IN [slot |-> subcube(f[1]), axis |-> f[2]]]

Printed(type) ==
  [s \in StickersOf(type) |->
     subcube_color_along_axis(cube[FaceletAt[s].slot], FaceletAt[s].axis, type)]

SideStickers == INSTANCE Stickers WITH
  Stickers <- StickersOf(SIDE), colour <- Printed(SIDE)

CornerStickers == INSTANCE Stickers WITH
  Stickers <- StickersOf(CORNER), colour <- Printed(CORNER)

(* Whatever is turned, the sides cube_print shows are those of a real cube *)
(* whose same side is turned by as many quarters, clockwise as seen from   *)
(* outside: the two rotation orders, the sign of the shift of each side,   *)
(* the loop with its special case for half turns, the axis bits and the    *)
(* flip bit together amount to that very rotation of space.                *)
SidesTurnLikeStickers ==
  /\ SideStickers!Init
  /\ [][\A side \in Faces, rot \in Rotations :
          Rotate(side, rot) => SideStickers!Turn(side, rot)]_vars

(* "Returns the face of this subcube along the axis" - the same of the     *)
(* corners.                                                                *)
CornersTurnLikeStickers ==
  /\ CornerStickers!Init
  /\ [][\A side \in Faces, rot \in Rotations :
          Rotate(side, rot) => CornerStickers!Turn(side, rot)]_vars

(* A turn only moves pieces: no copying from a slot already overwritten,   *)
(* no piece lost or doubled, and no corner in the place of a side.         *)
PiecesAreKept ==
  /\ \A n \in Slots : \E m \in Slots :
       /\ cube[m].id = cube_create[n].id
       /\ m < NUM_CORNERS <=> n < NUM_CORNERS
  /\ \A n \in Slots : \E m \in Slots :
       /\ cube_create[m].id = cube[n].id
       /\ m < NUM_CORNERS <=> n < NUM_CORNERS

(* A turn takes the layer of one side round as one: corners and sides,     *)
(* which go by tables of their own, stay next to the same neighbours, and  *)
(* the rest of the cube keeps still.                                       *)
InLayer(n, f) == PieceAt[n][faceToAxis(f)] = (IF f < 3 THEN 0 ELSE 2)

Adjacent(m, n) ==
  \E a \in Axes :
    /\ PieceAt[m][a] - PieceAt[n][a] \in {-1, 1}
    /\ \A b \in Axes \ {a} : PieceAt[m][b] = PieceAt[n][b]

Neighbours == {e \in Slots \X Slots : Adjacent(e[1], e[2])}

SlotOf(c, n, s) ==    \* where c has the piece that the cube s has in slot n
  CHOOSE m \in Slots : c[m].id = s[n].id /\ (m < NUM_CORNERS <=> n < NUM_CORNERS)

LayersTurnAsOne ==
  [][\E f \in Faces :
       /\ \A n \in Slots : ~InLayer(n, f) => cube'[n] = cube[n]
       /\ \A e \in Neighbours : InLayer(e[1], f) /\ InLayer(e[2], f) =>
            <<SlotOf(cube', e[1], cube), SlotOf(cube', e[2], cube)>> \in Neighbours]_cube

(* What the search relies on when it treats turns as the edges of a graph  *)
(* with ways back: three quarters undo one, two make a half, and opposite  *)
(* sides do not disturb each other, down to the last bit.                  *)
TurnsFormAGroup ==
  \A side \in Faces :
    LET once == cube_rotate(cube, side, ROT_90)
        twice == cube_rotate(once, side, ROT_90)
        other == (side + 3) % 6
    IN /\ cube_rotate(once, side, ROT_270) = cube
       /\ twice = cube_rotate(cube, side, ROT_180)
       /\ cube_rotate(twice, side, ROT_90) = cube_rotate(cube, side, ROT_270)
       /\ cube_rotate(once, other, ROT_90)
            = cube_rotate(cube_rotate(cube, other, ROT_90), side, ROT_90)

(* The axis bits of a side always name the two axes on which its position  *)
(* shows a face, although subcube_rotate never looks at the position.      *)
SideBitsMatchPosition ==
  \A p \in Pieces : subcube_type(p) = SIDE =>
    cube[subcube(p)].rots \cap Axes = {a \in Axes : p[a] # 1}
==============================================================================
