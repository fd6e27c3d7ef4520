--------------------------- MODULE CubeTurnsProofs ---------------------------
(***************************************************************************)
(* The geometry of turns, for any number of turns.  The argument goes from *)
(* the tables to the cube: where the array holds a piece is a bijection;   *)
(* the four places of a side's round are the places of its layer; so a     *)
(* turn is a permutation of the slots, and the exclusive or of the bits    *)
(* keeps step with it.                                                     *)
(***************************************************************************)
EXTENDS CubeTurns, FiniteSetTheorems, WellFoundedInduction, TLAPS

IsCorner(p) == \A a \in Axes : p[a] # 1

IsSide(p) == \E a \in Axes : p[a] = 1 /\ \A b \in Axes \ {a} : p[b] # 1

LEMMA AxesFacts == Axes = {0, 1, 2} /\ WY = 0 /\ BG = 1 /\ OR = 2
BY DEF Axes, WY, BG, OR

LEMMA TypeFacts == CORNER = 0 /\ SIDE = 1
BY DEF CORNER, SIDE

(* The number of middle coordinates, which subcube_type counts, told       *)
(* without counting.                                                       *)
LEMMA TypeIs ==
  ASSUME NEW p \in Positions
  PROVE  /\ subcube_type(p) = CORNER <=> IsCorner(p)
         /\ subcube_type(p) = SIDE <=> IsSide(p)
<1> DEFINE Middle == {a \in Axes : p[a] = 1}
<1>1. IsFiniteSet(Middle)
  <2>1. Axes = (({} \cup {0}) \cup {1}) \cup {2}
    BY AxesFacts
  <2>2. IsFiniteSet(Axes)
    BY <2>1, FS_EmptySet, FS_AddElement
  <2> QED BY <2>2, FS_Subset
<1>2. Middle = {} <=> IsCorner(p)
  BY DEF IsCorner
<1>3. (\E x : Middle = {x}) <=> IsSide(p)
  <2>1. ASSUME NEW x, Middle = {x}
        PROVE  IsSide(p)
    <3>1. x \in Axes /\ p[x] = 1
      BY <2>1
    <3>2. \A b \in Axes \ {x} : p[b] # 1
      BY <2>1
    <3> QED BY <3>1, <3>2 DEF IsSide
  <2>2. ASSUME IsSide(p)
        PROVE  \E x : Middle = {x}
    <3>1. PICK a \in Axes : p[a] = 1 /\ \A b \in Axes \ {a} : p[b] # 1
      BY <2>2 DEF IsSide
    <3>2. Middle = {a}
      BY <3>1
    <3> QED BY <3>2
  <2> QED BY <2>1, <2>2
<1>4. Cardinality(Middle) = 0 <=> Middle = {}
  BY <1>1, FS_EmptySet
<1>5. Cardinality(Middle) = 1 <=> \E x : Middle = {x}
  BY <1>1, FS_Singleton
<1>6. subcube_type(p) = Cardinality(Middle)
  BY DEF subcube_type
<1> HIDE DEF Middle
<1> QED BY <1>2, <1>3, <1>4, <1>5, <1>6, TypeFacts

(* The three coordinates of a position determine it.                       *)
LEMMA Coordinates ==
  /\ \A p \in Positions : p[0] \in 0..2 /\ p[1] \in 0..2 /\ p[2] \in 0..2
  /\ \A p, q \in Positions :
       p[0] = q[0] /\ p[1] = q[1] /\ p[2] = q[2] => p = q
<1>1. ASSUME NEW p \in Positions, NEW q \in Positions,
             p[0] = q[0], p[1] = q[1], p[2] = q[2]
      PROVE  p = q
  <2>1. \A a \in Axes : p[a] = q[a]
    BY <1>1, AxesFacts
  <2> QED BY <2>1 DEF Positions
<1> QED BY <1>1, AxesFacts DEF Positions

(* A corner has no middle coordinate and lies in the first eight slots.    *)
LEMMA CornerPlace ==
  ASSUME NEW p \in Positions, subcube_type(p) = CORNER
  PROVE  /\ p \in Pieces
         /\ p[0] \in {0, 2} /\ p[1] \in {0, 2} /\ p[2] \in {0, 2}
         /\ subcube(p) = 2 * p[0] + p[1] + p[2] \div 2
         /\ subcube(p) \in 0..7
<1>1. p[0] \in {0, 2} /\ p[1] \in {0, 2} /\ p[2] \in {0, 2}
  BY Coordinates, TypeIs, AxesFacts DEF IsCorner
<1>2. subcube(p) = 2 * p[0] + p[1] + p[2] \div 2
  BY AxesFacts DEF subcube
<1>3. subcube(p) \in 0..7
  BY <1>1, <1>2
<1> QED BY <1>1, <1>2, <1>3 DEF Pieces

(* One middle coordinate leaves twelve positions.                          *)
SideCoordinates ==
  {<<0, 0, 1>>, <<0, 1, 0>>, <<0, 1, 2>>, <<0, 2, 1>>,
   <<1, 0, 0>>, <<1, 0, 2>>, <<1, 2, 0>>, <<1, 2, 2>>,
   <<2, 0, 1>>, <<2, 1, 0>>, <<2, 1, 2>>, <<2, 2, 1>>}

LEMMA SidePlace ==
  ASSUME NEW p \in Positions, subcube_type(p) = SIDE
  PROVE  /\ p \in Pieces
         /\ <<p[0], p[1], p[2]>> \in SideCoordinates
         /\ subcube(p) = 8 + subcube_index(p)
<1>1. <<p[0], p[1], p[2]>> \in SideCoordinates
  <2>1. \/ p[0] = 1 /\ p[1] \in {0, 2} /\ p[2] \in {0, 2}
        \/ p[0] \in {0, 2} /\ p[1] = 1 /\ p[2] \in {0, 2}
        \/ p[0] \in {0, 2} /\ p[1] \in {0, 2} /\ p[2] = 1
    BY Coordinates, TypeIs, AxesFacts DEF IsSide
  <2> QED BY <2>1 DEF SideCoordinates
<1>2. subcube(p) = 8 + subcube_index(p)
  BY TypeFacts DEF subcube, NUM_CORNERS
<1> QED BY <1>1, <1>2 DEF Pieces

LEMMA SideSlots ==
  ASSUME NEW p \in Positions, subcube_type(p) = SIDE
  PROVE  /\ subcube(p) \in 8..19
         /\ 2 * subcube(p) = Sum(p) + (IF Sum(p) < 13 THEN 15 ELSE 13)
         /\ Sum(p) = 9 * p[0] + 3 * p[1] + p[2]
         /\ Sum(p) \in {1, 3, 5, 7, 9, 11, 15, 17, 19, 21, 23, 25}
<1>1. Sum(p) = 9 * p[0] + 3 * p[1] + p[2]
  BY AxesFacts DEF Sum
<1>2. Sum(p) \in {1, 3, 5, 7, 9, 11, 15, 17, 19, 21, 23, 25}
  BY SidePlace, <1>1 DEF SideCoordinates
<1>3. /\ subcube_index(p) \in 0..11
      /\ 2 * subcube_index(p) = Sum(p) + (IF Sum(p) < 13 THEN -1 ELSE -3)
  BY <1>2 DEF subcube_index
<1>4. subcube(p) = 8 + subcube_index(p)
  BY SidePlace
<1>5. /\ subcube(p) \in 8..19
      /\ 2 * subcube(p) = Sum(p) + (IF Sum(p) < 13 THEN 15 ELSE 13)
  BY <1>2, <1>3, <1>4
<1> QED BY <1>1, <1>2, <1>5

LEMMA PiecesType ==
  ASSUME NEW p \in Pieces
  PROVE  /\ p \in Positions
         /\ subcube_type(p) \in {CORNER, SIDE}
         /\ subcube(p) \in Slots
         /\ subcube_type(p) = CORNER <=> subcube(p) < NUM_CORNERS
<1>1. p \in Positions /\ subcube_type(p) \in {CORNER, SIDE}
  BY DEF Pieces
<1>2. CASE subcube_type(p) = CORNER
  BY <1>1, <1>2, CornerPlace DEF Slots, NUM_CORNERS
<1>3. CASE subcube_type(p) = SIDE
  BY <1>1, <1>3, SideSlots, TypeFacts DEF Slots, NUM_CORNERS
<1> QED BY <1>1, <1>2, <1>3

(* No two positions share a slot of the array.                             *)
LEMMA SlotDeterminesPiece ==
  ASSUME NEW p \in Pieces, NEW q \in Pieces, subcube(p) = subcube(q)
  PROVE  p = q
<1> USE PiecesType
<1>1. CASE subcube_type(p) = CORNER
  <2>1. subcube_type(q) = CORNER
    BY <1>1
  <2>2. p[0] = q[0] /\ p[1] = q[1] /\ p[2] = q[2]
    <3>1. /\ p[0] \in {0, 2} /\ p[1] \in {0, 2} /\ p[2] \in {0, 2}
          /\ q[0] \in {0, 2} /\ q[1] \in {0, 2} /\ q[2] \in {0, 2}
          /\ 2 * p[0] + p[1] + p[2] \div 2 = 2 * q[0] + q[1] + q[2] \div 2
      BY <1>1, <2>1, CornerPlace
    <3> QED BY <3>1
  <2> QED BY <2>2, Coordinates
<1>2. CASE subcube_type(p) = SIDE
  <2>1. subcube_type(q) = SIDE
    BY <1>2, TypeFacts
  <2>2. p[0] = q[0] /\ p[1] = q[1] /\ p[2] = q[2]
    <3>1. /\ p[0] \in 0..2 /\ p[1] \in 0..2 /\ p[2] \in 0..2
          /\ q[0] \in 0..2 /\ q[1] \in 0..2 /\ q[2] \in 0..2
      BY Coordinates
    <3>2. Sum(p) = Sum(q)
      <4>1. Sum(p) \in Int /\ Sum(q) \in Int
        BY <1>2, <2>1, <3>1, SideSlots
      <4> QED BY <1>2, <2>1, <4>1, SideSlots
    <3>3. 9 * p[0] + 3 * p[1] + p[2] = 9 * q[0] + 3 * q[1] + q[2]
      BY <1>2, <2>1, <3>2, SideSlots
    <3> QED BY <3>1, <3>3
  <2> QED BY <2>2, Coordinates
<1> QED BY <1>1, <1>2

At(i, j, k) == [a \in Axes |-> IF a = 0 THEN i ELSE IF a = 1 THEN j ELSE k]

LEMMA AtIs ==
  ASSUME NEW i \in 0..2, NEW j \in 0..2, NEW k \in 0..2
  PROVE  /\ At(i, j, k) \in Positions
         /\ At(i, j, k)[0] = i /\ At(i, j, k)[1] = j /\ At(i, j, k)[2] = k
BY AxesFacts DEF At, Positions

LEMMA SideFromCoordinates ==
  ASSUME NEW p \in Positions, <<p[0], p[1], p[2]>> \in SideCoordinates
  PROVE  subcube_type(p) = SIDE
<1>1. \/ p[0] = 1 /\ p[1] # 1 /\ p[2] # 1
      \/ p[1] = 1 /\ p[0] # 1 /\ p[2] # 1
      \/ p[2] = 1 /\ p[0] # 1 /\ p[1] # 1
  BY DEF SideCoordinates
<1>2. IsSide(p)
  BY <1>1, AxesFacts DEF IsSide
<1> QED BY <1>2, TypeIs

(* Every slot of the array holds a piece.                                  *)
LEMMA SlotHasPiece ==
  ASSUME NEW n \in Slots
  PROVE  \E p \in Pieces : subcube(p) = n
<1>1. CASE n < NUM_CORNERS
  <2> DEFINE i == 2 * (n \div 4)
             j == 2 * ((n \div 2) % 2)
             k == 2 * (n % 2)
             p == At(i, j, k)
  <2>1. n \in 0..7
    BY <1>1 DEF Slots, NUM_CORNERS
  <2>2. i \in {0, 2} /\ j \in {0, 2} /\ k \in {0, 2} /\ 2 * i + j + k \div 2 = n
    BY <2>1
  <2> HIDE DEF i, j, k
  <2>3. p \in Positions /\ p[0] = i /\ p[1] = j /\ p[2] = k
    BY <2>2, AtIs
  <2> HIDE DEF p
  <2>4. IsCorner(p)
    BY <2>2, <2>3, AxesFacts DEF IsCorner
  <2>5. subcube_type(p) = CORNER
    BY <2>3, <2>4, TypeIs
  <2> QED BY <2>2, <2>3, <2>5, CornerPlace
<1>2. CASE ~(n < NUM_CORNERS)
  <2> DEFINE sum == IF n < 14 THEN 2 * n - 15 ELSE 2 * n - 13
             i == sum \div 9
             j == (sum \div 3) % 3
             k == sum % 3
             p == At(i, j, k)
  <2>1. n \in 8..19
    BY <1>2 DEF Slots, NUM_CORNERS
  <2>2. sum \in {1, 3, 5, 7, 9, 11, 15, 17, 19, 21, 23, 25}
    BY <2>1
  <2> HIDE DEF sum
  <2>3. <<i, j, k>> \in SideCoordinates /\ 9 * i + 3 * j + k = sum
    BY <2>2 DEF SideCoordinates
  <2> HIDE DEF i, j, k
  <2>4. i \in 0..2 /\ j \in 0..2 /\ k \in 0..2
    BY <2>3 DEF SideCoordinates
  <2>5. p \in Positions /\ p[0] = i /\ p[1] = j /\ p[2] = k
    BY <2>4, AtIs
  <2> HIDE DEF p
  <2>6. subcube_type(p) = SIDE
    BY <2>3, <2>5, SideFromCoordinates
  <2>7. Sum(p) = sum
    BY <2>3, <2>5, <2>6, SideSlots
  <2>8. subcube(p) = n
    <3>1. 2 * subcube(p) = sum + (IF sum < 13 THEN 15 ELSE 13) /\ subcube(p) \in 8..19
      BY <2>5, <2>6, <2>7, SideSlots
    <3> QED BY <2>1, <3>1 DEF sum
  <2> QED BY <2>5, <2>6, <2>8, SidePlace
<1> QED BY <1>1, <1>2

LEMMA PieceAtSlot ==
  /\ \A n \in Slots : PieceAt[n] \in Pieces /\ subcube(PieceAt[n]) = n
  /\ \A p \in Pieces : PieceAt[subcube(p)] = p
<1>1. ASSUME NEW n \in Slots
      PROVE  PieceAt[n] \in Pieces /\ subcube(PieceAt[n]) = n
  <2>1. PieceAt[n] = CHOOSE p \in Pieces : subcube(p) = n
    BY DEF PieceAt
  <2> QED BY <2>1, SlotHasPiece
<1> QED BY <1>1, PiecesType, SlotDeterminesPiece
------------------------------------------------------------------------------
(* The round of a side: its four corners and its four sides.               *)

Order(type) == IF type = CORNER THEN cornerRotationOrder ELSE sideRotationOrder

Front(side) == IF side < 3 THEN 0 ELSE 2

Place(side, type, i) == pos(side, i, Order(type))

Round(side, type, i) == subcube(Place(side, type, i))

TypeAt(n) == IF n < NUM_CORNERS THEN CORNER ELSE SIDE

LEMMA FaceFacts ==
  ASSUME NEW side \in Faces
  PROVE  /\ side \in 0..5
         /\ faceToAxis(side) = side % 3
         /\ faceToAxis(side) \in Axes
BY AxesFacts DEF Faces, WHITE, BLUE, ORANGE, YELLOW, GREEN, RED, faceToAxis

LEMMA OrderIs ==
  ASSUME NEW type \in {CORNER, SIDE}, NEW i \in 0..3
  PROVE  LET x == Order(type)[i + 1][1]  y == Order(type)[i + 1][2]
         IN /\ type = CORNER => /\ x = IF i \in {0, 1} THEN 0 ELSE 2
                                /\ y = IF i \in {0, 3} THEN 0 ELSE 2
            /\ type = SIDE => /\ x = IF i = 0 THEN 0 ELSE IF i = 2 THEN 2 ELSE 1
                              /\ y = IF i = 3 THEN 0 ELSE IF i = 1 THEN 2 ELSE 1
<1>1. i = 0 \/ i = 1 \/ i = 2 \/ i = 3
  OBVIOUS
<1>2. CASE type = CORNER
  BY <1>1, <1>2, TypeFacts DEF Order, cornerRotationOrder
<1>3. CASE type = SIDE
  BY <1>1, <1>3, TypeFacts DEF Order, sideRotationOrder
<1> QED BY <1>2, <1>3, TypeFacts

First(side) == IF faceToAxis(side) = 0 THEN 1 ELSE 0

Second(side) == IF faceToAxis(side) = 2 THEN 1 ELSE 2

LEMMA AxesOf ==
  ASSUME NEW side \in Faces
  PROVE  /\ Axes = {faceToAxis(side), First(side), Second(side)}
         /\ First(side) # Second(side)
         /\ faceToAxis(side) # First(side) /\ faceToAxis(side) # Second(side)
<1>1. faceToAxis(side) \in {0, 1, 2}
  BY FaceFacts, AxesFacts
<1> QED BY <1>1, AxesFacts DEF First, Second

LEMMA PlaceIs ==
  ASSUME NEW side \in Faces, NEW type \in {CORNER, SIDE}, NEW i \in 0..3
  PROVE  /\ Place(side, type, i) \in Positions
         /\ Place(side, type, i)[faceToAxis(side)] = Front(side)
         /\ Place(side, type, i)[First(side)] = Order(type)[i + 1][1]
         /\ Place(side, type, i)[Second(side)] = Order(type)[i + 1][2]
<1> DEFINE axis == faceToAxis(side)
           first == IF axis = WY THEN BG ELSE WY
           x == Order(type)[i + 1][1]
           y == Order(type)[i + 1][2]
<1>1. Place(side, type, i)
        = [a \in Axes |-> IF a = axis THEN Front(side) ELSE
             Order(type)[i + 1][IF a = first THEN 1 ELSE 2]]
  BY DEF Place, pos, Front
<1>2. \A a \in Axes : Place(side, type, i)[a] =
        IF a = axis THEN Front(side) ELSE IF a = first THEN x ELSE y
  BY <1>1
<1>3. x \in 0..2 /\ y \in 0..2 /\ Front(side) \in 0..2
  <2>1. x \in 0..2
    BY OrderIs, TypeFacts
  <2>2. y \in 0..2
    BY OrderIs, TypeFacts
  <2> QED BY <2>1, <2>2 DEF Front
<1>4. first = First(side)
  BY AxesFacts DEF First
<1> HIDE DEF x, y, axis, first
<1>5. Place(side, type, i) \in Positions
  <2>1. Place(side, type, i) = [a \in Axes |-> Place(side, type, i)[a]]
    BY <1>1
  <2> QED BY <1>2, <1>3, <2>1 DEF Positions
<1> QED BY <1>2, <1>4, <1>5, AxesOf DEF x, y, axis

LEMMA PlaceType ==
  ASSUME NEW side \in Faces, NEW type \in {CORNER, SIDE}, NEW i \in 0..3
  PROVE  /\ Place(side, type, i) \in Pieces
         /\ subcube_type(Place(side, type, i)) = type
<1> DEFINE p == Place(side, type, i)
           x == Order(type)[i + 1][1]
           y == Order(type)[i + 1][2]
<1>1. /\ p \in Positions /\ Front(side) # 1
      /\ p[faceToAxis(side)] = Front(side)
      /\ p[First(side)] = x /\ p[Second(side)] = y
  BY PlaceIs DEF Front
<1>2. CASE type = CORNER
  <2>1. x # 1 /\ y # 1
    BY <1>2, OrderIs
  <2> HIDE DEF x, y, p
  <2>2. IsCorner(p)
    BY <1>1, <2>1, AxesOf DEF IsCorner
  <2> QED BY <1>1, <1>2, <2>2, TypeIs DEF Pieces, p
<1>3. CASE type = SIDE
  <2>1. (x = 1 /\ y # 1) \/ (x # 1 /\ y = 1)
    BY <1>3, OrderIs, TypeFacts
  <2> HIDE DEF x, y, p
  <2>2. IsSide(p)
    BY <1>1, <2>1, AxesOf DEF IsSide
  <2> QED BY <1>1, <1>3, <2>2, TypeIs DEF Pieces, p
<1> QED BY <1>2, <1>3

LEMMA PlaceDeterminesIndex ==
  ASSUME NEW side \in Faces, NEW type \in {CORNER, SIDE}, NEW i \in 0..3,
         NEW j \in 0..3, Place(side, type, i) = Place(side, type, j)
  PROVE  i = j
<1>1. /\ Order(type)[i + 1][1] = Order(type)[j + 1][1]
      /\ Order(type)[i + 1][2] = Order(type)[j + 1][2]
  BY PlaceIs
<1>2. CASE type = CORNER
  BY <1>1, <1>2, OrderIs
<1>3. CASE type = SIDE
  BY <1>1, <1>3, OrderIs
<1> QED BY <1>2, <1>3

(* The layer of a side has no other corners and sides than its round.      *)
LEMMA PlaceCovers ==
  ASSUME NEW side \in Faces, NEW p \in Pieces, p[faceToAxis(side)] = Front(side)
  PROVE  \E i \in 0..3 : p = Place(side, subcube_type(p), i)
<1> DEFINE type == subcube_type(p)
           a == First(side)
           b == Second(side)
<1>1. p \in Positions /\ type \in {CORNER, SIDE}
  BY PiecesType
<1>2. p[a] \in 0..2 /\ p[b] \in 0..2
  BY <1>1, AxesOf DEF Positions
<1>3. \E i \in 0..3 : p[a] = Order(type)[i + 1][1] /\ p[b] = Order(type)[i + 1][2]
  <2>1. CASE type = CORNER
    <3>1. p[a] \in {0, 2} /\ p[b] \in {0, 2}
      BY <1>1, <1>2, <2>1, TypeIs, AxesOf DEF IsCorner
    <3> DEFINE i == IF p[a] = 0 THEN (IF p[b] = 0 THEN 0 ELSE 1)
                    ELSE (IF p[b] = 2 THEN 2 ELSE 3)
    <3>2. i \in 0..3
      OBVIOUS
    <3>3. p[a] = Order(type)[i + 1][1] /\ p[b] = Order(type)[i + 1][2]
      BY <1>1, <2>1, <3>1, <3>2, OrderIs
    <3> QED BY <3>2, <3>3
  <2>2. CASE type = SIDE
    <3>1. \/ p[a] = 1 /\ p[b] \in {0, 2}
          \/ p[b] = 1 /\ p[a] \in {0, 2}
      <4>1. p[faceToAxis(side)] # 1
        BY DEF Front
      <4>2. PICK m \in Axes : p[m] = 1 /\ \A n \in Axes \ {m} : p[n] # 1
        BY <1>1, <2>2, TypeIs DEF IsSide
      <4>3. m = a \/ m = b
        BY <4>1, <4>2, AxesOf
      <4>4. p[a] # 1 \/ p[b] # 1
        BY <4>2, AxesOf
      <4> QED BY <1>2, <4>2, <4>3, <4>4
    <3> DEFINE i == IF p[b] = 1 THEN (IF p[a] = 0 THEN 0 ELSE 2)
                    ELSE (IF p[b] = 2 THEN 1 ELSE 3)
    <3>2. i \in 0..3
      OBVIOUS
    <3>3. p[a] = Order(type)[i + 1][1] /\ p[b] = Order(type)[i + 1][2]
      BY <1>1, <2>2, <3>1, <3>2, OrderIs
    <3> QED BY <3>2, <3>3
  <2> QED BY <1>1, <2>1, <2>2
<1>4. PICK i \in 0..3 : p[a] = Order(type)[i + 1][1] /\ p[b] = Order(type)[i + 1][2]
  BY <1>3
<1>5. \A c \in Axes : p[c] = Place(side, type, i)[c]
  BY <1>1, <1>4, PlaceIs, AxesOf
<1>6. Place(side, type, i) \in Positions
  BY <1>1, PlaceIs
<1>7. p = Place(side, type, i)
  <2> HIDE DEF type
  <2> QED BY <1>1, <1>5, <1>6 DEF Positions
<1> QED BY <1>7

LEMMA RoundFacts ==
  ASSUME NEW side \in Faces, NEW type \in {CORNER, SIDE}, NEW i \in 0..3
  PROVE  /\ Round(side, type, i) \in Slots
         /\ TypeAt(Round(side, type, i)) = type
         /\ InLayer(Round(side, type, i), side)
         /\ \A j \in 0..3 : Round(side, type, i) = Round(side, type, j) => i = j
<1> DEFINE p == Place(side, type, i)
<1>1. p \in Pieces /\ subcube_type(p) = type
  BY PlaceType
<1>2. subcube(p) \in Slots /\ TypeAt(subcube(p)) = type
  BY <1>1, PiecesType DEF TypeAt
<1>3. InLayer(subcube(p), side)
  BY <1>1, PieceAtSlot, PlaceIs DEF InLayer, Front
<1>4. ASSUME NEW j \in 0..3, Round(side, type, i) = Round(side, type, j)
      PROVE  i = j
  <2>1. Place(side, type, j) \in Pieces
    BY PlaceType
  <2>2. Place(side, type, i) = Place(side, type, j)
    BY <1>1, <1>4, <2>1, SlotDeterminesPiece DEF Round
  <2> QED BY <2>2, PlaceDeterminesIndex
<1> QED BY <1>2, <1>3, <1>4 DEF Round

LEMMA RoundCovers ==
  ASSUME NEW side \in Faces, NEW n \in Slots, InLayer(n, side)
  PROVE  \E i \in 0..3 : n = Round(side, TypeAt(n), i)
<1>1. PieceAt[n] \in Pieces /\ subcube(PieceAt[n]) = n
  BY PieceAtSlot
<1>2. PieceAt[n][faceToAxis(side)] = Front(side)
  BY DEF InLayer, Front
<1>3. PICK i \in 0..3 : PieceAt[n] = Place(side, subcube_type(PieceAt[n]), i)
  BY <1>1, <1>2, PlaceCovers
<1>4. subcube_type(PieceAt[n]) = TypeAt(n)
  BY <1>1, PiecesType DEF TypeAt
<1> QED BY <1>1, <1>3, <1>4 DEF Round

(* A layer has no slot of the layer opposite.                              *)
Opposite(side) == (side + 3) % 6

LEMMA OppositeLayer ==
  ASSUME NEW side \in Faces
  PROVE  /\ Opposite(side) \in Faces
         /\ faceToAxis(Opposite(side)) = faceToAxis(side)
         /\ \A n \in Slots : ~(InLayer(n, side) /\ InLayer(n, Opposite(side)))
<1>1. side \in 0..5
  BY FaceFacts
<1>2. Opposite(side) \in 0..5 /\ (Opposite(side) < 3 <=> ~(side < 3))
      /\ Opposite(side) % 3 = side % 3
  BY <1>1 DEF Opposite
<1>3. Opposite(side) \in Faces
  BY <1>2 DEF Faces, WHITE, BLUE, ORANGE, YELLOW, GREEN, RED
<1>4. faceToAxis(Opposite(side)) = faceToAxis(side)
  BY <1>2 DEF faceToAxis
<1> QED BY <1>2, <1>3, <1>4 DEF InLayer
------------------------------------------------------------------------------
(* A turn takes the piece at each place of a round Shift places on.        *)

LEMMA ShiftIs ==
  ASSUME NEW side \in Faces, NEW rot \in Rotations
  PROVE  /\ Shift(side, rot) \in 1..3
         /\ rot = ROT_180 => Shift(side, rot) = 2
         /\ Shift(side, ROT_90) + Shift(side, ROT_270) = 4
         /\ rot # ROT_180 => Shift(side, rot) \in {1, 3}
         /\ rot \in {ROT_90, ROT_180, ROT_270}
BY DEF Rotations, ROT_90, ROT_180, ROT_270, Shift

LEMMA ExchangesAre ==
  ASSUME NEW side \in Faces, NEW rot \in Rotations
  PROVE  Exchanges(side, rot) = {<<i, (i + Shift(side, rot)) % 4>> : i \in 0..3}
<1> DEFINE s == Shift(side, rot)
<1>1. s \in 1..3 /\ (rot = ROT_180 => s = 2) /\ (rot # ROT_180 => s \in {1, 3})
  BY ShiftIs
<1>2. {<<i, (i + s) % 4>> : i \in 0..3}
        = {<<0, (0 + s) % 4>>, <<1, (1 + s) % 4>>, <<2, (2 + s) % 4>>, <<3, (3 + s) % 4>>}
  <2> HIDE DEF s
  <2>1. 0..3 = {0, 1, 2, 3}
    OBVIOUS
  <2> QED BY <2>1, Zenon
<1>3. CASE s = 1
  <2>1. /\ rot # ROT_180
        /\ (s + s) % 4 = 2 /\ (2 + s) % 4 = 3 /\ (3 + s) % 4 = 0
        /\ (0 + s) % 4 = 1 /\ (1 + s) % 4 = 2
    BY <1>1, <1>3
  <2>2. Exchanges(side, rot) = {<<0, 1>>, <<1, 2>>, <<2, 3>>, <<3, 0>>}
    <3>1. Exchanges(side, rot)
            = {<<0, s>>, <<s, (s + s) % 4>>, <<(s + s) % 4, (((s + s) % 4) + s) % 4>>,
               <<(((s + s) % 4) + s) % 4, (((((s + s) % 4) + s) % 4) + s) % 4>>}
      BY <2>1 DEF Exchanges
    <3> HIDE DEF s
    <3> QED BY <1>3, <2>1, <3>1, Zenon
  <2> QED BY <1>2, <2>1, <2>2, Zenon
<1>4. CASE s = 3
  <2>1. /\ rot # ROT_180
        /\ (s + s) % 4 = 2 /\ (2 + s) % 4 = 1 /\ (3 + s) % 4 = 2
        /\ (0 + s) % 4 = 3 /\ (1 + s) % 4 = 0
    BY <1>1, <1>4
  <2>2. Exchanges(side, rot) = {<<0, 3>>, <<3, 2>>, <<2, 1>>, <<1, 0>>}
    <3>1. Exchanges(side, rot)
            = {<<0, s>>, <<s, (s + s) % 4>>, <<(s + s) % 4, (((s + s) % 4) + s) % 4>>,
               <<(((s + s) % 4) + s) % 4, (((((s + s) % 4) + s) % 4) + s) % 4>>}
      BY <2>1 DEF Exchanges
    <3> HIDE DEF s
    <3> QED BY <1>4, <2>1, <3>1, Zenon
  <2>3. {<<0, 3>>, <<3, 2>>, <<2, 1>>, <<1, 0>>} = {<<0, 3>>, <<1, 0>>, <<2, 1>>, <<3, 2>>}
    BY Zenon
  <2> QED BY <1>2, <2>1, <2>2, <2>3, Zenon
<1>5. CASE s = 2
  <2>1. /\ rot = ROT_180
        /\ (0 + s) % 4 = 2 /\ (1 + s) % 4 = 3 /\ (2 + s) % 4 = 0 /\ (3 + s) % 4 = 1
        /\ (s + s) % 4 = 0
    BY <1>1, <1>5
  <2>2. Exchanges(side, rot) = {<<0, 2>>, <<2, 0>>, <<1, 3>>, <<3, 1>>}
    <3>1. Exchanges(side, rot)
            = {<<0, s>>, <<s, (s + s) % 4>>, <<1, 3>>, <<3, (3 + s) % 4>>}
      BY <2>1 DEF Exchanges
    <3> HIDE DEF s
    <3> QED BY <1>5, <2>1, <3>1, Zenon
  <2>3. {<<0, 2>>, <<2, 0>>, <<1, 3>>, <<3, 1>>} = {<<0, 2>>, <<1, 3>>, <<2, 0>>, <<3, 1>>}
    BY Zenon
  <2> QED BY <1>2, <2>1, <2>2, <2>3, Zenon
<1> QED BY <1>1, <1>3, <1>4, <1>5

Before(i, side, rot) == (i - Shift(side, rot)) % 4

LEMMA BeforeIs ==
  ASSUME NEW side \in Faces, NEW rot \in Rotations, NEW i \in 0..3
  PROVE  /\ Before(i, side, rot) \in 0..3
         /\ (Before(i, side, rot) + Shift(side, rot)) % 4 = i
         /\ Before((i + Shift(side, rot)) % 4, side, rot) = i
         /\ (i + Shift(side, rot)) % 4 \in 0..3
<1>1. i = 0 \/ i = 1 \/ i = 2 \/ i = 3
  OBVIOUS
<1>2. Shift(side, rot) = 1 \/ Shift(side, rot) = 2 \/ Shift(side, rot) = 3
  BY ShiftIs
<1>3. CASE i = 0
  BY <1>2, <1>3 DEF Before
<1>4. CASE i = 1
  BY <1>2, <1>4 DEF Before
<1>5. CASE i = 2
  BY <1>2, <1>5 DEF Before
<1>6. CASE i = 3
  BY <1>2, <1>6 DEF Before
<1> QED BY <1>1, <1>3, <1>4, <1>5, <1>6

LEMMA OriginInLayer ==
  ASSUME NEW side \in Faces, NEW rot \in Rotations,
         NEW type \in {CORNER, SIDE}, NEW i \in 0..3
  PROVE  Origin[side][rot][Round(side, type, i)]
           = Round(side, type, Before(i, side, rot))
<1> DEFINE n == Round(side, type, i)
           into == {e \in Exchanges(side, rot) : Round(side, type, e[2]) = n}
           j == Before(i, side, rot)
<1>1. n \in Slots /\ TypeAt(n) = type
  BY RoundFacts
<1>2. IF n < NUM_CORNERS THEN type = CORNER ELSE type = SIDE
  BY <1>1 DEF TypeAt
<1>3. Origin[side][rot][n] = IF into = {} THEN Untouched
        ELSE Round(side, type, (CHOOSE e \in into : TRUE)[1])
  <2>1. CASE n < NUM_CORNERS
    BY <1>1, <1>2, <2>1 DEF Origin, Round, Place, Order
  <2>2. CASE ~(n < NUM_CORNERS)
    BY <1>1, <1>2, <2>2, TypeFacts DEF Origin, Round, Place, Order
  <2> QED BY <2>1, <2>2
<1>4. <<j, i>> \in into
  BY BeforeIs, ExchangesAre
<1>5. \A e \in into : e[1] = j
  <2> SUFFICES ASSUME NEW e \in into
               PROVE  e[1] = j
    OBVIOUS
  <2>1. PICK k \in 0..3 : e = <<k, (k + Shift(side, rot)) % 4>>
    BY ExchangesAre
  <2>2. (k + Shift(side, rot)) % 4 \in 0..3
    BY BeforeIs
  <2>3. i = (k + Shift(side, rot)) % 4
    BY <2>1, <2>2, RoundFacts
  <2> QED BY <2>1, <2>3, BeforeIs
<1> HIDE DEF into, n, j
<1>6. into # {} /\ (CHOOSE e \in into : TRUE) \in into
  BY <1>4
<1> QED BY <1>3, <1>5, <1>6 DEF n, j

LEMMA OriginElsewhere ==
  ASSUME NEW side \in Faces, NEW rot \in Rotations, NEW n \in Slots,
         ~InLayer(n, side)
  PROVE  Origin[side][rot][n] = Untouched
<1> DEFINE type == TypeAt(n)
           into == {e \in Exchanges(side, rot) : Round(side, type, e[2]) = n}
<1>1. into = {}
  <2> SUFFICES ASSUME NEW e \in into
               PROVE  FALSE
    OBVIOUS
  <2>1. PICK k \in 0..3 : e = <<k, (k + Shift(side, rot)) % 4>>
    BY ExchangesAre
  <2>2. e[2] \in 0..3
    BY <2>1, BeforeIs
  <2>3. type \in {CORNER, SIDE}
    BY DEF TypeAt
  <2> QED BY <2>2, <2>3, RoundFacts
<1>2. CASE n < NUM_CORNERS
  BY <1>1, <1>2 DEF Origin, Round, Place, Order, TypeAt
<1>3. CASE ~(n < NUM_CORNERS)
  BY <1>1, <1>3, TypeFacts DEF Origin, Round, Place, Order, TypeAt
<1> QED BY <1>2, <1>3
------------------------------------------------------------------------------
(* A turn as a permutation of the slots: Source is where a slot's piece    *)
(* comes from.                                                             *)

Source(side, rot, n) == IF InLayer(n, side) THEN Origin[side][rot][n] ELSE n

LEMMA SourceInRound ==
  ASSUME NEW side \in Faces, NEW rot \in Rotations,
         NEW type \in {CORNER, SIDE}, NEW i \in 0..3
  PROVE  Source(side, rot, Round(side, type, i))
           = Round(side, type, Before(i, side, rot))
BY RoundFacts, OriginInLayer DEF Source

LEMMA SourceType ==
  ASSUME NEW side \in Faces, NEW rot \in Rotations, NEW n \in Slots
  PROVE  /\ Source(side, rot, n) \in Slots
         /\ TypeAt(Source(side, rot, n)) = TypeAt(n)
         /\ InLayer(Source(side, rot, n), side) <=> InLayer(n, side)
<1>1. CASE InLayer(n, side)
  <2>1. TypeAt(n) \in {CORNER, SIDE}
    BY DEF TypeAt
  <2>2. PICK i \in 0..3 : n = Round(side, TypeAt(n), i)
    BY <1>1, RoundCovers
  <2>3. Source(side, rot, n) = Round(side, TypeAt(n), Before(i, side, rot))
    BY <2>1, <2>2, SourceInRound
  <2>4. Before(i, side, rot) \in 0..3
    BY BeforeIs
  <2> QED BY <1>1, <2>1, <2>3, <2>4, RoundFacts
<1>2. CASE ~InLayer(n, side)
  BY <1>2 DEF Source
<1> QED BY <1>1, <1>2

(* Two turns of a side add up.                                             *)
LEMMA SourcesAdd ==
  ASSUME NEW side \in Faces, NEW n \in Slots
  PROVE  /\ Source(side, ROT_90, Source(side, ROT_270, n)) = n
         /\ Source(side, ROT_270, Source(side, ROT_90, n)) = n
         /\ Source(side, ROT_180, Source(side, ROT_180, n)) = n
         /\ Source(side, ROT_90, Source(side, ROT_90, n)) = Source(side, ROT_180, n)
         /\ Source(side, ROT_180, Source(side, ROT_90, n)) = Source(side, ROT_270, n)
<1> USE DEF Rotations
<1>1. CASE InLayer(n, side)
  <2> DEFINE type == TypeAt(n)
  <2>1. type \in {CORNER, SIDE}
    BY DEF TypeAt
  <2>2. PICK i \in 0..3 : n = Round(side, type, i)
    BY <1>1, RoundCovers
  <2>3. \A r \in Rotations, t \in Rotations :
          Source(side, t, Source(side, r, n))
            = Round(side, type, Before(Before(i, side, r), side, t))
    <3> SUFFICES ASSUME NEW r \in Rotations, NEW t \in Rotations
                 PROVE  Source(side, t, Source(side, r, n))
                          = Round(side, type, Before(Before(i, side, r), side, t))
      OBVIOUS
    <3>1. Source(side, r, n) = Round(side, type, Before(i, side, r))
      BY <2>1, <2>2, SourceInRound
    <3>2. Before(i, side, r) \in 0..3
      BY BeforeIs
    <3> QED BY <2>1, <3>1, <3>2, SourceInRound
  <2>4. \A r \in Rotations : Source(side, r, n) = Round(side, type, Before(i, side, r))
    BY <2>1, <2>2, SourceInRound
  <2>5. /\ Before(Before(i, side, ROT_270), side, ROT_90) = i
        /\ Before(Before(i, side, ROT_90), side, ROT_270) = i
        /\ Before(Before(i, side, ROT_180), side, ROT_180) = i
        /\ Before(Before(i, side, ROT_90), side, ROT_90) = Before(i, side, ROT_180)
        /\ Before(Before(i, side, ROT_90), side, ROT_180) = Before(i, side, ROT_270)
    <3>1. /\ Shift(side, ROT_180) = 2
          /\ \/ Shift(side, ROT_90) = 1 /\ Shift(side, ROT_270) = 3
             \/ Shift(side, ROT_90) = 3 /\ Shift(side, ROT_270) = 1
      BY DEF Shift, ROT_90, ROT_180, ROT_270
    <3>2. i = 0 \/ i = 1 \/ i = 2 \/ i = 3
      OBVIOUS
    <3>3. CASE Shift(side, ROT_90) = 1
      BY <3>1, <3>2, <3>3 DEF Before
    <3>4. CASE Shift(side, ROT_90) = 3
      BY <3>1, <3>2, <3>4 DEF Before
    <3> QED BY <3>1, <3>3, <3>4
  <2> QED BY <2>2, <2>3, <2>4, <2>5
<1>2. CASE ~InLayer(n, side)
  BY <1>2 DEF Source
<1> QED BY <1>1, <1>2

Undoing(rot) == IF rot = ROT_90 THEN ROT_270 ELSE IF rot = ROT_270 THEN ROT_90 ELSE rot

LEMMA SourceInverse ==
  ASSUME NEW side \in Faces, NEW rot \in Rotations, NEW n \in Slots
  PROVE  /\ Undoing(rot) \in Rotations
         /\ Source(side, rot, Source(side, Undoing(rot), n)) = n
         /\ Source(side, Undoing(rot), Source(side, rot, n)) = n
BY SourcesAdd DEF Undoing, Rotations, ROT_90, ROT_180, ROT_270

LEMMA Rotated ==
  ASSUME NEW c, NEW side \in Faces, NEW rot \in Rotations
  PROVE  /\ cube_rotate(c, side, rot) = [n \in Slots |-> cube_rotate(c, side, rot)[n]]
         /\ \A n \in Slots : cube_rotate(c, side, rot)[n] =
              IF InLayer(n, side)
              THEN subcube_rotate(c[Source(side, rot, n)], TypeAt(n), rot, side)
              ELSE c[n]
<1> SUFFICES ASSUME NEW n \in Slots
             PROVE  cube_rotate(c, side, rot)[n] =
                      IF InLayer(n, side)
                      THEN subcube_rotate(c[Source(side, rot, n)], TypeAt(n), rot, side)
                      ELSE c[n]
  BY DEF cube_rotate
<1>1. CASE InLayer(n, side)
  <2>1. Source(side, rot, n) = Origin[side][rot][n] /\ Origin[side][rot][n] \in Slots
    BY <1>1, SourceType DEF Source
  <2>2. Origin[side][rot][n] # Untouched
    BY <2>1 DEF Slots, Untouched
  <2> QED BY <1>1, <2>1, <2>2 DEF cube_rotate, TypeAt
<1>2. CASE ~InLayer(n, side)
  BY <1>2, OriginElsewhere DEF cube_rotate
<1> QED BY <1>1, <1>2
------------------------------------------------------------------------------
(* The bits of a piece.                                                    *)

LEMMA SubcubeFields ==
  ASSUME NEW s \in Subcubes
  PROVE  /\ s.id \in 0..15
         /\ s.rots \subseteq Axes \cup {FLIP}
         /\ \A t \in Subcubes : s.id = t.id /\ s.rots = t.rots => s = t
BY DEF Subcubes

LEMMA RotatedFields ==
  ASSUME NEW s \in Subcubes, NEW type \in {CORNER, SIDE},
         NEW rot \in Rotations, NEW side \in Faces
  PROVE  /\ subcube_rotate(s, type, rot, side) \in Subcubes
         /\ subcube_rotate(s, type, rot, side).id = s.id
         /\ subcube_rotate(s, type, rot, side).rots =
              IF rot = ROT_180 THEN s.rots ELSE SymDiff(s.rots, ToggledBits(type, side))
<1>1. ToggledBits(type, side) \subseteq Axes \cup {FLIP}
  BY FaceFacts DEF ToggledBits
<1>2. CASE rot = ROT_180
  BY <1>2 DEF subcube_rotate
<1>3. CASE rot # ROT_180
  <2>1. subcube_rotate(s, type, rot, side)
          = [s EXCEPT !.rots = SymDiff(s.rots, ToggledBits(type, side))]
    BY <1>3 DEF subcube_rotate
  <2>2. SymDiff(s.rots, ToggledBits(type, side)) \subseteq Axes \cup {FLIP}
    BY <1>1, SubcubeFields DEF SymDiff
  <2> QED BY <1>3, <2>1, <2>2 DEF Subcubes
<1> QED BY <1>2, <1>3

LEMMA SymDiffTwice ==
  ASSUME NEW A, NEW B
  PROVE  SymDiff(SymDiff(A, B), B) = A
BY DEF SymDiff

LEMMA SymDiffWithin ==
  ASSUME NEW A, NEW B, NEW C
  PROVE  SymDiff(A, B) \cap C = SymDiff(A \cap C, B \cap C)
BY DEF SymDiff

(* Two quarter turns of a side give a piece its bits back.                 *)
LEMMA RotatedTwice ==
  ASSUME NEW s \in Subcubes, NEW type \in {CORNER, SIDE}, NEW side \in Faces,
         NEW rot \in Rotations, NEW rot2 \in Rotations
  PROVE  LET t == subcube_rotate(subcube_rotate(s, type, rot, side), type, rot2, side)
         IN /\ rot # ROT_180 /\ rot2 # ROT_180 => t = s
            /\ rot # ROT_180 /\ rot2 = ROT_180 => t = subcube_rotate(s, type, rot, side)
            /\ rot = ROT_180 => t = subcube_rotate(s, type, rot2, side)
<1> DEFINE once == subcube_rotate(s, type, rot, side)
           t == subcube_rotate(once, type, rot2, side)
<1>1. once \in Subcubes /\ t \in Subcubes
  BY RotatedFields
<1>2. ASSUME rot # ROT_180, rot2 # ROT_180
      PROVE  t = s
  <2>1. once.id = s.id /\ once.rots = SymDiff(s.rots, ToggledBits(type, side))
    BY <1>2, RotatedFields
  <2>2. t.id = once.id /\ t.rots = SymDiff(once.rots, ToggledBits(type, side))
    BY <1>1, <1>2, RotatedFields
  <2>3. t.rots = s.rots
    BY <2>1, <2>2, SymDiffTwice
  <2> HIDE DEF once, t
  <2> QED BY <1>1, <2>1, <2>2, <2>3, SubcubeFields
<1>3. rot2 = ROT_180 => t = once
  BY DEF subcube_rotate
<1>4. rot = ROT_180 => once = s
  BY DEF subcube_rotate
<1> QED BY <1>2, <1>3, <1>4

(* The axes on which a piece shows a face at a position.                   *)
Shown(p) == {a \in Axes : p[a] # 1}

(* The order of a side's round alternates between its two axes, which is   *)
(* what toggling the bits of both at every quarter turn relies on.         *)
LEMMA ShownAfterTurn ==
  ASSUME NEW side \in Faces, NEW rot \in Rotations, NEW n \in Slots,
         TypeAt(n) = SIDE, InLayer(n, side)
  PROVE  Shown(PieceAt[n]) =
           IF rot = ROT_180 THEN Shown(PieceAt[Source(side, rot, n)])
           ELSE SymDiff(Shown(PieceAt[Source(side, rot, n)]), Axes \ {faceToAxis(side)})
<1>1. PICK i \in 0..3 : n = Round(side, SIDE, i)
  BY RoundCovers
<1> DEFINE j == Before(i, side, rot)
           p == Place(side, SIDE, i)
           q == Place(side, SIDE, j)
<1>2. j \in 0..3 /\ Source(side, rot, n) = Round(side, SIDE, j)
  BY <1>1, BeforeIs, SourceInRound
<1>3. PieceAt[n] = p /\ PieceAt[Source(side, rot, n)] = q
  BY <1>1, <1>2, PlaceType, PieceAtSlot DEF Round
<1>4. /\ p[faceToAxis(side)] # 1 /\ q[faceToAxis(side)] # 1
      /\ p[First(side)] = 1 <=> i \in {1, 3}
      /\ p[Second(side)] = 1 <=> i \in {0, 2}
      /\ q[First(side)] = 1 <=> j \in {1, 3}
      /\ q[Second(side)] = 1 <=> j \in {0, 2}
  <2>1. p[faceToAxis(side)] # 1 /\ q[faceToAxis(side)] # 1
    BY <1>2, PlaceIs DEF Front
  <2>2. /\ p[First(side)] = 1 <=> i \in {1, 3}
        /\ p[Second(side)] = 1 <=> i \in {0, 2}
    BY PlaceIs, OrderIs, TypeFacts
  <2>3. /\ q[First(side)] = 1 <=> j \in {1, 3}
        /\ q[Second(side)] = 1 <=> j \in {0, 2}
    <3> HIDE DEF j
    <3> QED BY <1>2, PlaceIs, OrderIs, TypeFacts
  <2> QED BY <2>1, <2>2, <2>3
<1>5. IF rot = ROT_180 THEN i \in {1, 3} <=> j \in {1, 3}
      ELSE i \in {1, 3} <=> j \in {0, 2}
  <2>1. i = 0 \/ i = 1 \/ i = 2 \/ i = 3
    OBVIOUS
  <2>2. CASE rot = ROT_180
    BY <2>1, <2>2, ShiftIs DEF Before
  <2>3. CASE rot # ROT_180 /\ Shift(side, rot) = 1
    BY <2>1, <2>3 DEF Before
  <2>4. CASE rot # ROT_180 /\ Shift(side, rot) = 3
    BY <2>1, <2>4 DEF Before
  <2> QED BY <2>2, <2>3, <2>4, ShiftIs
<1>6. (i \in {0, 2} <=> i \notin {1, 3}) /\ (j \in {0, 2} <=> j \notin {1, 3})
  BY <1>2
<1> HIDE DEF j, p, q
<1>7. CASE rot = ROT_180
  BY <1>4, <1>5, <1>6, <1>7, AxesOf, <1>3 DEF Shown
<1>8. CASE rot # ROT_180
  <2>1. \A a \in Axes : p[a] # 1 <=>
          (a = faceToAxis(side) /\ q[a] # 1) \/ (a # faceToAxis(side) /\ q[a] = 1)
    BY <1>4, <1>5, <1>6, <1>8, AxesOf
  <2>2. Shown(p) = SymDiff(Shown(q), Axes \ {faceToAxis(side)})
    BY <2>1, FaceFacts DEF Shown, SymDiff
  <2> QED BY <1>3, <1>8, <2>2
<1> QED BY <1>7, <1>8
------------------------------------------------------------------------------
(* The inductive invariant.                                                *)

(* What a turn needs to know of the cube: every piece has the bits of its  *)
(* kind, and the axis bits of a side name the axes on which its place has  *)
(* a face.  The count of those bits in TypeOK is not inductive without the *)
(* second: the exclusive or keeps two bits set only if the bit of the      *)
(* turn's axis was one of them.                                            *)
PiecesFit(c) ==
  /\ c \in [Slots -> Subcubes]
  /\ \A n \in Slots : TypeAt(n) = CORNER => c[n].id < 8 /\ FLIP \notin c[n].rots
  /\ \A n \in Slots : TypeAt(n) = SIDE => c[n].id \in 0..12 \ {6}
  /\ \A n \in Slots : TypeAt(n) = SIDE => c[n].rots \cap Axes = Shown(PieceAt[n])

(* No two corners, and no two sides, are the same piece.                   *)
IdsApart(c) ==
  \A m, n \in Slots : TypeAt(m) = TypeAt(n) /\ c[m].id = c[n].id => m = n

SamePieces(c, d) ==
  \A n \in Slots : \E m \in Slots : c[m].id = d[n].id /\ TypeAt(m) = TypeAt(n)

IInv ==
  /\ turns \in 0..MaxTurns
  /\ PiecesFit(cube)
  /\ IdsApart(cube)
  /\ SamePieces(cube, cube_create)
  /\ SamePieces(cube_create, cube)

LEMMA DefaultCorner ==
  ASSUME NEW p \in Pieces, subcube_type(p) = CORNER
  PROVE  /\ subcube_default_at(p) \in Subcubes
         /\ subcube_default_at(p).rots = {}
         /\ subcube_default_at(p).id \in 0..7
         /\ subcube_default_at(p).id = p[0] \div 2 + 2 * (p[1] \div 2) + 4 * (p[2] \div 2)
<1> DEFINE id == p[0] \div 2 + 2 * (p[1] \div 2) + 4 * (p[2] \div 2)
<1>1. p[0] \in {0, 2} /\ p[1] \in {0, 2} /\ p[2] \in {0, 2}
  BY PiecesType, CornerPlace
<1>2. subcube_default_at(p) = [id |-> id, rots |-> {}]
  BY AxesFacts DEF subcube_default_at
<1>3. id \in 0..7
  BY <1>1
<1> HIDE DEF id
<1>4. subcube_default_at(p) \in Subcubes
  BY <1>2, <1>3 DEF Subcubes
<1> QED BY <1>2, <1>3, <1>4 DEF id

LEMMA DefaultSide ==
  ASSUME NEW p \in Pieces, subcube_type(p) = SIDE
  PROVE  /\ subcube_default_at(p) \in Subcubes
         /\ subcube_default_at(p).rots \cap Axes = Shown(p)
         /\ FLIP \notin subcube_default_at(p).rots
         /\ subcube_default_at(p).id \in 0..12 \ {6}
         /\ 2 * subcube_default_at(p).id + 1 = Sum(p)
<1> DEFINE id == (Sum(p) + 1) \div 2 - 1
           rots == IF id % 3 = 0 THEN {WY, BG}
                   ELSE IF id > 3 /\ id < 9 THEN {BG, OR} ELSE {WY, OR}
<1>1. subcube_default_at(p) = [id |-> id, rots |-> rots]
  BY TypeFacts DEF subcube_default_at
<1>2. /\ Sum(p) \in {1, 3, 5, 7, 9, 11, 15, 17, 19, 21, 23, 25}
      /\ Sum(p) = 9 * p[0] + 3 * p[1] + p[2]
      /\ <<p[0], p[1], p[2]>> \in SideCoordinates
      /\ p \in Positions
  BY SideSlots, SidePlace, PiecesType
<1>3. id \in 0..12 \ {6} /\ 2 * id + 1 = Sum(p)
  BY <1>2
<1>4. /\ id % 3 = 0 <=> p[2] = 1
      /\ (id > 3 /\ id < 9) <=> p[0] = 1
  BY <1>2, <1>3 DEF SideCoordinates
<1>5. \/ p[0] = 1 /\ p[1] # 1 /\ p[2] # 1
      \/ p[1] = 1 /\ p[0] # 1 /\ p[2] # 1
      \/ p[2] = 1 /\ p[0] # 1 /\ p[1] # 1
  BY <1>2 DEF SideCoordinates
<1>6. rots = Shown(p)
  <2> HIDE DEF id
  <2> QED BY <1>4, <1>5, AxesFacts DEF Shown
<1>7. rots \subseteq Axes
  BY AxesFacts
<1> HIDE DEF id, rots
<1>8. subcube_default_at(p) \in Subcubes
  BY <1>1, <1>3, <1>7 DEF Subcubes
<1>9. rots \cap Axes = Shown(p) /\ FLIP \notin rots
  BY <1>6, <1>7, AxesFacts DEF FLIP
<1> QED BY <1>1, <1>3, <1>8, <1>9

LEMMA CreatedIs ==
  ASSUME NEW n \in Slots
  PROVE  /\ PieceAt[n] \in Pieces
         /\ subcube_type(PieceAt[n]) = TypeAt(n)
         /\ cube_create[n] = subcube_default_at(PieceAt[n])
<1>1. PieceAt[n] \in Pieces /\ subcube(PieceAt[n]) = n
  BY PieceAtSlot
<1>2. subcube_type(PieceAt[n]) = TypeAt(n)
  BY <1>1, PiecesType DEF TypeAt
<1> QED BY <1>1, <1>2 DEF cube_create

LEMMA CreatedFits == PiecesFit(cube_create)
<1>1. ASSUME NEW n \in Slots, TypeAt(n) = CORNER
      PROVE  /\ cube_create[n] \in Subcubes
             /\ cube_create[n].id < 8 /\ FLIP \notin cube_create[n].rots
  BY <1>1, CreatedIs, DefaultCorner
<1>2. ASSUME NEW n \in Slots, TypeAt(n) = SIDE
      PROVE  /\ cube_create[n] \in Subcubes
             /\ cube_create[n].id \in 0..12 \ {6}
             /\ cube_create[n].rots \cap Axes = Shown(PieceAt[n])
  BY <1>2, CreatedIs, DefaultSide
<1>3. \A n \in Slots : TypeAt(n) = CORNER \/ TypeAt(n) = SIDE
  BY DEF TypeAt
<1>4. cube_create \in [Slots -> Subcubes]
  BY <1>1, <1>2, <1>3 DEF cube_create
<1> QED BY <1>1, <1>2, <1>4 DEF PiecesFit

LEMMA CreatedApart == IdsApart(cube_create)
<1> SUFFICES ASSUME NEW m \in Slots, NEW n \in Slots, TypeAt(m) = TypeAt(n),
                    cube_create[m].id = cube_create[n].id
             PROVE  m = n
  BY DEF IdsApart
<1> DEFINE p == PieceAt[m]
           q == PieceAt[n]
<1>1. /\ p \in Pieces /\ q \in Pieces /\ p \in Positions /\ q \in Positions
      /\ subcube_type(p) = TypeAt(m) /\ subcube_type(q) = TypeAt(m)
      /\ subcube_default_at(p).id = subcube_default_at(q).id
  BY CreatedIs, PiecesType
<1>2. p = q
  <2> HIDE DEF p, q
  <2>1. CASE TypeAt(m) = CORNER
    <3>1. /\ p[0] \in {0, 2} /\ p[1] \in {0, 2} /\ p[2] \in {0, 2}
          /\ q[0] \in {0, 2} /\ q[1] \in {0, 2} /\ q[2] \in {0, 2}
      BY <1>1, <2>1, CornerPlace
    <3>2. p[0] \div 2 + 2 * (p[1] \div 2) + 4 * (p[2] \div 2)
            = q[0] \div 2 + 2 * (q[1] \div 2) + 4 * (q[2] \div 2)
      BY <1>1, <2>1, DefaultCorner
    <3>3. p[0] = q[0] /\ p[1] = q[1] /\ p[2] = q[2]
      BY <3>1, <3>2
    <3> QED BY <1>1, <3>3, Coordinates
  <2>2. CASE TypeAt(m) = SIDE
    <3>1. Sum(p) = Sum(q)
      BY <1>1, <2>2, DefaultSide
    <3>2. 9 * p[0] + 3 * p[1] + p[2] = 9 * q[0] + 3 * q[1] + q[2]
      BY <1>1, <2>2, <3>1, SideSlots
    <3>3. /\ p[0] \in 0..2 /\ p[1] \in 0..2 /\ p[2] \in 0..2
          /\ q[0] \in 0..2 /\ q[1] \in 0..2 /\ q[2] \in 0..2
      BY <1>1, Coordinates
    <3>4. p[0] = q[0] /\ p[1] = q[1] /\ p[2] = q[2]
      BY <3>2, <3>3
    <3> QED BY <1>1, <3>4, Coordinates
  <2> QED BY <2>1, <2>2 DEF TypeAt
<1> QED BY <1>2, PieceAtSlot

LEMMA InitIInv == Init => IInv
<1> SUFFICES ASSUME Init
             PROVE  IInv
  OBVIOUS
<1>1. cube = cube_create /\ turns \in 0..MaxTurns
  BY TurnsAssumption DEF Init
<1>2. SamePieces(cube_create, cube_create)
  BY DEF SamePieces
<1> QED BY <1>1, <1>2, CreatedFits, CreatedApart DEF IInv

(* What a turn does to one slot of a cube whose pieces fit.                *)
LEMMA TurnedSlot ==
  ASSUME NEW c, PiecesFit(c), NEW side \in Faces, NEW rot \in Rotations,
         NEW n \in Slots
  PROVE  /\ cube_rotate(c, side, rot)[n] \in Subcubes
         /\ cube_rotate(c, side, rot)[n].id = c[Source(side, rot, n)].id
         /\ cube_rotate(c, side, rot)[n].rots =
              IF InLayer(n, side) /\ rot # ROT_180
              THEN SymDiff(c[Source(side, rot, n)].rots, ToggledBits(TypeAt(n), side))
              ELSE c[Source(side, rot, n)].rots
<1>1. Source(side, rot, n) \in Slots
  BY SourceType
<1>2. c[n] \in Subcubes /\ c[Source(side, rot, n)] \in Subcubes
  BY <1>1 DEF PiecesFit
<1>3. TypeAt(n) \in {CORNER, SIDE}
  BY DEF TypeAt
<1>4. CASE InLayer(n, side)
  BY <1>2, <1>3, <1>4, Rotated, RotatedFields
<1>5. CASE ~InLayer(n, side)
  BY <1>2, <1>5, Rotated DEF Source
<1> QED BY <1>4, <1>5

LEMMA TurnFits ==
  ASSUME NEW c, PiecesFit(c), NEW side \in Faces, NEW rot \in Rotations
  PROVE  PiecesFit(cube_rotate(c, side, rot))
<1> DEFINE d == cube_rotate(c, side, rot)
           from(n) == Source(side, rot, n)
<1>1. \A n \in Slots : from(n) \in Slots /\ TypeAt(from(n)) = TypeAt(n)
  BY SourceType
<1>2. d \in [Slots -> Subcubes]
  <2>1. d = [n \in Slots |-> d[n]]
    BY Rotated
  <2>2. \A n \in Slots : d[n] \in Subcubes
    BY TurnedSlot
  <2> HIDE DEF d
  <2> QED BY <2>1, <2>2
<1>3. ASSUME NEW n \in Slots, TypeAt(n) = CORNER
      PROVE  d[n].id < 8 /\ FLIP \notin d[n].rots
  <2>1. c[from(n)].id < 8 /\ FLIP \notin c[from(n)].rots
    BY <1>1, <1>3 DEF PiecesFit
  <2>2. FLIP \notin ToggledBits(TypeAt(n), side)
    <3>1. faceToAxis(side) # FLIP
      BY FaceFacts, AxesFacts DEF FLIP
    <3> QED BY <1>3, <3>1 DEF ToggledBits
  <2> QED BY <2>1, <2>2, TurnedSlot DEF SymDiff
<1>4. ASSUME NEW n \in Slots, TypeAt(n) = SIDE
      PROVE  d[n].id \in 0..12 \ {6}
  <2>1. c[from(n)].id \in 0..12 \ {6}
    BY <1>1, <1>4 DEF PiecesFit
  <2> QED BY <2>1, TurnedSlot
<1>5. ASSUME NEW n \in Slots, TypeAt(n) = SIDE
      PROVE  d[n].rots \cap Axes = Shown(PieceAt[n])
  <2>1. c[from(n)].rots \cap Axes = Shown(PieceAt[from(n)])
    BY <1>1, <1>5 DEF PiecesFit
  <2>2. CASE InLayer(n, side) /\ rot # ROT_180
    <3>1. ToggledBits(TypeAt(n), side) \cap Axes = Axes \ {faceToAxis(side)}
      BY <1>5, TypeFacts, AxesFacts DEF ToggledBits, FLIP
    <3>2. d[n].rots \cap Axes
            = SymDiff(c[from(n)].rots \cap Axes, Axes \ {faceToAxis(side)})
      <4>1. d[n].rots = SymDiff(c[from(n)].rots, ToggledBits(TypeAt(n), side))
        BY <2>2, TurnedSlot
      <4>2. SymDiff(c[from(n)].rots, ToggledBits(TypeAt(n), side)) \cap Axes
              = SymDiff(c[from(n)].rots \cap Axes, ToggledBits(TypeAt(n), side) \cap Axes)
        BY SymDiffWithin
      <4> QED BY <3>1, <4>1, <4>2
    <3> QED BY <1>5, <2>1, <2>2, <3>2, ShownAfterTurn
  <2>3. CASE InLayer(n, side) /\ rot = ROT_180
    <3>1. d[n].rots = c[from(n)].rots
      BY <2>3, TurnedSlot
    <3>2. Shown(PieceAt[n]) = Shown(PieceAt[from(n)])
      BY <1>5, <2>3, ShownAfterTurn
    <3> HIDE DEF d, from
    <3> QED BY <2>1, <3>1, <3>2
  <2>4. CASE ~InLayer(n, side)
    BY <2>1, <2>4, TurnedSlot DEF Source
  <2> QED BY <2>2, <2>3, <2>4
<1> HIDE DEF d
<1> QED BY <1>2, <1>3, <1>4, <1>5 DEF PiecesFit, d

LEMMA TurnKeepsApart ==
  ASSUME NEW c, PiecesFit(c), IdsApart(c), NEW side \in Faces, NEW rot \in Rotations
  PROVE  IdsApart(cube_rotate(c, side, rot))
<1> DEFINE d == cube_rotate(c, side, rot)
           from(n) == Source(side, rot, n)
<1> SUFFICES ASSUME NEW m \in Slots, NEW n \in Slots, TypeAt(m) = TypeAt(n),
                    d[m].id = d[n].id
             PROVE  m = n
  BY DEF IdsApart
<1>1. c[from(m)].id = c[from(n)].id
  BY TurnedSlot
<1>2. from(m) = from(n)
  BY <1>1, SourceType DEF IdsApart
<1> QED BY <1>2, SourceInverse

LEMMA TurnKeepsPieces ==
  ASSUME NEW c, PiecesFit(c), NEW side \in Faces, NEW rot \in Rotations, NEW e
  PROVE  /\ SamePieces(c, e) => SamePieces(cube_rotate(c, side, rot), e)
         /\ SamePieces(e, c) => SamePieces(e, cube_rotate(c, side, rot))
<1> DEFINE d == cube_rotate(c, side, rot)
           from(n) == Source(side, rot, n)
           to(n) == Source(side, Undoing(rot), n)
<1>1. \A n \in Slots : /\ to(n) \in Slots /\ from(to(n)) = n
                        /\ TypeAt(to(n)) = TypeAt(n)
  BY SourceInverse, SourceType
<1>2. ASSUME SamePieces(c, e), NEW n \in Slots
      PROVE  \E m \in Slots : d[m].id = e[n].id /\ TypeAt(m) = TypeAt(n)
  <2>1. PICK m \in Slots : c[m].id = e[n].id /\ TypeAt(m) = TypeAt(n)
    BY <1>2 DEF SamePieces
  <2>2. d[to(m)].id = c[m].id
    BY <1>1, TurnedSlot
  <2> QED BY <1>1, <2>1, <2>2
<1>3. ASSUME SamePieces(e, c), NEW n \in Slots
      PROVE  \E m \in Slots : e[m].id = d[n].id /\ TypeAt(m) = TypeAt(n)
  <2>1. from(n) \in Slots /\ TypeAt(from(n)) = TypeAt(n)
    BY SourceType
  <2>2. PICK m \in Slots : e[m].id = c[from(n)].id /\ TypeAt(m) = TypeAt(from(n))
    BY <1>3, <2>1 DEF SamePieces
  <2> QED BY <2>1, <2>2, TurnedSlot
<1> QED BY <1>2, <1>3 DEF SamePieces

LEMMA StepIInv == IInv /\ [Next]_vars => IInv'
<1> SUFFICES ASSUME IInv, [Next]_vars
             PROVE  IInv'
  OBVIOUS
<1>1. CASE UNCHANGED vars
  BY <1>1 DEF IInv, vars, PiecesFit, IdsApart, SamePieces
<1>2. ASSUME NEW side \in Faces, NEW rot \in Rotations, Rotate(side, rot)
      PROVE  IInv'
  <2>1. cube' = cube_rotate(cube, side, rot) /\ turns' \in 0..MaxTurns
    BY <1>2, TurnsAssumption DEF Rotate, IInv
  <2>2. PiecesFit(cube')
    BY <2>1, TurnFits DEF IInv
  <2>3. IdsApart(cube')
    BY <2>1, TurnKeepsApart DEF IInv
  <2>4. SamePieces(cube', cube_create) /\ SamePieces(cube_create, cube')
    BY <2>1, TurnKeepsPieces DEF IInv
  <2>5. /\ PiecesFit(cube') <=> PiecesFit(cube)'
        /\ IdsApart(cube') <=> IdsApart(cube)'
        /\ SamePieces(cube', cube_create) <=> SamePieces(cube, cube_create)'
        /\ SamePieces(cube_create, cube') <=> SamePieces(cube_create, cube)'
    BY DEF PiecesFit, IdsApart, SamePieces
  <2> QED BY <2>1, <2>2, <2>3, <2>4, <2>5 DEF IInv
<1> QED BY <1>1, <1>2 DEF Next

(* The invariant holds after any number of turns.                          *)
THEOREM Invariance == Spec => []IInv
<1>1. Init => IInv
  BY InitIInv
<1>2. IInv /\ [Next]_vars => IInv'
  BY StepIInv
<1> QED BY <1>1, <1>2, PTL DEF Spec
------------------------------------------------------------------------------
(* Its consequences.                                                       *)

LEMMA TwoAxesShown ==
  ASSUME NEW p \in Positions, subcube_type(p) = SIDE
  PROVE  Cardinality(Shown(p)) = 2
<1>1. PICK m \in Axes : p[m] = 1 /\ \A b \in Axes \ {m} : p[b] # 1
  BY TypeIs DEF IsSide
<1>2. Shown(p) = Axes \ {m}
  BY <1>1 DEF Shown
<1>3. \E x, y : x # y /\ Shown(p) = {x} \cup {y}
  <2>1. CASE m = 0
    <3>1. Shown(p) = {1} \cup {2}
      BY <1>2, <2>1, AxesFacts
    <3> QED BY <3>1
  <2>2. CASE m = 1
    <3>1. Shown(p) = {0} \cup {2}
      BY <1>2, <2>2, AxesFacts
    <3> QED BY <3>1
  <2>3. CASE m = 2
    <3>1. Shown(p) = {0} \cup {1}
      BY <1>2, <2>3, AxesFacts
    <3> QED BY <3>1
  <2> QED BY <2>1, <2>2, <2>3, AxesFacts
<1>4. PICK x, y : x # y /\ Shown(p) = {x} \cup {y}
  BY <1>3
<1>5. IsFiniteSet({x}) /\ Cardinality({x}) = 1
  BY FS_Singleton
<1>6. Cardinality({x} \cup {y}) = 1 + 1
  BY <1>4, <1>5, FS_AddElement
<1> QED BY <1>4, <1>6

(* The identities and bits of every piece stay within their ranges.        *)
THEOREM TypeCorrect == Spec => []TypeOK
<1>1. IInv => TypeOK
  <2> SUFFICES ASSUME IInv
               PROVE  TypeOK
    OBVIOUS
  <2>1. ASSUME NEW n \in Slots, n < NUM_CORNERS
        PROVE  cube[n].id < 8 /\ FLIP \notin cube[n].rots
    BY <2>1 DEF IInv, PiecesFit, TypeAt
  <2>2. ASSUME NEW n \in Slots, ~(n < NUM_CORNERS)
        PROVE  cube[n].id \in 0..12 \ {6} /\ Cardinality(cube[n].rots \cap Axes) = 2
    <3>1. TypeAt(n) = SIDE
      BY <2>2 DEF TypeAt
    <3>2. PieceAt[n] \in Positions /\ subcube_type(PieceAt[n]) = SIDE
      BY <3>1, CreatedIs, PiecesType
    <3>3. cube[n].id \in 0..12 \ {6} /\ cube[n].rots \cap Axes = Shown(PieceAt[n])
      BY <3>1 DEF IInv, PiecesFit
    <3> QED BY <3>2, <3>3, TwoAxesShown
  <2> QED BY <2>1, <2>2 DEF IInv, PiecesFit, TypeOK
<1> QED BY <1>1, Invariance, PTL

(* The bits of a side agree with its position, which subcube_rotate never  *)
(* looks at, whatever was turned.                                          *)
THEOREM BitsMatch == Spec => []SideBitsMatchPosition
<1>1. IInv => SideBitsMatchPosition
  <2> SUFFICES ASSUME IInv, NEW p \in Pieces, subcube_type(p) = SIDE
               PROVE  cube[subcube(p)].rots \cap Axes = {a \in Axes : p[a] # 1}
    BY DEF SideBitsMatchPosition
  <2>1. subcube(p) \in Slots /\ TypeAt(subcube(p)) = SIDE /\ PieceAt[subcube(p)] = p
    BY PiecesType, PieceAtSlot, TypeFacts DEF TypeAt
  <2>2. cube[subcube(p)].rots \cap Axes = Shown(p)
    BY <2>1 DEF IInv, PiecesFit
  <2> QED BY <2>2 DEF Shown
<1> QED BY <1>1, Invariance, PTL

(* No turn copies or loses a piece.                                        *)
THEOREM NoPieceLost == Spec => []PiecesAreKept
<1>1. IInv => PiecesAreKept
  <2> SUFFICES ASSUME IInv
               PROVE  PiecesAreKept
    OBVIOUS
  <2>1. \A m, n \in Slots : TypeAt(m) = TypeAt(n) =>
                            (m < NUM_CORNERS <=> n < NUM_CORNERS)
    BY TypeFacts DEF TypeAt
  <2> QED BY <2>1 DEF IInv, SamePieces, PiecesAreKept
<1> QED BY <1>1, Invariance, PTL
------------------------------------------------------------------------------
(* Turns one after the other.                                              *)

LEMMA SameCube ==
  ASSUME NEW c, NEW d, c = [n \in Slots |-> c[n]], d = [n \in Slots |-> d[n]],
         \A n \in Slots : c[n] = d[n]
  PROVE  c = d
<1>1. [n \in Slots |-> c[n]] = [n \in Slots |-> d[n]]
  OBVIOUS
<1> QED BY <1>1, Zenon

LEMMA TwoTurns ==
  ASSUME NEW c, NEW side \in Faces, NEW first \in Rotations,
         NEW second \in Rotations, NEW n \in Slots
  PROVE  cube_rotate(cube_rotate(c, side, first), side, second)[n] =
           IF InLayer(n, side)
           THEN subcube_rotate(
                  subcube_rotate(c[Source(side, first, Source(side, second, n))],
                                 TypeAt(n), first, side), TypeAt(n), second, side)
           ELSE c[n]
<1> DEFINE m == Source(side, second, n)
<1>1. /\ m \in Slots /\ TypeAt(m) = TypeAt(n)
      /\ InLayer(m, side) <=> InLayer(n, side)
  BY SourceType
<1>2. CASE InLayer(n, side)
  <2>1. cube_rotate(cube_rotate(c, side, first), side, second)[n]
          = subcube_rotate(cube_rotate(c, side, first)[m], TypeAt(n), second, side)
    BY <1>2, Rotated
  <2>2. cube_rotate(c, side, first)[m]
          = subcube_rotate(c[Source(side, first, m)], TypeAt(n), first, side)
    BY <1>1, <1>2, Rotated
  <2> QED BY <1>2, <2>1, <2>2
<1>3. CASE ~InLayer(n, side)
  BY <1>3, Rotated
<1> QED BY <1>2, <1>3

LEMMA QuartersAddUp ==
  ASSUME NEW c, PiecesFit(c), NEW side \in Faces
  PROVE  LET once == cube_rotate(c, side, ROT_90)
             twice == cube_rotate(once, side, ROT_90)
         IN /\ cube_rotate(once, side, ROT_270) = c
            /\ twice = cube_rotate(c, side, ROT_180)
            /\ cube_rotate(twice, side, ROT_90) = cube_rotate(c, side, ROT_270)
<1> DEFINE half == cube_rotate(c, side, ROT_180)
           once == cube_rotate(c, side, ROT_90)
           twice == cube_rotate(once, side, ROT_90)
<1>1. ROT_90 \in Rotations /\ ROT_180 \in Rotations /\ ROT_270 \in Rotations
      /\ ROT_90 # ROT_180 /\ ROT_270 # ROT_180
  BY DEF Rotations, ROT_90, ROT_180, ROT_270
<1>2. \A n \in Slots : TypeAt(n) \in {CORNER, SIDE}
  BY DEF TypeAt
<1>3. \A n \in Slots, r \in Rotations : c[n] \in Subcubes /\ c[Source(side, r, n)] \in Subcubes
  BY SourceType DEF PiecesFit
<1>4. cube_rotate(once, side, ROT_270) = c
  <2> DEFINE back == cube_rotate(once, side, ROT_270)
  <2>1. \A n \in Slots : back[n] = c[n]
    <3> SUFFICES ASSUME NEW n \in Slots
                 PROVE  back[n] = c[n]
      OBVIOUS
    <3>1. CASE InLayer(n, side)
      <4>1. back[n] = subcube_rotate(subcube_rotate(c[n], TypeAt(n), ROT_90, side),
                                     TypeAt(n), ROT_270, side)
        <5>1. back[n] = subcube_rotate(
                subcube_rotate(c[Source(side, ROT_90, Source(side, ROT_270, n))],
                               TypeAt(n), ROT_90, side), TypeAt(n), ROT_270, side)
          BY <1>1, <3>1, TwoTurns
        <5>2. Source(side, ROT_90, Source(side, ROT_270, n)) = n
          BY SourcesAdd
        <5> QED BY <5>1, <5>2
      <4> QED BY <1>1, <1>2, <1>3, <4>1, RotatedTwice
    <3>2. CASE ~InLayer(n, side)
      BY <1>1, <3>2, TwoTurns
    <3> QED BY <3>1, <3>2
  <2>2. back = [n \in Slots |-> back[n]]
    BY <1>1, Rotated
  <2>3. c = [n \in Slots |-> c[n]]
    BY DEF PiecesFit
  <2> HIDE DEF back
  <2>4. back = c
    BY <2>1, <2>2, <2>3, SameCube
  <2> QED BY <2>4 DEF back
<1>5. twice = half
  <2>1. \A n \in Slots : twice[n] = half[n]
    <3> SUFFICES ASSUME NEW n \in Slots
                 PROVE  twice[n] = half[n]
      OBVIOUS
    <3> DEFINE s == c[Source(side, ROT_180, n)]
    <3>1. CASE InLayer(n, side)
      <4>1. twice[n] = subcube_rotate(subcube_rotate(s, TypeAt(n), ROT_90, side),
                                      TypeAt(n), ROT_90, side)
        <5>1. twice[n] = subcube_rotate(
                subcube_rotate(c[Source(side, ROT_90, Source(side, ROT_90, n))],
                               TypeAt(n), ROT_90, side), TypeAt(n), ROT_90, side)
          BY <1>1, <3>1, TwoTurns
        <5>2. Source(side, ROT_90, Source(side, ROT_90, n)) = Source(side, ROT_180, n)
          BY SourcesAdd
        <5> QED BY <5>1, <5>2
      <4>2. half[n] = subcube_rotate(s, TypeAt(n), ROT_180, side)
        BY <1>1, <3>1, Rotated
      <4>3. half[n] = s
        BY <4>2 DEF subcube_rotate
      <4> QED BY <1>1, <1>2, <1>3, <4>1, <4>3, RotatedTwice
    <3>2. CASE ~InLayer(n, side)
      <4>1. twice[n] = c[n]
        BY <1>1, <3>2, TwoTurns
      <4>2. half[n] = c[n]
        BY <1>1, <3>2, Rotated
      <4> QED BY <4>1, <4>2
    <3> QED BY <3>1, <3>2
  <2>2. twice = [n \in Slots |-> twice[n]] /\ half = [n \in Slots |-> half[n]]
    BY <1>1, Rotated
  <2> HIDE DEF twice, half
  <2> QED BY <2>1, <2>2, SameCube
<1>6. cube_rotate(half, side, ROT_90) = cube_rotate(c, side, ROT_270)
  <2> DEFINE left == cube_rotate(half, side, ROT_90)
             right == cube_rotate(c, side, ROT_270)
  <2>1. \A n \in Slots : left[n] = right[n]
    <3> SUFFICES ASSUME NEW n \in Slots
                 PROVE  left[n] = right[n]
      OBVIOUS
    <3> DEFINE s == c[Source(side, ROT_270, n)]
    <3>1. CASE InLayer(n, side)
      <4>1. left[n] = subcube_rotate(subcube_rotate(s, TypeAt(n), ROT_180, side),
                                     TypeAt(n), ROT_90, side)
        <5>1. left[n] = subcube_rotate(
                subcube_rotate(c[Source(side, ROT_180, Source(side, ROT_90, n))],
                               TypeAt(n), ROT_180, side), TypeAt(n), ROT_90, side)
          BY <1>1, <3>1, TwoTurns
        <5>2. Source(side, ROT_180, Source(side, ROT_90, n)) = Source(side, ROT_270, n)
          BY SourcesAdd
        <5> QED BY <5>1, <5>2
      <4>2. right[n] = subcube_rotate(s, TypeAt(n), ROT_270, side)
        BY <1>1, <3>1, Rotated
      <4> QED BY <1>1, <4>1, <4>2 DEF subcube_rotate
    <3>2. CASE ~InLayer(n, side)
      <4>1. left[n] = c[n]
        BY <1>1, <3>2, TwoTurns
      <4>2. right[n] = c[n]
        BY <1>1, <3>2, Rotated
      <4> QED BY <4>1, <4>2
    <3> QED BY <3>1, <3>2
  <2>2. left = [n \in Slots |-> left[n]] /\ right = [n \in Slots |-> right[n]]
    BY <1>1, Rotated
  <2> HIDE DEF left, right
  <2>3. left = right
    BY <2>1, <2>2, SameCube
  <2> QED BY <2>3 DEF left, right
<1> QED BY <1>4, <1>5, <1>6

LEMMA OppositesCommute ==
  ASSUME NEW c, NEW side \in Faces, NEW rot \in Rotations
  PROVE  cube_rotate(cube_rotate(c, side, rot), Opposite(side), rot)
           = cube_rotate(cube_rotate(c, Opposite(side), rot), side, rot)
<1> DEFINE other == Opposite(side)
           left == cube_rotate(cube_rotate(c, side, rot), other, rot)
           right == cube_rotate(cube_rotate(c, other, rot), side, rot)
<1>1. /\ other \in Faces
      /\ \A n \in Slots : ~(InLayer(n, side) /\ InLayer(n, other))
  BY OppositeLayer
<1> HIDE DEF other
<1>2. \A n \in Slots : left[n] = right[n]
  <2> SUFFICES ASSUME NEW n \in Slots
               PROVE  left[n] = right[n]
    OBVIOUS
  <2>1. CASE InLayer(n, side)
    <3>1. ~InLayer(n, other) /\ ~InLayer(Source(side, rot, n), other)
          /\ Source(side, rot, n) \in Slots
      BY <1>1, <2>1, SourceType
    <3>2. left[n] = subcube_rotate(c[Source(side, rot, n)], TypeAt(n), rot, side)
      BY <1>1, <2>1, <3>1, Rotated
    <3>3. right[n] = subcube_rotate(cube_rotate(c, other, rot)[Source(side, rot, n)],
                                    TypeAt(n), rot, side)
      BY <1>1, <2>1, Rotated
    <3>4. cube_rotate(c, other, rot)[Source(side, rot, n)] = c[Source(side, rot, n)]
      BY <1>1, <3>1, Rotated
    <3> QED BY <3>2, <3>3, <3>4
  <2>2. CASE InLayer(n, other)
    <3>1. ~InLayer(n, side) /\ ~InLayer(Source(other, rot, n), side)
          /\ Source(other, rot, n) \in Slots
      BY <1>1, <2>2, SourceType
    <3>2. right[n] = subcube_rotate(c[Source(other, rot, n)], TypeAt(n), rot, other)
      BY <1>1, <2>2, <3>1, Rotated
    <3>3. left[n] = subcube_rotate(cube_rotate(c, side, rot)[Source(other, rot, n)],
                                   TypeAt(n), rot, other)
      BY <1>1, <2>2, Rotated
    <3>4. cube_rotate(c, side, rot)[Source(other, rot, n)] = c[Source(other, rot, n)]
      BY <1>1, <3>1, Rotated
    <3> QED BY <3>2, <3>3, <3>4
  <2>3. CASE ~InLayer(n, side) /\ ~InLayer(n, other)
    <3>1. cube_rotate(c, side, rot)[n] = c[n] /\ cube_rotate(c, other, rot)[n] = c[n]
      BY <1>1, <2>3, Rotated
    <3>2. left[n] = cube_rotate(c, side, rot)[n]
      BY <1>1, <2>3, Rotated
    <3>3. right[n] = cube_rotate(c, other, rot)[n]
      BY <1>1, <2>3, Rotated
    <3> QED BY <3>1, <3>2, <3>3
  <2> QED BY <2>1, <2>2, <2>3
<1>3. left = [n \in Slots |-> left[n]] /\ right = [n \in Slots |-> right[n]]
  BY <1>1, Rotated
<1> HIDE DEF left, right
<1>4. left = right
  BY <1>2, <1>3, SameCube
<1> QED BY <1>4 DEF left, right, other

(* Three quarters undo one, two make a half, and opposite sides do not     *)
(* disturb each other, of every cube that turns can reach.                 *)
THEOREM Group == Spec => []TurnsFormAGroup
<1>1. IInv => TurnsFormAGroup
  <2> SUFFICES ASSUME IInv, NEW side \in Faces
               PROVE  LET once == cube_rotate(cube, side, ROT_90)
                          twice == cube_rotate(once, side, ROT_90)
                          other == (side + 3) % 6
                      IN /\ cube_rotate(once, side, ROT_270) = cube
                         /\ twice = cube_rotate(cube, side, ROT_180)
                         /\ cube_rotate(twice, side, ROT_90)
                              = cube_rotate(cube, side, ROT_270)
                         /\ cube_rotate(once, other, ROT_90)
                              = cube_rotate(cube_rotate(cube, other, ROT_90), side, ROT_90)
    BY DEF TurnsFormAGroup
  <2>1. PiecesFit(cube)
    BY DEF IInv
  <2>2. ROT_90 \in Rotations
    BY DEF Rotations
  <2> QED BY <2>1, <2>2, QuartersAddUp, OppositesCommute DEF Opposite
<1> QED BY <1>1, Invariance, PTL
------------------------------------------------------------------------------
(* A layer turns as one.                                                   *)

LEMMA PieceGoesTo ==
  ASSUME NEW c, PiecesFit(c), IdsApart(c), NEW side \in Faces, NEW rot \in Rotations,
         NEW m \in Slots
  PROVE  SlotOf(cube_rotate(c, side, rot), m, c) = Source(side, Undoing(rot), m)
<1> DEFINE d == cube_rotate(c, side, rot)
           to == Source(side, Undoing(rot), m)
           Holds(k) == d[k].id = c[m].id /\ (k < NUM_CORNERS <=> m < NUM_CORNERS)
<1>1. /\ to \in Slots /\ TypeAt(to) = TypeAt(m) /\ Source(side, rot, to) = m
  BY SourceInverse, SourceType
<1>2. \A k \in Slots : TypeAt(k) = TypeAt(m) <=> (k < NUM_CORNERS <=> m < NUM_CORNERS)
  BY TypeFacts DEF TypeAt
<1>3. d[to].id = c[m].id
  BY <1>1, TurnedSlot
<1>4. Holds(to)
  BY <1>1, <1>2, <1>3
<1>5. IdsApart(d)
  BY TurnKeepsApart
<1>6. \A k \in Slots : Holds(k) => k = to
  <2> SUFFICES ASSUME NEW k \in Slots, Holds(k)
               PROVE  k = to
    OBVIOUS
  <2>1. TypeAt(k) = TypeAt(to) /\ d[k].id = d[to].id
    BY <1>1, <1>2, <1>3
  <2> QED BY <1>1, <1>5, <2>1 DEF IdsApart
<1>7. SlotOf(d, m, c) = CHOOSE k \in Slots : Holds(k)
  BY DEF SlotOf
<1> HIDE DEF Holds, to, d
<1>8. (CHOOSE k \in Slots : Holds(k)) = to
  BY <1>1, <1>4, <1>6
<1> QED BY <1>7, <1>8 DEF d, to

(* Two pieces of a round are neighbours when they are the corner and the   *)
(* side at one index, or the corner and the side of the index before.      *)
Abreast(t, i, u, k) ==
  \/ t = CORNER /\ u = SIDE /\ (k = i \/ k = (i - 1) % 4)
  \/ t = SIDE /\ u = CORNER /\ (i = k \/ i = (k - 1) % 4)

LEMMA AdjacentInRound ==
  ASSUME NEW side \in Faces, NEW t \in {CORNER, SIDE}, NEW u \in {CORNER, SIDE},
         NEW i \in 0..3, NEW k \in 0..3
  PROVE  Adjacent(Round(side, t, i), Round(side, u, k)) <=> Abreast(t, i, u, k)
<1> DEFINE p == Place(side, t, i)
           q == Place(side, u, k)
           a == First(side)
           b == Second(side)
           Step(x, y) == x - y \in {-1, 1}
<1>1. PieceAt[Round(side, t, i)] = p /\ PieceAt[Round(side, u, k)] = q
  BY PlaceType, PieceAtSlot DEF Round
<1>2. p[faceToAxis(side)] = q[faceToAxis(side)] /\ p[faceToAxis(side)] \in 0..2
  BY PlaceIs DEF Front
<1>3. Adjacent(Round(side, t, i), Round(side, u, k)) <=>
        \E e \in Axes : Step(p[e], q[e]) /\ \A f \in Axes \ {e} : p[f] = q[f]
  BY <1>1 DEF Adjacent
<1>4. (\E e \in Axes : Step(p[e], q[e]) /\ \A f \in Axes \ {e} : p[f] = q[f]) <=>
        \/ Step(p[a], q[a]) /\ p[b] = q[b]
        \/ Step(p[b], q[b]) /\ p[a] = q[a]
  <2>1. ~Step(p[faceToAxis(side)], q[faceToAxis(side)])
    <3> HIDE DEF p, q
    <3> QED BY <1>2
  <2> HIDE DEF p, q, a, b, Step
  <2> QED BY <1>2, <2>1, AxesOf DEF a, b
<1>5. /\ p[a] = Order(t)[i + 1][1] /\ p[b] = Order(t)[i + 1][2]
      /\ q[a] = Order(u)[k + 1][1] /\ q[b] = Order(u)[k + 1][2]
  BY PlaceIs
<1>6. (\/ Step(p[a], q[a]) /\ p[b] = q[b]
       \/ Step(p[b], q[b]) /\ p[a] = q[a]) <=> Abreast(t, i, u, k)
  <2> HIDE DEF p, q, a, b
  <2>1. i = 0 \/ i = 1 \/ i = 2 \/ i = 3
    OBVIOUS
  <2>2. k = 0 \/ k = 1 \/ k = 2 \/ k = 3
    OBVIOUS
  <2>3. CASE t = CORNER /\ u = CORNER
    <3>1. p[a] \in {0, 2} /\ p[b] \in {0, 2} /\ q[a] \in {0, 2} /\ q[b] \in {0, 2}
      BY <1>5, <2>3, OrderIs
    <3> QED BY <2>3, <3>1, TypeFacts DEF Abreast
  <2>4. CASE t = CORNER /\ u = SIDE
    <3>1. /\ p[a] = IF i \in {0, 1} THEN 0 ELSE 2
          /\ p[b] = IF i \in {0, 3} THEN 0 ELSE 2
          /\ q[a] = IF k = 0 THEN 0 ELSE IF k = 2 THEN 2 ELSE 1
          /\ q[b] = IF k = 3 THEN 0 ELSE IF k = 1 THEN 2 ELSE 1
      BY <1>5, <2>4, OrderIs
    <3> QED BY <2>1, <2>2, <2>4, <3>1, TypeFacts DEF Abreast
  <2>5. CASE t = SIDE /\ u = CORNER
    <3>1. /\ q[a] = IF k \in {0, 1} THEN 0 ELSE 2
          /\ q[b] = IF k \in {0, 3} THEN 0 ELSE 2
          /\ p[a] = IF i = 0 THEN 0 ELSE IF i = 2 THEN 2 ELSE 1
          /\ p[b] = IF i = 3 THEN 0 ELSE IF i = 1 THEN 2 ELSE 1
      BY <1>5, <2>5, OrderIs
    <3> QED BY <2>1, <2>2, <2>5, <3>1, TypeFacts DEF Abreast
  <2>6. CASE t = SIDE /\ u = SIDE
    <3>1. /\ q[a] = IF k = 0 THEN 0 ELSE IF k = 2 THEN 2 ELSE 1
          /\ q[b] = IF k = 3 THEN 0 ELSE IF k = 1 THEN 2 ELSE 1
          /\ p[a] = IF i = 0 THEN 0 ELSE IF i = 2 THEN 2 ELSE 1
          /\ p[b] = IF i = 3 THEN 0 ELSE IF i = 1 THEN 2 ELSE 1
      BY <1>5, <2>6, OrderIs
    <3> QED BY <2>1, <2>2, <2>6, <3>1, TypeFacts DEF Abreast
  <2> QED BY <2>3, <2>4, <2>5, <2>6
<1> QED BY <1>3, <1>4, <1>6

LEMMA AbreastTurns ==
  ASSUME NEW side \in Faces, NEW rot \in Rotations, NEW t, NEW u,
         NEW i \in 0..3, NEW k \in 0..3, Abreast(t, i, u, k)
  PROVE  Abreast(t, Before(i, side, rot), u, Before(k, side, rot))
<1>1. \A m, n \in 0..3 : (n = m \/ n = (m - 1) % 4) =>
        \/ Before(n, side, rot) = Before(m, side, rot)
        \/ Before(n, side, rot) = (Before(m, side, rot) - 1) % 4
  <2> SUFFICES ASSUME NEW m \in 0..3, NEW n \in 0..3, n = (m - 1) % 4
               PROVE  Before(n, side, rot) = (Before(m, side, rot) - 1) % 4
    OBVIOUS
  <2>1. m = 0 \/ m = 1 \/ m = 2 \/ m = 3
    OBVIOUS
  <2>2. Shift(side, rot) = 1 \/ Shift(side, rot) = 2 \/ Shift(side, rot) = 3
    BY ShiftIs
  <2> QED BY <2>1, <2>2 DEF Before
<1> QED BY <1>1 DEF Abreast

LEMMA NeighboursStay ==
  ASSUME NEW side \in Faces, NEW rot \in Rotations, NEW m \in Slots, NEW n \in Slots,
         InLayer(m, side), InLayer(n, side), Adjacent(m, n)
  PROVE  Adjacent(Source(side, rot, m), Source(side, rot, n))
<1>1. TypeAt(m) \in {CORNER, SIDE} /\ TypeAt(n) \in {CORNER, SIDE}
  BY DEF TypeAt
<1>2. PICK i \in 0..3 : m = Round(side, TypeAt(m), i)
  BY RoundCovers
<1>3. PICK k \in 0..3 : n = Round(side, TypeAt(n), k)
  BY RoundCovers
<1>4. Abreast(TypeAt(m), i, TypeAt(n), k)
  BY <1>1, <1>2, <1>3, AdjacentInRound
<1>5. Abreast(TypeAt(m), Before(i, side, rot), TypeAt(n), Before(k, side, rot))
  BY <1>4, AbreastTurns
<1>6. /\ Source(side, rot, m) = Round(side, TypeAt(m), Before(i, side, rot))
      /\ Source(side, rot, n) = Round(side, TypeAt(n), Before(k, side, rot))
  BY <1>1, <1>2, <1>3, SourceInRound
<1>7. Before(i, side, rot) \in 0..3 /\ Before(k, side, rot) \in 0..3
  BY BeforeIs
<1> QED BY <1>1, <1>5, <1>6, <1>7, AdjacentInRound

OneLayerTurns ==
  \E f \in Faces :
    /\ \A n \in Slots : ~InLayer(n, f) => cube'[n] = cube[n]
    /\ \A e \in Neighbours : InLayer(e[1], f) /\ InLayer(e[2], f) =>
         <<SlotOf(cube', e[1], cube), SlotOf(cube', e[2], cube)>> \in Neighbours

(* A turn takes the corners and the sides of one layer round together,     *)
(* though each kind goes by a table of its own, and moves nothing else.    *)
THEOREM OneLayer == Spec => LayersTurnAsOne
<1>1. IInv /\ [Next]_vars => [OneLayerTurns]_cube
  <2> SUFFICES ASSUME IInv, Next
               PROVE  OneLayerTurns
    BY DEF vars
  <2>1. PICK side \in Faces, rot \in Rotations : Rotate(side, rot)
    BY DEF Next
  <2>2. cube' = cube_rotate(cube, side, rot) /\ PiecesFit(cube) /\ IdsApart(cube)
    BY <2>1 DEF Rotate, IInv
  <2>3. ASSUME NEW n \in Slots, ~InLayer(n, side)
        PROVE  cube'[n] = cube[n]
    BY <2>2, <2>3, Rotated
  <2>4. ASSUME NEW e \in Neighbours, InLayer(e[1], side), InLayer(e[2], side)
        PROVE  <<SlotOf(cube', e[1], cube), SlotOf(cube', e[2], cube)>> \in Neighbours
    <3> DEFINE m == e[1]
               n == e[2]
               to(k) == Source(side, Undoing(rot), k)
    <3>1. m \in Slots /\ n \in Slots /\ Adjacent(m, n)
      BY <2>4 DEF Neighbours
    <3>2. Undoing(rot) \in Rotations /\ to(m) \in Slots /\ to(n) \in Slots
      BY <3>1, SourceInverse, SourceType
    <3>3. Adjacent(to(m), to(n))
      BY <2>4, <3>1, <3>2, NeighboursStay
    <3>4. SlotOf(cube', m, cube) = to(m) /\ SlotOf(cube', n, cube) = to(n)
      BY <2>2, <3>1, PieceGoesTo
    <3>5. <<to(m), to(n)>> \in Neighbours
      BY <3>2, <3>3 DEF Neighbours
    <3> QED BY <3>4, <3>5
  <2> QED BY <2>3, <2>4 DEF OneLayerTurns
<1>2. LayersTurnAsOne <=> [][OneLayerTurns]_cube
  BY DEF LayersTurnAsOne, OneLayerTurns
<1> QED BY <1>1, <1>2, Invariance, PTL DEF Spec
------------------------------------------------------------------------------
(* The sides turn like stickers in space.                                  *)

LEMMA VectorIs ==
  ASSUME NEW p \in Positions
  PROVE  /\ Vector(p) = <<p[2] - 1, 1 - p[1], 1 - p[0]>>
         /\ Along(p, 0) = <<0, 0, 1 - p[0]>>
         /\ Along(p, 1) = <<0, 1 - p[1], 0>>
         /\ Along(p, 2) = <<p[2] - 1, 0, 0>>
<1>1. Vector(p) = <<p[2] - 1, 1 - p[1], 1 - p[0]>>
  BY AxesFacts DEF Vector
<1>2. ASSUME NEW a \in Axes
      PROVE  Along(p, a) = <<(IF a = 2 THEN p[2] ELSE 1) - 1,
                             1 - (IF a = 1 THEN p[1] ELSE 1),
                             1 - (IF a = 0 THEN p[0] ELSE 1)>>
  BY AxesFacts DEF Along, Vector
<1> QED BY <1>1, <1>2, AxesFacts, Coordinates

LEMMA OutwardIs ==
  /\ Outward[WHITE] = <<0, 0, 1>> /\ Outward[YELLOW] = <<0, 0, -1>>
  /\ Outward[BLUE] = <<0, 1, 0>> /\ Outward[GREEN] = <<0, -1, 0>>
  /\ Outward[ORANGE] = <<-1, 0, 0>> /\ Outward[RED] = <<1, 0, 0>>
<1>1. ASSUME NEW f \in Faces
      PROVE  Outward[f] = Along([a \in Axes |-> Front(f)], faceToAxis(f))
  BY DEF Outward, Front
<1>2. ASSUME NEW f \in Faces
      PROVE  /\ faceToAxis(f) = 0 => Outward[f] = <<0, 0, 1 - Front(f)>>
             /\ faceToAxis(f) = 1 => Outward[f] = <<0, 1 - Front(f), 0>>
             /\ faceToAxis(f) = 2 => Outward[f] = <<Front(f) - 1, 0, 0>>
  <2> DEFINE p == [a \in Axes |-> Front(f)]
  <2>1. p \in Positions /\ p[0] = Front(f) /\ p[1] = Front(f) /\ p[2] = Front(f)
    BY AxesFacts DEF Positions, Front
  <2> HIDE DEF p
  <2>2. Outward[f] = Along(p, faceToAxis(f))
    BY <1>1 DEF p
  <2> QED BY <2>1, <2>2, VectorIs
<1> QED BY <1>2 DEF Faces, WHITE, BLUE, ORANGE, YELLOW, GREEN, RED, faceToAxis, Front

(* A quarter turn of space, clockwise as seen from outside each side.      *)
LEMMA QuarterIs ==
  ASSUME NEW x \in Int, NEW y \in Int, NEW z \in Int
  PROVE  /\ SideStickers!Quarter(Outward[WHITE], <<x, y, z>>) = <<y, 0 - x, z>>
         /\ SideStickers!Quarter(Outward[YELLOW], <<x, y, z>>) = <<0 - y, x, z>>
         /\ SideStickers!Quarter(Outward[BLUE], <<x, y, z>>) = <<0 - z, y, x>>
         /\ SideStickers!Quarter(Outward[GREEN], <<x, y, z>>) = <<z, y, 0 - x>>
         /\ SideStickers!Quarter(Outward[ORANGE], <<x, y, z>>) = <<x, 0 - z, y>>
         /\ SideStickers!Quarter(Outward[RED], <<x, y, z>>) = <<x, z, 0 - y>>
<1> USE DEF SideStickers!Quarter, SideStickers!Dot, SideStickers!Cross,
            SideStickers!X, SideStickers!Y, SideStickers!Z
<1>1. SideStickers!Quarter(Outward[WHITE], <<x, y, z>>) = <<y, 0 - x, z>>
  BY OutwardIs
<1>2. SideStickers!Quarter(Outward[YELLOW], <<x, y, z>>) = <<0 - y, x, z>>
  BY OutwardIs
<1>3. SideStickers!Quarter(Outward[BLUE], <<x, y, z>>) = <<0 - z, y, x>>
  BY OutwardIs
<1>4. SideStickers!Quarter(Outward[GREEN], <<x, y, z>>) = <<z, y, 0 - x>>
  BY OutwardIs
<1>5. SideStickers!Quarter(Outward[ORANGE], <<x, y, z>>) = <<x, 0 - z, y>>
  BY OutwardIs
<1>6. SideStickers!Quarter(Outward[RED], <<x, y, z>>) = <<x, z, 0 - y>>
  BY OutwardIs
<1> QED BY <1>1, <1>2, <1>3, <1>4, <1>5, <1>6

Ahead(i, side) == (i + Shift(side, ROT_90)) % 4

(* One place on in either order is a quarter turn of the two coordinates.  *)
LEMMA OrderTurns ==
  ASSUME NEW side \in Faces, NEW type \in {CORNER, SIDE}, NEW i \in 0..3
  PROVE  LET x == Order(type)[i + 1][1]
             y == Order(type)[i + 1][2]
             j == Ahead(i, side)
         IN /\ x \in 0..2 /\ y \in 0..2 /\ j \in 0..3
            /\ side \in {WHITE, ORANGE, GREEN} =>
                 Order(type)[j + 1][1] = y /\ Order(type)[j + 1][2] = 2 - x
            /\ side \in {YELLOW, BLUE, RED} =>
                 Order(type)[j + 1][1] = 2 - y /\ Order(type)[j + 1][2] = x
<1> DEFINE j == Ahead(i, side)
<1>1. i = 0 \/ i = 1 \/ i = 2 \/ i = 3
  OBVIOUS
<1>2. /\ side \in {WHITE, ORANGE, GREEN} => Shift(side, ROT_90) = 1
      /\ side \in {YELLOW, BLUE, RED} => Shift(side, ROT_90) = 3
      /\ side \in {WHITE, ORANGE, GREEN} \/ side \in {YELLOW, BLUE, RED}
  BY DEF Shift, Faces, WHITE, BLUE, ORANGE, YELLOW, GREEN, RED, ROT_90, ROT_270
<1>3. /\ side \in {WHITE, ORANGE, GREEN} => j = IF i = 3 THEN 0 ELSE i + 1
      /\ side \in {YELLOW, BLUE, RED} => j = IF i = 0 THEN 3 ELSE i - 1
      /\ j \in 0..3
  BY <1>1, <1>2 DEF Ahead
<1> DEFINE x == Order(type)[i + 1][1]
           y == Order(type)[i + 1][2]
           v == Order(type)[j + 1][1]
           w == Order(type)[j + 1][2]
<1>4. /\ x \in 0..2 /\ y \in 0..2
      /\ side \in {WHITE, ORANGE, GREEN} => v = y /\ w = 2 - x
      /\ side \in {YELLOW, BLUE, RED} => v = 2 - y /\ w = x
  <2> HIDE DEF j
  <2>1. CASE type = CORNER
    <3>1. /\ x = IF i \in {0, 1} THEN 0 ELSE 2
          /\ y = IF i \in {0, 3} THEN 0 ELSE 2
          /\ v = IF j \in {0, 1} THEN 0 ELSE 2
          /\ w = IF j \in {0, 3} THEN 0 ELSE 2
      BY <1>3, <2>1, OrderIs, TypeFacts
    <3> HIDE DEF x, y, v, w
    <3> QED BY <1>1, <1>3, <3>1
  <2>2. CASE type = SIDE
    <3>1. /\ x = IF i = 0 THEN 0 ELSE IF i = 2 THEN 2 ELSE 1
          /\ y = IF i = 3 THEN 0 ELSE IF i = 1 THEN 2 ELSE 1
          /\ v = IF j = 0 THEN 0 ELSE IF j = 2 THEN 2 ELSE 1
          /\ w = IF j = 3 THEN 0 ELSE IF j = 1 THEN 2 ELSE 1
      BY <1>3, <2>2, OrderIs, TypeFacts
    <3> HIDE DEF x, y, v, w
    <3> QED BY <1>1, <1>3, <3>1
  <2> QED BY <2>1, <2>2
<1> QED BY <1>3, <1>4

Swapped(side, a) ==
  IF a = First(side) THEN Second(side) ELSE IF a = Second(side) THEN First(side) ELSE a

(* A quarter turn of space takes the sticker of each place of a round to   *)
(* the sticker of the next place, on the other axis.                       *)
LEMMA QuarterTurn ==
  ASSUME NEW side \in Faces, NEW type \in {CORNER, SIDE}, NEW i \in 0..3, NEW a \in Axes
  PROVE  LET p == Place(side, type, i)
             q == Place(side, type, Ahead(i, side))
             n == Outward[side]
         IN /\ SideStickers!Quarter(n, Vector(p)) = Vector(q)
            /\ SideStickers!Quarter(n, Along(p, a)) = Along(q, Swapped(side, a))
<1> DEFINE j == Ahead(i, side)
           p == Place(side, type, i)
           q == Place(side, type, j)
           x == Order(type)[i + 1][1]
           y == Order(type)[i + 1][2]
           v == Order(type)[j + 1][1]
           w == Order(type)[j + 1][2]
<1>1. /\ x \in 0..2 /\ y \in 0..2 /\ j \in 0..3
      /\ side \in {WHITE, ORANGE, GREEN} => v = y /\ w = 2 - x
      /\ side \in {YELLOW, BLUE, RED} => v = 2 - y /\ w = x
  BY OrderTurns
<1>2. /\ p \in Positions /\ p[faceToAxis(side)] = Front(side)
      /\ p[First(side)] = x /\ p[Second(side)] = y
  BY PlaceIs
<1>3. /\ q \in Positions /\ q[faceToAxis(side)] = Front(side)
      /\ q[First(side)] = v /\ q[Second(side)] = w
  <2> HIDE DEF j
  <2> QED BY <1>1, PlaceIs
<1> HIDE DEF p, q, x, y, v, w
<1>4. a = 0 \/ a = 1 \/ a = 2
  BY AxesFacts
<1> USE DEF faceToAxis, Front, First, Second, Swapped
<1>5. CASE side = WHITE
  <2>1. /\ p[0] = 0 /\ p[1] = x /\ p[2] = y
        /\ q[0] = 0 /\ q[1] = v /\ q[2] = w
        /\ v = y /\ w = 2 - x
    BY <1>1, <1>2, <1>3, <1>5 DEF WHITE
  <2>2. Swapped(side, 0) = 0 /\ Swapped(side, 1) = 2 /\ Swapped(side, 2) = 1
    BY <1>5 DEF WHITE
  <2>3. \A h, k, l \in Int : SideStickers!Quarter(Outward[side], <<h, k, l>>) = <<k, 0 - h, l>>
    BY <1>5, QuarterIs
  <2>4. /\ Vector(p) = <<y - 1, 1 - x, 1 - 0>>
        /\ Along(p, 0) = <<0, 0, 1 - 0>>
        /\ Along(p, 1) = <<0, 1 - x, 0>>
        /\ Along(p, 2) = <<y - 1, 0, 0>>
        /\ Vector(q) = <<w - 1, 1 - v, 1 - 0>>
        /\ Along(q, 0) = <<0, 0, 1 - 0>>
        /\ Along(q, 1) = <<0, 1 - v, 0>>
        /\ Along(q, 2) = <<w - 1, 0, 0>>
    BY <1>2, <1>3, <2>1, VectorIs
  <2> QED BY <1>1, <1>4, <2>1, <2>2, <2>3, <2>4 DEF p, q
<1>6. CASE side = BLUE
  <2>1. /\ p[0] = x /\ p[1] = 0 /\ p[2] = y
        /\ q[0] = v /\ q[1] = 0 /\ q[2] = w
        /\ v = 2 - y /\ w = x
    BY <1>1, <1>2, <1>3, <1>6 DEF BLUE
  <2>2. Swapped(side, 0) = 2 /\ Swapped(side, 1) = 1 /\ Swapped(side, 2) = 0
    BY <1>6 DEF BLUE
  <2>3. \A h, k, l \in Int : SideStickers!Quarter(Outward[side], <<h, k, l>>) = <<0 - l, k, h>>
    BY <1>6, QuarterIs
  <2>4. /\ Vector(p) = <<y - 1, 1 - 0, 1 - x>>
        /\ Along(p, 0) = <<0, 0, 1 - x>>
        /\ Along(p, 1) = <<0, 1 - 0, 0>>
        /\ Along(p, 2) = <<y - 1, 0, 0>>
        /\ Vector(q) = <<w - 1, 1 - 0, 1 - v>>
        /\ Along(q, 0) = <<0, 0, 1 - v>>
        /\ Along(q, 1) = <<0, 1 - 0, 0>>
        /\ Along(q, 2) = <<w - 1, 0, 0>>
    BY <1>2, <1>3, <2>1, VectorIs
  <2> QED BY <1>1, <1>4, <2>1, <2>2, <2>3, <2>4 DEF p, q
<1>7. CASE side = ORANGE
  <2>1. /\ p[0] = x /\ p[1] = y /\ p[2] = 0
        /\ q[0] = v /\ q[1] = w /\ q[2] = 0
        /\ v = y /\ w = 2 - x
    BY <1>1, <1>2, <1>3, <1>7 DEF ORANGE
  <2>2. Swapped(side, 0) = 1 /\ Swapped(side, 1) = 0 /\ Swapped(side, 2) = 2
    BY <1>7 DEF ORANGE
  <2>3. \A h, k, l \in Int : SideStickers!Quarter(Outward[side], <<h, k, l>>) = <<h, 0 - l, k>>
    BY <1>7, QuarterIs
  <2>4. /\ Vector(p) = <<0 - 1, 1 - y, 1 - x>>
        /\ Along(p, 0) = <<0, 0, 1 - x>>
        /\ Along(p, 1) = <<0, 1 - y, 0>>
        /\ Along(p, 2) = <<0 - 1, 0, 0>>
        /\ Vector(q) = <<0 - 1, 1 - w, 1 - v>>
        /\ Along(q, 0) = <<0, 0, 1 - v>>
        /\ Along(q, 1) = <<0, 1 - w, 0>>
        /\ Along(q, 2) = <<0 - 1, 0, 0>>
    BY <1>2, <1>3, <2>1, VectorIs
  <2> QED BY <1>1, <1>4, <2>1, <2>2, <2>3, <2>4 DEF p, q
<1>8. CASE side = YELLOW
  <2>1. /\ p[0] = 2 /\ p[1] = x /\ p[2] = y
        /\ q[0] = 2 /\ q[1] = v /\ q[2] = w
        /\ v = 2 - y /\ w = x
    BY <1>1, <1>2, <1>3, <1>8 DEF YELLOW
  <2>2. Swapped(side, 0) = 0 /\ Swapped(side, 1) = 2 /\ Swapped(side, 2) = 1
    BY <1>8 DEF YELLOW
  <2>3. \A h, k, l \in Int : SideStickers!Quarter(Outward[side], <<h, k, l>>) = <<0 - k, h, l>>
    BY <1>8, QuarterIs
  <2>4. /\ Vector(p) = <<y - 1, 1 - x, 1 - 2>>
        /\ Along(p, 0) = <<0, 0, 1 - 2>>
        /\ Along(p, 1) = <<0, 1 - x, 0>>
        /\ Along(p, 2) = <<y - 1, 0, 0>>
        /\ Vector(q) = <<w - 1, 1 - v, 1 - 2>>
        /\ Along(q, 0) = <<0, 0, 1 - 2>>
        /\ Along(q, 1) = <<0, 1 - v, 0>>
        /\ Along(q, 2) = <<w - 1, 0, 0>>
    BY <1>2, <1>3, <2>1, VectorIs
  <2> QED BY <1>1, <1>4, <2>1, <2>2, <2>3, <2>4 DEF p, q
<1>9. CASE side = GREEN
  <2>1. /\ p[0] = x /\ p[1] = 2 /\ p[2] = y
        /\ q[0] = v /\ q[1] = 2 /\ q[2] = w
        /\ v = y /\ w = 2 - x
    BY <1>1, <1>2, <1>3, <1>9 DEF GREEN
  <2>2. Swapped(side, 0) = 2 /\ Swapped(side, 1) = 1 /\ Swapped(side, 2) = 0
    BY <1>9 DEF GREEN
  <2>3. \A h, k, l \in Int : SideStickers!Quarter(Outward[side], <<h, k, l>>) = <<l, k, 0 - h>>
    BY <1>9, QuarterIs
  <2>4. /\ Vector(p) = <<y - 1, 1 - 2, 1 - x>>
        /\ Along(p, 0) = <<0, 0, 1 - x>>
        /\ Along(p, 1) = <<0, 1 - 2, 0>>
        /\ Along(p, 2) = <<y - 1, 0, 0>>
        /\ Vector(q) = <<w - 1, 1 - 2, 1 - v>>
        /\ Along(q, 0) = <<0, 0, 1 - v>>
        /\ Along(q, 1) = <<0, 1 - 2, 0>>
        /\ Along(q, 2) = <<w - 1, 0, 0>>
    BY <1>2, <1>3, <2>1, VectorIs
  <2> QED BY <1>1, <1>4, <2>1, <2>2, <2>3, <2>4 DEF p, q
<1>10. CASE side = RED
  <2>1. /\ p[0] = x /\ p[1] = y /\ p[2] = 2
        /\ q[0] = v /\ q[1] = w /\ q[2] = 2
        /\ v = 2 - y /\ w = x
    BY <1>1, <1>2, <1>3, <1>10 DEF RED
  <2>2. Swapped(side, 0) = 1 /\ Swapped(side, 1) = 0 /\ Swapped(side, 2) = 2
    BY <1>10 DEF RED
  <2>3. \A h, k, l \in Int : SideStickers!Quarter(Outward[side], <<h, k, l>>) = <<h, l, 0 - k>>
    BY <1>10, QuarterIs
  <2>4. /\ Vector(p) = <<2 - 1, 1 - y, 1 - x>>
        /\ Along(p, 0) = <<0, 0, 1 - x>>
        /\ Along(p, 1) = <<0, 1 - y, 0>>
        /\ Along(p, 2) = <<2 - 1, 0, 0>>
        /\ Vector(q) = <<2 - 1, 1 - w, 1 - v>>
        /\ Along(q, 0) = <<0, 0, 1 - v>>
        /\ Along(q, 1) = <<0, 1 - w, 0>>
        /\ Along(q, 2) = <<2 - 1, 0, 0>>
    BY <1>2, <1>3, <2>1, VectorIs
  <2> QED BY <1>1, <1>4, <2>1, <2>2, <2>3, <2>4 DEF p, q
<1> QED BY <1>5, <1>6, <1>7, <1>8, <1>9, <1>10 DEF Faces

SourceAxis(side, rot, a) == IF rot = ROT_180 THEN a ELSE Swapped(side, a)

LEMMA SwappedIs ==
  ASSUME NEW side \in Faces, NEW a \in Axes
  PROVE  Swapped(side, a) \in Axes /\ Swapped(side, Swapped(side, a)) = a
BY AxesOf DEF Swapped

(* What is left of a full turn of space leads back to where a sticker of   *)
(* the round comes from.                                                   *)
LEMMA TurnedBack ==
  ASSUME NEW side \in Faces, NEW rot \in Rotations, NEW type \in {CORNER, SIDE},
         NEW i \in 0..3, NEW a \in Axes
  PROVE  LET p == Place(side, type, i)
             q == Place(side, type, Before(i, side, rot))
             n == Outward[side]
         IN /\ SideStickers!Turned(n, 4 - rot, Vector(p)) = Vector(q)
            /\ SideStickers!Turned(n, 4 - rot, Along(p, a))
                 = Along(q, SourceAxis(side, rot, a))
<1> DEFINE n == Outward[side]
           V(k) == Vector(Place(side, type, k))
           A(k, b) == Along(Place(side, type, k), b)
           Q(v) == SideStickers!Quarter(n, v)
           i1 == Ahead(i, side)
           i2 == Ahead(i1, side)
           i3 == Ahead(i2, side)
           a1 == Swapped(side, a)
<1>1. /\ i1 \in 0..3 /\ i2 \in 0..3 /\ i3 \in 0..3
      /\ i3 = Before(i, side, ROT_90) /\ i2 = Before(i, side, ROT_180)
      /\ i1 = Before(i, side, ROT_270)
  <2>1. i = 0 \/ i = 1 \/ i = 2 \/ i = 3
    OBVIOUS
  <2>2. /\ Shift(side, ROT_180) = 2
        /\ \/ Shift(side, ROT_90) = 1 /\ Shift(side, ROT_270) = 3
           \/ Shift(side, ROT_90) = 3 /\ Shift(side, ROT_270) = 1
    BY DEF Shift, ROT_90, ROT_180, ROT_270
  <2>3. CASE Shift(side, ROT_90) = 1
    BY <2>1, <2>2, <2>3 DEF Ahead, Before
  <2>4. CASE Shift(side, ROT_90) = 3
    BY <2>1, <2>2, <2>4 DEF Ahead, Before
  <2> QED BY <2>2, <2>3, <2>4
<1>2. a1 \in Axes /\ Swapped(side, a1) = a
  BY SwappedIs
<1>3. \A k \in 0..3, b \in Axes :
        Q(V(k)) = V(Ahead(k, side)) /\ Q(A(k, b)) = A(Ahead(k, side), Swapped(side, b))
  BY QuarterTurn
<1>4. /\ Q(V(i)) = V(i1) /\ Q(V(i1)) = V(i2) /\ Q(V(i2)) = V(i3)
      /\ Q(A(i, a)) = A(i1, a1) /\ Q(A(i1, a1)) = A(i2, a) /\ Q(A(i2, a)) = A(i3, a1)
  <2> HIDE DEF V, A, Q
  <2> QED BY <1>1, <1>2, <1>3
<1>5. \A v : /\ SideStickers!Turned(n, 1, v) = Q(v)
             /\ SideStickers!Turned(n, 2, v) = Q(Q(v))
             /\ SideStickers!Turned(n, 3, v) = Q(Q(Q(v)))
  BY DEF SideStickers!Turned
<1> HIDE DEF V, A, Q, n, i1, i2, i3, a1
<1>6. /\ SideStickers!Turned(n, 3, V(i)) = V(i3)
      /\ SideStickers!Turned(n, 3, A(i, a)) = A(i3, a1)
      /\ SideStickers!Turned(n, 2, V(i)) = V(i2)
      /\ SideStickers!Turned(n, 2, A(i, a)) = A(i2, a)
      /\ SideStickers!Turned(n, 1, V(i)) = V(i1)
      /\ SideStickers!Turned(n, 1, A(i, a)) = A(i1, a1)
  BY <1>4, <1>5
<1>7. CASE rot = ROT_90
  <2>1. 4 - rot = 3 /\ SourceAxis(side, rot, a) = a1
    BY <1>7 DEF ROT_90, ROT_180, SourceAxis, a1
  <2> QED BY <1>1, <1>6, <1>7, <2>1 DEF V, A, n
<1>8. CASE rot = ROT_180
  <2>1. 4 - rot = 2 /\ SourceAxis(side, rot, a) = a
    BY <1>8 DEF ROT_180, SourceAxis
  <2> QED BY <1>1, <1>6, <1>8, <2>1 DEF V, A, n
<1>9. CASE rot = ROT_270
  <2>1. 4 - rot = 1 /\ SourceAxis(side, rot, a) = a1
    BY <1>9 DEF ROT_270, ROT_180, SourceAxis, a1
  <2> QED BY <1>1, <1>6, <1>9, <2>1 DEF V, A, n
<1> QED BY <1>7, <1>8, <1>9, ShiftIs

(* A sticker tells its piece and its axis.                                 *)
LEMMA StickerApart ==
  ASSUME NEW p \in Pieces, NEW q \in Pieces, NEW a \in Axes, NEW b \in Axes,
         p[a] # 1, q[b] # 1, Sticker(<<p, a>>) = Sticker(<<q, b>>)
  PROVE  p = q /\ a = b
<1>1. p \in Positions /\ q \in Positions
  BY PiecesType
<1>2. Vector(p) = Vector(q) /\ Along(p, a) = Along(q, b)
  BY DEF Sticker
<1>3. /\ p[0] \in 0..2 /\ p[1] \in 0..2 /\ p[2] \in 0..2
      /\ q[0] \in 0..2 /\ q[1] \in 0..2 /\ q[2] \in 0..2
  BY <1>1, Coordinates
<1>4. p[0] = q[0] /\ p[1] = q[1] /\ p[2] = q[2]
  <2>1. <<p[2] - 1, 1 - p[1], 1 - p[0]>> = <<q[2] - 1, 1 - q[1], 1 - q[0]>>
    BY <1>1, <1>2, VectorIs
  <2>2. p[2] - 1 = q[2] - 1 /\ 1 - p[1] = 1 - q[1] /\ 1 - p[0] = 1 - q[0]
    BY <2>1
  <2> QED BY <1>3, <2>2
<1>5. p = q
  BY <1>1, <1>4, Coordinates
<1>6. a = b
  <2>1. Along(p, 0) = <<0, 0, 1 - p[0]>> /\ Along(p, 1) = <<0, 1 - p[1], 0>>
        /\ Along(p, 2) = <<p[2] - 1, 0, 0>>
    BY <1>1, VectorIs
  <2>2. Along(p, a) = Along(p, b) /\ p[a] # 1 /\ p[b] # 1
    BY <1>2, <1>5
  <2> HIDE DEF Along
  <2> QED BY <1>3, <2>1, <2>2, AxesFacts
<1> QED BY <1>5, <1>6

LEMMA FaceletAtIs ==
  ASSUME NEW p \in Pieces, NEW a \in Axes, p[a] # 1
  PROVE  FaceletAt[Sticker(<<p, a>>)] = [slot |-> subcube(p), axis |-> a]
<1> DEFINE s == Sticker(<<p, a>>)
           chosen == CHOOSE f \in Facelets : Sticker(f) = s
<1>1. <<p, a>> \in Facelets
  BY DEF Facelets
<1>2. chosen \in Facelets /\ Sticker(chosen) = s
  BY <1>1
<1>3. chosen = <<p, a>>
  <2> HIDE DEF chosen
  <2>1. PICK q \in Pieces, b \in Axes : chosen = <<q, b>> /\ q[b] # 1
    BY <1>2 DEF Facelets
  <2> QED BY <1>2, <2>1, StickerApart
<1>4. FaceletAt[s] = [slot |-> subcube(chosen[1]), axis |-> chosen[2]]
  BY <1>1 DEF FaceletAt
<1> HIDE DEF chosen
<1> QED BY <1>3, <1>4

LEMMA SideStickersAre ==
  ASSUME NEW s
  PROVE  s \in StickersOf(SIDE) <=>
           \E p \in Pieces, a \in Axes :
             subcube_type(p) = SIDE /\ p[a] # 1 /\ s = Sticker(<<p, a>>)
<1>1. \A f \in Facelets : \E p \in Pieces, a \in Axes : f = <<p, a>> /\ p[a] # 1
  BY DEF Facelets
<1>2. \A p \in Pieces, a \in Axes : p[a] # 1 => <<p, a>> \in Facelets
  BY DEF Facelets
<1>3. s \in StickersOf(SIDE) <=> \E f \in Facelets : subcube_type(f[1]) = SIDE /\ s = Sticker(f)
  BY DEF StickersOf
<1>4. ASSUME NEW f \in Facelets, subcube_type(f[1]) = SIDE, s = Sticker(f)
      PROVE  \E p \in Pieces, a \in Axes :
               subcube_type(p) = SIDE /\ p[a] # 1 /\ s = Sticker(<<p, a>>)
  <2>1. PICK p \in Pieces, a \in Axes : f = <<p, a>> /\ p[a] # 1
    BY <1>1
  <2>2. f[1] = p
    BY <2>1
  <2> QED BY <1>4, <2>1, <2>2
<1>5. ASSUME NEW p \in Pieces, NEW a \in Axes,
             subcube_type(p) = SIDE, p[a] # 1, s = Sticker(<<p, a>>)
      PROVE  \E f \in Facelets : subcube_type(f[1]) = SIDE /\ s = Sticker(f)
  <2>1. <<p, a>> \in Facelets /\ <<p, a>>[1] = p
    BY <1>2, <1>5
  <2> QED BY <1>5, <2>1
<1> QED BY <1>3, <1>4, <1>5

Show(c) ==
  [s \in StickersOf(SIDE) |->
     subcube_color_along_axis(c[FaceletAt[s].slot], FaceletAt[s].axis, SIDE)]

LEMMA ShowIs ==
  ASSUME NEW c, NEW p \in Pieces, NEW a \in Axes, subcube_type(p) = SIDE, p[a] # 1
  PROVE  Show(c)[Sticker(<<p, a>>)] = SideFace(c[subcube(p)], a)
<1>1. Sticker(<<p, a>>) \in StickersOf(SIDE)
  BY SideStickersAre
<1>2. Show(c)[Sticker(<<p, a>>)] = subcube_color_along_axis(c[subcube(p)], a, SIDE)
  <2>1. FaceletAt[Sticker(<<p, a>>)] = [slot |-> subcube(p), axis |-> a]
    BY FaceletAtIs
  <2>2. /\ FaceletAt[Sticker(<<p, a>>)].slot = subcube(p)
        /\ FaceletAt[Sticker(<<p, a>>)].axis = a
    BY <2>1
  <2>3. Show(c)[Sticker(<<p, a>>)]
          = subcube_color_along_axis(c[FaceletAt[Sticker(<<p, a>>)].slot],
                                     FaceletAt[Sticker(<<p, a>>)].axis, SIDE)
    BY <1>1 DEF Show
  <2> QED BY <2>2, <2>3
<1> QED BY <1>2, TypeFacts DEF subcube_color_along_axis

(* The face subcube_color_along_axis takes of a side: it depends on which  *)
(* axes the piece shows, and the flip bit exchanges the two.               *)
IsSecond(shown, axis) == axis = OR \/ (OR \notin shown /\ axis = BG)

LEMMA SideFaceIs ==
  ASSUME NEW s, NEW axis \in Axes, axis \in s.rots
  PROVE  SideFace(s, axis) =
           sideIDtoFaces[s.id][IF IsSecond(s.rots \cap Axes, axis) # (FLIP \in s.rots)
                               THEN 2 ELSE 1]
<1>1. OR \in s.rots \cap Axes <=> OR \in s.rots
  BY AxesFacts
<1>2. IsSecond(s.rots \cap Axes, axis) <=> (axis = OR \/ (OR \notin s.rots /\ axis = BG))
  BY <1>1 DEF IsSecond
<1> DEFINE second == axis = OR \/ (OR \notin s.rots /\ axis = BG)
<1>3. SideFace(s, axis)
        = sideIDtoFaces[s.id][IF second # (FLIP \in s.rots) THEN 2 ELSE 1]
  BY DEF SideFace
<1>4. second = IsSecond(s.rots \cap Axes, axis)
  <2>1. second \in BOOLEAN /\ IsSecond(s.rots \cap Axes, axis) \in BOOLEAN
    BY DEF IsSecond
  <2> HIDE DEF second
  <2> QED BY <1>2, <2>1 DEF second
<1> HIDE DEF second
<1> QED BY <1>3, <1>4

(* The faces of two places of a round, a quarter turn apart, come in the   *)
(* same order of their axes, unless the turn is about the middle axis.     *)
LEMMA OrderOfFaces ==
  ASSUME NEW side \in Faces, NEW p \in Positions, NEW q \in Positions,
         subcube_type(p) = SIDE, subcube_type(q) = SIDE,
         p[faceToAxis(side)] # 1, q[faceToAxis(side)] # 1,
         Shown(p) = SymDiff(Shown(q), Axes \ {faceToAxis(side)}),
         NEW a \in Axes, p[a] # 1
  PROVE  /\ q[Swapped(side, a)] # 1
         /\ IF faceToAxis(side) = BG
            THEN IsSecond(Shown(p), a) <=> ~IsSecond(Shown(q), Swapped(side, a))
            ELSE IsSecond(Shown(p), a) <=> IsSecond(Shown(q), Swapped(side, a))
<1> DEFINE axis == faceToAxis(side)
           b == Swapped(side, a)
<1>1. \A e \in Axes : p[e] # 1 <=>
        (e = axis /\ q[e] # 1) \/ (e # axis /\ q[e] = 1)
  BY DEF Shown, SymDiff
<1>2. IsSide(p) /\ IsSide(q)
  BY TypeIs
<1>3. OR \in Shown(p) <=> p[2] # 1
  BY AxesFacts DEF Shown
<1>4. OR \in Shown(q) <=> q[2] # 1
  BY AxesFacts DEF Shown
<1>5. /\ \/ p[0] = 1 /\ p[1] # 1 /\ p[2] # 1
         \/ p[1] = 1 /\ p[0] # 1 /\ p[2] # 1
         \/ p[2] = 1 /\ p[0] # 1 /\ p[1] # 1
      /\ \/ q[0] = 1 /\ q[1] # 1 /\ q[2] # 1
         \/ q[1] = 1 /\ q[0] # 1 /\ q[2] # 1
         \/ q[2] = 1 /\ q[0] # 1 /\ q[1] # 1
  BY <1>2, AxesFacts DEF IsSide
<1>6. /\ p[0] # 1 <=> (axis = 0 /\ q[0] # 1) \/ (axis # 0 /\ q[0] = 1)
      /\ p[1] # 1 <=> (axis = 1 /\ q[1] # 1) \/ (axis # 1 /\ q[1] = 1)
      /\ p[2] # 1 <=> (axis = 2 /\ q[2] # 1) \/ (axis # 2 /\ q[2] = 1)
  BY <1>1, AxesFacts
<1>7. axis \in {0, 1, 2} /\ a \in {0, 1, 2} /\ p[axis] # 1 /\ q[axis] # 1
  BY FaceFacts, AxesFacts
<1>8. b = IF a = First(side) THEN Second(side)
          ELSE IF a = Second(side) THEN First(side) ELSE a
  BY DEF Swapped
<1>9. First(side) = (IF axis = 0 THEN 1 ELSE 0) /\ Second(side) = (IF axis = 2 THEN 1 ELSE 2)
  BY DEF First, Second
<1>10. /\ IsSecond(Shown(p), a) <=> (a = 2 \/ (p[2] = 1 /\ a = 1))
       /\ IsSecond(Shown(q), b) <=> (b = 2 \/ (q[2] = 1 /\ b = 1))
  BY <1>3, <1>4, AxesFacts DEF IsSecond
<1> HIDE DEF axis, b
<1> SUFFICES /\ q[b] # 1
             /\ IF axis = 1 THEN IsSecond(Shown(p), a) <=> ~IsSecond(Shown(q), b)
                ELSE IsSecond(Shown(p), a) <=> IsSecond(Shown(q), b)
  BY AxesFacts DEF axis, b
<1>11. CASE axis = 0
  <2>1. b = IF a = 1 THEN 2 ELSE IF a = 2 THEN 1 ELSE a
    BY <1>8, <1>9, <1>11
  <2> QED BY <1>5, <1>6, <1>7, <1>10, <1>11, <2>1
<1>12. CASE axis = 1
  <2>1. b = IF a = 0 THEN 2 ELSE IF a = 2 THEN 0 ELSE a
    BY <1>8, <1>9, <1>12
  <2> QED BY <1>5, <1>6, <1>7, <1>10, <1>12, <2>1
<1>13. CASE axis = 2
  <2>1. b = IF a = 0 THEN 1 ELSE IF a = 1 THEN 0 ELSE a
    BY <1>8, <1>9, <1>13
  <2> QED BY <1>5, <1>6, <1>7, <1>10, <1>13, <2>1
<1> QED BY <1>7, <1>11, <1>12, <1>13

LEMMA FaceKept ==
  ASSUME NEW c, PiecesFit(c), NEW side \in Faces, NEW rot \in Rotations,
         NEW i \in 0..3, NEW a \in Axes, Place(side, SIDE, i)[a] # 1
  PROVE  LET p == Place(side, SIDE, i)
             q == Place(side, SIDE, Before(i, side, rot))
             b == SourceAxis(side, rot, a)
         IN /\ q[b] # 1
            /\ SideFace(cube_rotate(c, side, rot)[subcube(p)], a)
                 = SideFace(c[subcube(q)], b)
<1> DEFINE j == Before(i, side, rot)
           p == Place(side, SIDE, i)
           q == Place(side, SIDE, j)
           b == SourceAxis(side, rot, a)
           m == subcube(p)
           n == subcube(q)
           d == cube_rotate(c, side, rot)
<1>1. j \in 0..3
  BY BeforeIs
<1>2. /\ p \in Pieces /\ p \in Positions /\ subcube_type(p) = SIDE
      /\ q \in Pieces /\ q \in Positions /\ subcube_type(q) = SIDE
      /\ p[faceToAxis(side)] # 1 /\ q[faceToAxis(side)] # 1
  <2> HIDE DEF j
  <2> QED BY <1>1, PlaceType, PlaceIs, PiecesType DEF Front
<1>3. /\ m = Round(side, SIDE, i) /\ m \in Slots /\ InLayer(m, side) /\ TypeAt(m) = SIDE
      /\ n = Round(side, SIDE, j) /\ n \in Slots /\ TypeAt(n) = SIDE
      /\ Source(side, rot, m) = n
  <2> HIDE DEF j
  <2> QED BY <1>1, RoundFacts, SourceInRound DEF Round, j
<1>4. PieceAt[m] = p /\ PieceAt[n] = q
  BY <1>2, PieceAtSlot
<1>5. b \in Axes
  BY SwappedIs DEF SourceAxis
<1>6. /\ d[m].id = c[n].id
      /\ d[m].rots = IF rot # ROT_180 THEN SymDiff(c[n].rots, ToggledBits(SIDE, side))
                     ELSE c[n].rots
  BY <1>3, TurnedSlot
<1>7. c[n].rots \cap Axes = Shown(q) /\ d[m].rots \cap Axes = Shown(p)
  BY <1>3, <1>4, TurnFits DEF PiecesFit
<1>8. Shown(p) = IF rot = ROT_180 THEN Shown(q)
                 ELSE SymDiff(Shown(q), Axes \ {faceToAxis(side)})
  <2>1. Shown(PieceAt[m]) =
          IF rot = ROT_180 THEN Shown(PieceAt[Source(side, rot, m)])
          ELSE SymDiff(Shown(PieceAt[Source(side, rot, m)]), Axes \ {faceToAxis(side)})
    BY <1>3, ShownAfterTurn
  <2> HIDE DEF m, n, p, q
  <2> QED BY <1>3, <1>4, <2>1
<1>9. p[a] # 1
  OBVIOUS
<1> HIDE DEF j, p, q, m, n, d
<1>10. CASE rot = ROT_180
  <2>1. b = a /\ d[m].id = c[n].id /\ d[m].rots = c[n].rots
    BY <1>6, <1>10 DEF SourceAxis
  <2>2. q[a] # 1
    BY <1>8, <1>9, <1>10 DEF Shown
  <2>3. SideFace(d[m], a) = SideFace(c[n], a)
    BY <2>1 DEF SideFace
  <2> QED BY <2>1, <2>2, <2>3 DEF p, q, m, n, d, j
<1>11. CASE rot # ROT_180
  <2>1. b = Swapped(side, a)
    BY <1>11 DEF SourceAxis
  <2>2. /\ q[b] # 1
        /\ IF faceToAxis(side) = BG
           THEN IsSecond(Shown(p), a) <=> ~IsSecond(Shown(q), b)
           ELSE IsSecond(Shown(p), a) <=> IsSecond(Shown(q), b)
    BY <1>2, <1>8, <1>9, <1>11, <2>1, OrderOfFaces
  <2>3. IF faceToAxis(side) = BG THEN FLIP \in d[m].rots <=> FLIP \notin c[n].rots
        ELSE FLIP \in d[m].rots <=> FLIP \in c[n].rots
    <3>1. FLIP \in ToggledBits(SIDE, side) <=> faceToAxis(side) = BG
      BY TypeFacts, AxesFacts DEF ToggledBits, FLIP
    <3>2. d[m].rots = SymDiff(c[n].rots, ToggledBits(SIDE, side))
      BY <1>6, <1>11
    <3> QED BY <3>1, <3>2 DEF SymDiff
  <2>4. a \in d[m].rots /\ b \in c[n].rots
    BY <1>5, <1>7, <1>9, <2>2 DEF Shown
  <2>5. SideFace(d[m], a) = sideIDtoFaces[c[n].id][
          IF IsSecond(Shown(p), a) # (FLIP \in d[m].rots) THEN 2 ELSE 1]
    BY <1>6, <1>7, <2>4, SideFaceIs
  <2>6. SideFace(c[n], b) = sideIDtoFaces[c[n].id][
          IF IsSecond(Shown(q), b) # (FLIP \in c[n].rots) THEN 2 ELSE 1]
    BY <1>5, <1>7, <2>4, SideFaceIs
  <2>7. (IsSecond(Shown(p), a) # (FLIP \in d[m].rots))
          <=> (IsSecond(Shown(q), b) # (FLIP \in c[n].rots))
    <3>1. /\ IsSecond(Shown(p), a) \in BOOLEAN /\ IsSecond(Shown(q), b) \in BOOLEAN
          /\ (FLIP \in d[m].rots) \in BOOLEAN /\ (FLIP \in c[n].rots) \in BOOLEAN
      BY DEF IsSecond
    <3> QED BY <2>2, <2>3, <3>1
  <2>8. SideFace(d[m], a) = SideFace(c[n], b)
    BY <2>5, <2>6, <2>7
  <2> QED BY <2>2, <2>8 DEF p, q, m, n, d, j
<1> QED BY <1>10, <1>11

(* A solved cube shows every side its own colour.                          *)
LEMMA DefaultFace ==
  ASSUME NEW p \in Pieces, subcube_type(p) = SIDE, NEW a \in Axes, p[a] # 1
  PROVE  SideFace(subcube_default_at(p), a) = IF p[a] = 0 THEN a ELSE a + 3
<1> DEFINE s == subcube_default_at(p)
<1>1. /\ s.rots \cap Axes = Shown(p) /\ FLIP \notin s.rots
      /\ 2 * s.id + 1 = Sum(p) /\ s.id \in 0..12
  BY DefaultSide
<1>2. /\ Sum(p) = 9 * p[0] + 3 * p[1] + p[2]
      /\ <<p[0], p[1], p[2]>> \in SideCoordinates
  BY SideSlots, SidePlace, PiecesType
<1>3. a \in s.rots
  BY <1>1 DEF Shown
<1>4. IsSecond(Shown(p), a) <=> (a = 2 \/ (p[2] = 1 /\ a = 1))
  BY AxesFacts DEF IsSecond, Shown
<1>5. SideFace(s, a) = sideIDtoFaces[s.id][IF a = 2 \/ (p[2] = 1 /\ a = 1) THEN 2 ELSE 1]
  <2>1. SideFace(s, a) = sideIDtoFaces[s.id][
          IF IsSecond(Shown(p), a) # (FLIP \in s.rots) THEN 2 ELSE 1]
    BY <1>1, <1>3, SideFaceIs
  <2>2. (IsSecond(Shown(p), a) # (FLIP \in s.rots)) <=> IsSecond(Shown(p), a)
    <3>1. IsSecond(Shown(p), a) \in BOOLEAN /\ (FLIP \in s.rots) = FALSE
      BY <1>1 DEF IsSecond
    <3> QED BY <3>1
  <2> QED BY <1>4, <2>1, <2>2
<1>6. /\ sideIDtoFaces[0] = <<0, 1>> /\ sideIDtoFaces[1] = <<0, 2>>
      /\ sideIDtoFaces[2] = <<0, 5>> /\ sideIDtoFaces[3] = <<0, 4>>
      /\ sideIDtoFaces[4] = <<1, 2>> /\ sideIDtoFaces[5] = <<1, 5>>
      /\ sideIDtoFaces[7] = <<4, 2>> /\ sideIDtoFaces[8] = <<4, 5>>
      /\ sideIDtoFaces[9] = <<3, 1>> /\ sideIDtoFaces[10] = <<3, 2>>
      /\ sideIDtoFaces[11] = <<3, 5>> /\ sideIDtoFaces[12] = <<3, 4>>
  BY DEF sideIDtoFaces, WHITE, BLUE, ORANGE, YELLOW, GREEN, RED
<1> HIDE DEF s
<1>7. a = 0 \/ a = 1 \/ a = 2
  BY AxesFacts
<1>8. CASE p[0] = 0
  <2>1. \/ p[1] = 0 /\ p[2] = 1 /\ s.id = 0
        \/ p[1] = 1 /\ p[2] = 0 /\ s.id = 1
        \/ p[1] = 1 /\ p[2] = 2 /\ s.id = 2
        \/ p[1] = 2 /\ p[2] = 1 /\ s.id = 3
    BY <1>1, <1>2, <1>8 DEF SideCoordinates
  <2> QED BY <1>5, <1>6, <1>7, <1>8, <2>1 DEF s
<1>9. CASE p[0] = 1
  <2>1. \/ p[1] = 0 /\ p[2] = 0 /\ s.id = 4
        \/ p[1] = 0 /\ p[2] = 2 /\ s.id = 5
        \/ p[1] = 2 /\ p[2] = 0 /\ s.id = 7
        \/ p[1] = 2 /\ p[2] = 2 /\ s.id = 8
    BY <1>1, <1>2, <1>9 DEF SideCoordinates
  <2> QED BY <1>5, <1>6, <1>7, <1>9, <2>1 DEF s
<1>10. CASE p[0] = 2
  <2>1. \/ p[1] = 0 /\ p[2] = 1 /\ s.id = 9
        \/ p[1] = 1 /\ p[2] = 0 /\ s.id = 10
        \/ p[1] = 1 /\ p[2] = 2 /\ s.id = 11
        \/ p[1] = 2 /\ p[2] = 1 /\ s.id = 12
    BY <1>1, <1>2, <1>10 DEF SideCoordinates
  <2> QED BY <1>5, <1>6, <1>7, <1>10, <2>1 DEF s
<1> QED BY <1>2, <1>8, <1>9, <1>10 DEF SideCoordinates

LEMMA OutwardAlong ==
  ASSUME NEW p \in Positions, NEW a \in Axes, p[a] # 1
  PROVE  LET f == IF p[a] = 0 THEN a ELSE a + 3
         IN f \in Faces /\ Outward[f] = Along(p, a)
<1>1. a = 0 \/ a = 1 \/ a = 2
  BY AxesFacts
<1>2. p[a] = 0 \/ p[a] = 2
  BY DEF Positions
<1>3. /\ Outward[0] = <<0, 0, 1>> /\ Outward[3] = <<0, 0, -1>>
      /\ Outward[1] = <<0, 1, 0>> /\ Outward[4] = <<0, -1, 0>>
      /\ Outward[2] = <<-1, 0, 0>> /\ Outward[5] = <<1, 0, 0>>
  BY OutwardIs DEF WHITE, BLUE, ORANGE, YELLOW, GREEN, RED
<1>4. Faces = 0..5
  BY DEF Faces, WHITE, BLUE, ORANGE, YELLOW, GREEN, RED
<1>5. CASE a = 0
  BY <1>2, <1>3, <1>4, <1>5, VectorIs
<1>6. CASE a = 1
  BY <1>2, <1>3, <1>4, <1>6, VectorIs
<1>7. CASE a = 2
  BY <1>2, <1>3, <1>4, <1>7, VectorIs
<1> QED BY <1>1, <1>5, <1>6, <1>7

LEMMA LayerInSpace ==
  ASSUME NEW p \in Positions, NEW side \in Faces
  PROVE  SideStickers!Dot(Vector(p), Outward[side]) = 1
           <=> p[faceToAxis(side)] = Front(side)
<1>1. /\ p[0] \in 0..2 /\ p[1] \in 0..2 /\ p[2] \in 0..2
      /\ Vector(p) = <<p[2] - 1, 1 - p[1], 1 - p[0]>>
  BY Coordinates, VectorIs
<1> USE DEF SideStickers!Dot, SideStickers!X, SideStickers!Y, SideStickers!Z,
            faceToAxis, Front
<1>2. CASE side = WHITE
  BY <1>1, <1>2, OutwardIs DEF WHITE
<1>3. CASE side = BLUE
  BY <1>1, <1>3, OutwardIs DEF BLUE
<1>4. CASE side = ORANGE
  BY <1>1, <1>4, OutwardIs DEF ORANGE
<1>5. CASE side = YELLOW
  BY <1>1, <1>5, OutwardIs DEF YELLOW
<1>6. CASE side = GREEN
  BY <1>1, <1>6, OutwardIs DEF GREEN
<1>7. CASE side = RED
  BY <1>1, <1>7, OutwardIs DEF RED
<1> QED BY <1>2, <1>3, <1>4, <1>5, <1>6, <1>7 DEF Faces

LEMMA PrintedIs ==
  /\ Printed(SIDE) = Show(cube)
  /\ Printed(SIDE)' = Show(cube')
BY DEF Printed, Show

LEMMA InitStickers == Init => SideStickers!Init
<1> SUFFICES ASSUME Init, NEW s \in StickersOf(SIDE)
             PROVE  /\ Printed(SIDE)[s] \in DOMAIN Outward
                    /\ Outward[Printed(SIDE)[s]] = s[2]
  BY DEF SideStickers!Init, SideStickers!Sides
<1>1. PICK p \in Pieces, a \in Axes :
        subcube_type(p) = SIDE /\ p[a] # 1 /\ s = Sticker(<<p, a>>)
  BY SideStickersAre
<1>2. p \in Positions /\ subcube(p) \in Slots /\ PieceAt[subcube(p)] = p
  BY PiecesType, PieceAtSlot
<1>3. cube[subcube(p)] = subcube_default_at(p)
  BY <1>2, CreatedIs DEF Init
<1>4. Printed(SIDE)[s] = IF p[a] = 0 THEN a ELSE a + 3
  BY <1>1, <1>3, PrintedIs, ShowIs, DefaultFace
<1>5. s[2] = Along(p, a)
  BY <1>1 DEF Sticker
<1>6. DOMAIN Outward = Faces
  BY DEF Outward
<1> QED BY <1>1, <1>2, <1>4, <1>5, <1>6, OutwardAlong

LEMMA TurnStickers ==
  ASSUME IInv, NEW side \in Faces, NEW rot \in Rotations, Rotate(side, rot)
  PROVE  SideStickers!Turn(side, rot)
<1> DEFINE n == Outward[side]
           Back(v) == SideStickers!Turned(n, 4 - rot, v)
           Moved(s) == IF SideStickers!Dot(s[1], n) = 1
                       THEN Show(cube)[<<Back(s[1]), Back(s[2])>>] ELSE Show(cube)[s]
<1>1. PiecesFit(cube) /\ cube' = cube_rotate(cube, side, rot)
  BY DEF IInv, Rotate
<1>2. ASSUME NEW s \in StickersOf(SIDE)
      PROVE  Show(cube')[s] = Moved(s)
  <2>1. PICK p \in Pieces, a \in Axes :
          subcube_type(p) = SIDE /\ p[a] # 1 /\ s = Sticker(<<p, a>>)
    BY <1>2, SideStickersAre
  <2>2. s[1] = Vector(p) /\ s[2] = Along(p, a)
    BY <2>1 DEF Sticker
  <2>3. p \in Positions /\ subcube(p) \in Slots /\ PieceAt[subcube(p)] = p
    BY PiecesType, PieceAtSlot
  <2>4. SideStickers!Dot(s[1], n) = 1 <=> InLayer(subcube(p), side)
    BY <2>2, <2>3, LayerInSpace DEF InLayer, Front
  <2>5. Show(cube')[s] = SideFace(cube'[subcube(p)], a)
    BY <2>1, ShowIs
  <2>6. CASE InLayer(subcube(p), side)
    <3>1. p[faceToAxis(side)] = Front(side)
      BY <2>3, <2>6 DEF InLayer, Front
    <3>2. PICK i \in 0..3 : p = Place(side, SIDE, i)
      BY <2>1, <3>1, PlaceCovers
    <3> DEFINE q == Place(side, SIDE, Before(i, side, rot))
               b == SourceAxis(side, rot, a)
    <3>3. Before(i, side, rot) \in 0..3 /\ b \in Axes
      BY BeforeIs, SwappedIs DEF SourceAxis
    <3>4. q \in Pieces /\ subcube_type(q) = SIDE
      BY <3>3, PlaceType
    <3>5. q[b] # 1 /\ SideFace(cube'[subcube(p)], a) = SideFace(cube[subcube(q)], b)
      BY <1>1, <2>1, <3>2, FaceKept
    <3>6. Back(s[1]) = Vector(q) /\ Back(s[2]) = Along(q, b)
      BY <2>2, <3>2, TurnedBack
    <3> HIDE DEF q, b, Back
    <3>7. <<Back(s[1]), Back(s[2])>> = Sticker(<<q, b>>)
      BY <3>6 DEF Sticker
    <3>8. Show(cube)[<<Back(s[1]), Back(s[2])>>] = SideFace(cube[subcube(q)], b)
      BY <3>3, <3>4, <3>5, <3>7, ShowIs
    <3> QED BY <2>4, <2>5, <2>6, <3>5, <3>8
  <2>7. CASE ~InLayer(subcube(p), side)
    <3>1. cube'[subcube(p)] = cube[subcube(p)]
      BY <1>1, <2>3, <2>7, Rotated
    <3>2. Show(cube)[s] = SideFace(cube[subcube(p)], a)
      BY <2>1, ShowIs
    <3> QED BY <2>4, <2>5, <2>7, <3>1, <3>2
  <2> QED BY <2>6, <2>7
<1>3. Show(cube') = [s \in StickersOf(SIDE) |-> Moved(s)]
  <2>1. Show(cube') = [s \in StickersOf(SIDE) |-> Show(cube')[s]]
    BY DEF Show
  <2> HIDE DEF Moved
  <2> QED BY <1>2, <2>1
<1> QED BY <1>3, PrintedIs DEF SideStickers!Turn

(* What is printed of the sides of the solved cube is right, and each turn *)
(* changes it as the same turn of a real cube's stickers in space does.    *)
THEOREM SidesLikeStickers == Spec => SidesTurnLikeStickers
<1>1. Init => SideStickers!Init
  BY InitStickers
<1>2. IInv => \A side \in Faces, rot \in Rotations :
                Rotate(side, rot) => SideStickers!Turn(side, rot)
  BY TurnStickers
<1> QED BY <1>1, <1>2, Invariance, PTL DEF Spec, SidesTurnLikeStickers
------------------------------------------------------------------------------
(* The search's own view of cubes: turns have ways back, and cube_compare  *)
(* orders the cubes.                                                       *)

(* The turn that undoes another; a half turn undoes itself.                *)
Undo(rot) == 4 - rot

(* Every turn is undone by a turn of the same side, of every cube whose    *)
(* pieces fit, and those are cubes again (cube_rotate).                    *)
THEOREM TurnsUndone ==
  ASSUME NEW c, PiecesFit(c), NEW side \in Faces, NEW rot \in Rotations
  PROVE  /\ PiecesFit(cube_rotate(c, side, rot)) /\ Undo(rot) \in Rotations
         /\ cube_rotate(cube_rotate(c, side, rot), side, Undo(rot)) = c
<1> DEFINE q(d) == cube_rotate(d, side, ROT_90)
           h(d) == cube_rotate(d, side, ROT_180)
           t(d) == cube_rotate(d, side, ROT_270)
<1>1. /\ ROT_90 \in Rotations /\ ROT_180 \in Rotations /\ ROT_270 \in Rotations
      /\ Undo(ROT_90) = ROT_270 /\ Undo(ROT_180) = ROT_180 /\ Undo(ROT_270) = ROT_90
      /\ rot \in {ROT_90, ROT_180, ROT_270}
  BY DEF Rotations, Undo, ROT_90, ROT_180, ROT_270
<1>2. \A d : PiecesFit(d) => PiecesFit(q(d)) /\ PiecesFit(h(d)) /\ PiecesFit(t(d))
  BY <1>1, TurnFits
<1>3. \A d : PiecesFit(d) => t(q(d)) = d /\ q(q(d)) = h(d) /\ q(h(d)) = t(d)
  <2>1. ASSUME NEW d, PiecesFit(d) PROVE t(q(d)) = d /\ q(q(d)) = h(d) /\ q(q(q(d))) = t(d)
    BY <2>1, QuartersAddUp
  <2> HIDE DEF q, h, t
  <2> QED BY <2>1
<1>4. PiecesFit(c)
  OBVIOUS
<1>5. t(q(c)) = c /\ h(h(c)) = c /\ q(t(c)) = c
  <2> HIDE DEF q, h, t
  <2>1. /\ PiecesFit(q(c)) /\ PiecesFit(h(c)) /\ PiecesFit(t(c))
        /\ PiecesFit(q(h(c)))
    BY <1>2, <1>4
  <2>2. h(h(c)) = q(t(c))
    <3>1. h(h(c)) = q(q(h(c))) /\ q(h(c)) = t(c)
      BY <1>3, <1>4, <2>1
    <3> QED BY <3>1
  <2>3. q(t(q(c))) = q(c) /\ t(q(t(c))) = t(c)
    BY <1>3, <1>4, <2>1
  <2>4. q(t(c)) = c
    <3>1. t(c) = q(h(c)) /\ h(c) = q(q(c))
      BY <1>3, <1>4
    <3>2. q(t(c)) = h(h(c)) /\ h(q(q(c))) = h(h(c))
      BY <2>2, <3>1
    <3>3. q(h(q(c))) = t(q(c))
      BY <1>3, <2>1
    <3>4. h(q(c)) = q(q(q(c))) /\ q(q(q(c))) = t(c)
      BY <1>3, <1>4, <2>1
    <3> QED BY <1>3, <1>4, <3>3, <3>4
  <2> QED BY <1>3, <1>4, <2>2, <2>4
<1> QED BY <1>1, <1>2, <1>4, <1>5

(* One byte: its bits, and that they make it.                              *)
LEMMA Bit ==
  ASSUME NEW S, NEW a
  PROVE  Cardinality(S \cap {a}) = IF a \in S THEN 1 ELSE 0
<1>1. CASE a \in S
  <2>1. S \cap {a} = {a}
    BY <1>1
  <2> QED BY <1>1, <2>1, FS_Singleton
<1>2. CASE a \notin S
  <2>1. S \cap {a} = {}
    BY <1>2
  <2> QED BY <1>2, <2>1, FS_EmptySet
<1> QED BY <1>1, <1>2

LEMMA Chars ==
  /\ \A s \in Subcubes : AsChar(s) \in -128..127
  /\ \A s, t \in Subcubes : AsChar(s) = AsChar(t) => s = t
<1> DEFINE b(s, a) == IF a \in s.rots THEN 1 ELSE 0
<1>1. \A s : AsChar(s) = s.id + 16 * b(s, 0) + 32 * b(s, 1) + 64 * b(s, 2) - 128 * b(s, 3)
  BY Bit DEF AsChar, WY, BG, OR, FLIP
<1>2. \A s, a : b(s, a) \in {0, 1} /\ (b(s, a) = 1 <=> a \in s.rots)
  OBVIOUS
<1>3. \A s \in Subcubes : s.id \in 0..15 /\ s.rots \subseteq {0, 1, 2, 3}
  BY SubcubeFields, AxesFacts DEF FLIP
<1>4. ASSUME NEW s \in Subcubes, NEW t \in Subcubes, AsChar(s) = AsChar(t) PROVE s = t
  <2> HIDE DEF b
  <2>1. /\ s.id = t.id /\ b(s, 0) = b(t, 0) /\ b(s, 1) = b(t, 1)
        /\ b(s, 2) = b(t, 2) /\ b(s, 3) = b(t, 3)
    BY <1>1, <1>2, <1>3, <1>4
  <2>2. \A a \in {0, 1, 2, 3} : a \in s.rots <=> a \in t.rots
    BY <1>2, <2>1
  <2>3. s.rots = t.rots
    BY <1>3, <2>2
  <2> QED BY <2>1, <2>3, SubcubeFields
<1>5. ASSUME NEW s \in Subcubes PROVE AsChar(s) \in -128..127
  <2> HIDE DEF b
  <2> QED BY <1>1, <1>2, <1>3
<1> QED BY <1>4, <1>5

(* Two cubes that differ do so first in some slot.                         *)
LEMMA FirstDifference ==
  ASSUME NEW c \in [Slots -> Subcubes], NEW d \in [Slots -> Subcubes], c # d
  PROVE  \E n \in Slots : c[n] # d[n] /\ \A m \in Slots : m < n => c[m] = d[m]
<1> DEFINE D == {n \in Slots : c[n] # d[n]}
<1>1. D \subseteq Nat /\ D # {}
  BY DEF Slots
<1>2. PICK n \in D : \A m \in D : ~(<<m, n>> \in OpToRel(<, Nat))
  <2> HIDE DEF D
  <2> QED BY <1>1, WFMin, NatLessThanWellFounded
<1>3. \A m \in D : ~(m < n)
  BY <1>1, <1>2 DEF OpToRel
<1> QED BY <1>3

(* cube_compare is a strict total order of the cubes, so that equality is  *)
(* what neither side decides: the integers that stand for cubes in         *)
(* CubeGraph lose nothing, and an array sorted by it can be searched by    *)
(* halving (cube_compare, storage_location_of).                            *)
THEOREM CompareOrders ==
  /\ \A c \in [Slots -> Subcubes] : ~Less(c, c)
  /\ \A c, d, e \in [Slots -> Subcubes] : Less(c, d) /\ Less(d, e) => Less(c, e)
  /\ \A c, d \in [Slots -> Subcubes] : c = d \/ Less(c, d) \/ Less(d, c)
<1>1. \A c \in [Slots -> Subcubes], n \in Slots : c[n] \in Subcubes /\ AsChar(c[n]) \in Int
  BY Chars
<1>2. ASSUME NEW c \in [Slots -> Subcubes] PROVE ~Less(c, c)
  BY <1>1 DEF Less
<1>3. ASSUME NEW c \in [Slots -> Subcubes], NEW d \in [Slots -> Subcubes],
             NEW e \in [Slots -> Subcubes], Less(c, d), Less(d, e)
      PROVE  Less(c, e)
  <2>1. PICK n \in Slots : AsChar(c[n]) < AsChar(d[n]) /\ \A m \in Slots : m < n => c[m] = d[m]
    BY <1>3 DEF Less
  <2>2. PICK k \in Slots : AsChar(d[k]) < AsChar(e[k]) /\ \A m \in Slots : m < k => d[m] = e[m]
    BY <1>3 DEF Less
  <2>3. Slots \subseteq Int
    BY DEF Slots
  <2>4. CASE n < k
    <3>1. AsChar(c[n]) < AsChar(e[n]) /\ \A m \in Slots : m < n => c[m] = e[m]
      BY <2>1, <2>2, <2>3, <2>4
    <3> QED BY <3>1 DEF Less
  <2>5. CASE k < n
    <3>1. AsChar(c[k]) < AsChar(e[k]) /\ \A m \in Slots : m < k => c[m] = e[m]
      BY <2>1, <2>2, <2>3, <2>5
    <3> QED BY <3>1 DEF Less
  <2>6. CASE k = n
    <3>1. AsChar(c[n]) < AsChar(e[n])
      BY <1>1, <2>1, <2>2, <2>6
    <3>2. \A m \in Slots : m < n => c[m] = e[m]
      BY <2>1, <2>2, <2>6
    <3> QED BY <3>1, <3>2 DEF Less
  <2> QED BY <2>3, <2>4, <2>5, <2>6
<1>4. ASSUME NEW c \in [Slots -> Subcubes], NEW d \in [Slots -> Subcubes], c # d
      PROVE  Less(c, d) \/ Less(d, c)
  <2>1. PICK n \in Slots : c[n] # d[n] /\ \A m \in Slots : m < n => c[m] = d[m]
    BY <1>4, FirstDifference
  <2>2. AsChar(c[n]) # AsChar(d[n])
    BY <1>1, <2>1, Chars
  <2>3. AsChar(c[n]) < AsChar(d[n]) \/ AsChar(d[n]) < AsChar(c[n])
    BY <1>1, <2>2
  <2> QED BY <2>1, <2>3 DEF Less
<1> QED BY <1>2, <1>3, <1>4
==============================================================================
