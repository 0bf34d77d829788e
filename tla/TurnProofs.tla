----------------------------- MODULE TurnProofs -----------------------------
(***************************************************************************)
(* Facts about the rules of one turn, for boards, players and bombs of     *)
(* every number and size. They are used for GameMaster and for Replica.    *)
(***************************************************************************)
EXTENDS Turn, GameHandler, FiniteSetTheorems, WellFoundedInduction, TLAPS

-----------------------------------------------------------------------------
(* Induction *)

\* A set that contains 0 and with every number the next one contains them all.
LEMMA SetInduction ==
  ASSUME NEW S, 0 \in S, \A n \in Nat : n \in S => n + 1 \in S
  PROVE  Nat \subseteq S
<1> SUFFICES ASSUME Nat \ S # {} PROVE FALSE
  OBVIOUS
<1> DEFINE R == OpToRel(<, Nat)
           T == Nat \ S
<1>1. IsWellFoundedOn(R, Nat)
  BY NatLessThanWellFounded
<1>2. R = {ss \in Nat \X Nat : ss[1] < ss[2]}
  BY DEF OpToRel
<1> HIDE DEF R
<1>3. PICK x \in T : \A y \in T : ~ (<<y, x>> \in R)
  <2>1. T \subseteq Nat /\ T # {}
    OBVIOUS
  <2> HIDE DEF T
  <2> QED BY <1>1, <2>1, WFMin
<1>4. x \in Nat /\ x # 0 /\ x - 1 \in Nat
  OBVIOUS
<1>5. x - 1 \in T
  BY <1>4
<1>6. <<x - 1, x>> \in R
  BY <1>2, <1>4
<1> QED BY <1>3, <1>5, <1>6

-----------------------------------------------------------------------------
(* Games a turn can be played in *)

\* A game of n players that a turn can be played in.
WorldOK(w, n) ==
  /\ n \in Nat
  /\ DOMAIN w.players = 1 .. n
  /\ \A i \in 1 .. n : w.players[i].position \in Cells
  /\ w.blocks \subseteq Cells
  /\ w.bomb_count \in Nat
  /\ \A b \in DOMAIN w.bombs :
       w.bombs[b] \in [position : Cells, timer : 0 .. TimeMod - 1]

-----------------------------------------------------------------------------
(* The board *)

\* The test of is_position_valid picks the fields of the board out of the
\* positions a position_t can hold.
LEMMA ValidPositions ==
  /\ Cells \subseteq Position
  /\ \A p \in Position : is_position_valid(p) <=> p \in Cells
<1>1. SizeX \in 1 .. CoordMod - 1 /\ SizeY \in 1 .. CoordMod - 1 /\ CoordMod \in Nat
  BY BoardAssumption
<1>2. 0 .. SizeX - 1 \subseteq Coord /\ 0 .. SizeY - 1 \subseteq Coord
  BY <1>1 DEF Coord
<1>3. Cells \subseteq Position
  BY <1>2 DEF Cells, Position
<1>4. ASSUME NEW p \in Position
      PROVE  is_position_valid(p) <=> p \in Cells
  <2>1. p = [x |-> p.x, y |-> p.y] /\ p.x \in Coord /\ p.y \in Coord
    BY DEF Position
  <2>2. /\ p.x < SizeX <=> p.x \in 0 .. SizeX - 1
        /\ p.y < SizeY <=> p.y \in 0 .. SizeY - 1
    BY <1>1, <2>1 DEF Coord
  <2> QED BY <2>1, <2>2 DEF Cells, is_position_valid
<1> QED BY <1>3, <1>4

\* Unsigned coordinates stay coordinates, whatever the step.
LEMMA ShiftPosition ==
  ASSUME NEW p \in Position, NEW d, NEW k \in Nat
  PROVE  Shift(p, d, k) \in Position
<1>1. p.x \in Coord /\ p.y \in Coord
  BY DEF Position
<1>2. \A m \in Int : m % CoordMod \in Coord
  BY BoardAssumption DEF Coord
<1>3. /\ p.x + k \in Int /\ p.x - k \in Int
      /\ p.y + k \in Int /\ p.y - k \in Int
  BY <1>1, BoardAssumption DEF Coord
<1>4. /\ (p.x + k) % CoordMod \in Coord /\ (p.x - k) % CoordMod \in Coord
      /\ (p.y + k) % CoordMod \in Coord /\ (p.y - k) % CoordMod \in Coord
  BY <1>2, <1>3
<1>5. Shift(p, d, k).x \in Coord
  BY <1>1, <1>4 DEF Shift
<1>6. Shift(p, d, k).y \in Coord
  BY <1>1, <1>4 DEF Shift
<1> QED BY <1>5, <1>6 DEF Shift, Position

\* An explosion never leaves the board.
LEMMA ExplosionOnBoard ==
  ASSUME NEW p \in Cells, NEW blocks
  PROVE  handle_explosions(p, blocks) \subseteq Cells
<1>1. ASSUME NEW d PROVE Stripe(p, d, blocks) \subseteq Cells
  <2>1. ASSUME NEW n \in 1 .. ExplosionRadius,
               is_position_valid(Shift(p, d, n))
        PROVE  Shift(p, d, n) \in Cells
    <3>1. n \in Nat
      BY BoardAssumption
    <3>2. Shift(p, d, n) \in Position
      BY <3>1, ShiftPosition, ValidPositions
    <3> QED BY <2>1, <3>2, ValidPositions
  <2>2. \A n \in 1 .. ExplosionRadius : n \in 1 .. n
    BY BoardAssumption
  <2> QED BY <2>1, <2>2 DEF Stripe
<1> QED BY <1>1 DEF handle_explosions

-----------------------------------------------------------------------------
(* The players *)

\* The sets bomb_count is counted up by are finite.
LEMMA ActingFinite ==
  ASSUME NEW w, NEW n, WorldOK(w, n), NEW a
  PROVE  /\ Acting(w, a) \subseteq 1 .. n
         /\ IsFiniteSet(Acting(w, a))
         /\ Cardinality(Acting(w, a)) \in Nat
<1>1. Acting(w, a) \subseteq 1 .. n
  BY DEF Acting, WorldOK
<1>2. IsFiniteSet(1 .. n)
  BY FS_Interval DEF WorldOK
<1>3. IsFiniteSet(Acting(w, a))
  BY <1>1, <1>2, FS_Subset
<1> QED BY <1>1, <1>3, FS_CardinalityType

\* A robot that moves stays on the board.
LEMMA TargetOnBoard ==
  ASSUME NEW w, NEW n, WorldOK(w, n), NEW i \in Moving(w)
  PROVE  i \in 1 .. n /\ Target(w, i) \in Cells
<1>1. i \in 1 .. n
  BY DEF Moving, Acting, WorldOK
<1>2. Target(w, i) \in Position
  BY <1>1, ShiftPosition, ValidPositions DEF Target, WorldOK
<1> QED BY <1>1, <1>2, ValidPositions DEF Moving

\* Bombs are placed on the board.
LEMMA PlacedBombsOnBoard ==
  ASSUME NEW w, NEW n, WorldOK(w, n), NEW b \in DOMAIN PlacedBombs(w)
  PROVE  PlacedBombs(w)[b] \in Cells
<1> DEFINE A == Acting(w, "PLACE_BOMB")
           j == CHOOSE i \in A : BombId(w, i) = b
<1>1. \E i \in A : BombId(w, i) = b
  BY DEF PlacedBombs
<1>2. j \in A
  BY <1>1
<1>3. PlacedBombs(w)[b] = w.players[j].position
  BY DEF PlacedBombs
<1>4. j \in 1 .. n
  BY <1>2, ActingFinite
<1> QED BY <1>3, <1>4 DEF WorldOK

\* The ids of the bombs placed in a turn count on from bomb_count, up to where
\* the next turn goes on.
LEMMA PlacedIds ==
  ASSUME NEW w, NEW n, WorldOK(w, n), NEW b \in DOMAIN PlacedBombs(w)
  PROVE  /\ b \in Nat
         /\ w.bomb_count <= b
         /\ b < w.bomb_count + Cardinality(Acting(w, "PLACE_BOMB"))
<1> DEFINE A == Acting(w, "PLACE_BOMB")
<1>1. PICK i \in A : b = BombId(w, i)
  BY DEF PlacedBombs
<1> DEFINE L == {j \in A : j < i}
<1>2. IsFiniteSet(A) /\ Cardinality(A) \in Nat /\ i \in 1 .. n
  BY ActingFinite
<1>3. L \subseteq A /\ i \notin L
  BY <1>2 DEF WorldOK
<1>4. IsFiniteSet(L) /\ Cardinality(L) <= Cardinality(A)
      /\ (Cardinality(A) = Cardinality(L) => A = L)
  BY <1>2, <1>3, FS_Subset
<1>5. Cardinality(L) \in Nat
  BY <1>4, FS_CardinalityType
<1>6. b = w.bomb_count + Cardinality(L)
  BY <1>1 DEF BombId
<1>7. Cardinality(L) < Cardinality(A)
  BY <1>1, <1>2, <1>3, <1>4, <1>5
<1> HIDE DEF A, L
<1> QED BY <1>2, <1>5, <1>6, <1>7 DEF WorldOK, A

-----------------------------------------------------------------------------
(* The turn *)

PlayerAfter(p, pos, score) ==
  [p EXCEPT !.position = pos, !.score = score, !.action = None]

\* What one turn makes of a player: it stays on the board, it may score once,
\* its action is used up, and nothing else of it changes.
LEMMA PlayedPlayerType ==
  ASSUME NEW w, NEW n, WorldOK(w, n), \A j \in 1 .. n : w.players[j].score \in Nat,
         NEW respawn \in [DestroyedRobots(w) -> Cells], NEW i \in 1 .. n
  PROVE  \E pos \in Cells, point \in {0, 1} :
           PlayedPlayer(w, respawn, i) =
             PlayerAfter(w.players[i], pos, w.players[i].score + point)
<1> DEFINE pos == IF i \in DOMAIN respawn THEN respawn[i]
                  ELSE IF i \in Moving(w) THEN Target(w, i)
                  ELSE w.players[i].position
           point == IF i \in DOMAIN respawn THEN 1 ELSE 0
<1>1. DOMAIN respawn = DestroyedRobots(w)
  OBVIOUS
<1>2. pos \in Cells
  BY <1>1, TargetOnBoard DEF WorldOK
<1>3. PlayedPlayer(w, respawn, i) =
        PlayerAfter(w.players[i], pos, w.players[i].score + point)
  <2>1. w.players[i].score + 0 = w.players[i].score
    OBVIOUS
  <2>2. CASE i \in DOMAIN respawn
    BY <2>2 DEF PlayedPlayer, PlayerAfter
  <2>3. CASE i \notin DOMAIN respawn
    <3>1. w.players[i].score + point = w.players[i].score
      BY <2>1, <2>3
    <3> QED BY <2>3, <3>1 DEF PlayedPlayer, PlayerAfter
  <2> QED BY <2>2, <2>3
<1>4. point \in {0, 1}
  OBVIOUS
<1> HIDE DEF pos, point
<1> QED BY <1>2, <1>3, <1>4

\* A turn leaves a game behind in which the next turn can be played.
THEOREM PlayedWorld ==
  ASSUME NEW w, NEW n, WorldOK(w, n),
         NEW respawn \in [DestroyedRobots(w) -> Cells]
  PROVE  LET after == Played(w, respawn)
         IN /\ DOMAIN after.players = 1 .. n
            /\ \A i \in 1 .. n : after.players[i] = PlayedPlayer(w, respawn, i)
            /\ after.blocks \subseteq Cells
            /\ after.bomb_count \in Nat
            /\ \A b \in DOMAIN after.bombs :
                 after.bombs[b] \in [position : Cells, timer : 0 .. TimeMod - 1]
<1> DEFINE after == Played(w, respawn)
<1>1. DOMAIN after.players = 1 .. n
  BY DEF Played, WorldOK
<1>2. \A i \in 1 .. n : after.players[i] = PlayedPlayer(w, respawn, i)
  BY DEF Played, WorldOK
<1>3. after.blocks \subseteq Cells
  <2>1. PlacedBlocks(w) \subseteq Cells
    BY ActingFinite DEF PlacedBlocks, WorldOK
  <2> QED BY <2>1 DEF Played, WorldOK
<1>4. after.bomb_count \in Nat
  <2>1. Cardinality(Acting(w, "PLACE_BOMB")) \in Nat
    BY ActingFinite
  <2>2. after.bomb_count = w.bomb_count + Cardinality(Acting(w, "PLACE_BOMB"))
    BY DEF Played
  <2> QED BY <2>1, <2>2 DEF WorldOK
<1>5. ASSUME NEW b \in DOMAIN after.bombs
      PROVE  after.bombs[b] \in [position : Cells, timer : 0 .. TimeMod - 1]
  <2>1. after.bombs = PlayedBombs(w)
    BY DEF Played
  <2>2. CASE b \in DOMAIN PlacedBombs(w)
    <3>1. after.bombs[b] = [position |-> PlacedBombs(w)[b], timer |-> BombTimer]
      BY <2>1, <2>2 DEF PlayedBombs
    <3>2. PlacedBombs(w)[b] \in Cells
      BY <2>2, PlacedBombsOnBoard
    <3> QED BY <3>1, <3>2, BoardAssumption
  <2>3. CASE b \notin DOMAIN PlacedBombs(w)
    <3>1. b \in DOMAIN w.bombs /\ after.bombs[b] = Tick(w.bombs[b])
      BY <2>1, <2>3 DEF PlayedBombs
    <3>2. w.bombs[b].position \in Cells /\ w.bombs[b].timer \in 0 .. TimeMod - 1
      BY <3>1 DEF WorldOK
    <3>3. (w.bombs[b].timer - 1) % TimeMod \in 0 .. TimeMod - 1
      BY <3>2, BoardAssumption
    <3> QED BY <3>1, <3>2, <3>3 DEF Tick
  <2> QED BY <2>2, <2>3
<1> QED BY <1>1, <1>2, <1>3, <1>4, <1>5
-----------------------------------------------------------------------------
(* One turn, for a view v and a world w of n players that agree *)

Agree(v, w, n) ==
  /\ v.player_positions = [i \in 1 .. n |-> w.players[i].position]
  /\ v.blocks = w.blocks
  /\ v.bombs = w.bombs
  /\ v.scores = [i \in 1 .. n |-> w.players[i].score]

\* Why the order in which blocks are erased and inserted makes no difference:
\* a robot on a destroyed block is destroyed too, and then places none.
LEMMA DestroyedNotPlaced ==
  ASSUME NEW w, NEW n, WorldOK(w, n)
  PROVE  DestroyedBlocks(w) \cap PlacedBlocks(w) = {}
<1> SUFFICES ASSUME NEW c \in DestroyedBlocks(w), c \in PlacedBlocks(w)
             PROVE  FALSE
  OBVIOUS
<1>1. PICK b \in Exploding(w) : c \in BlocksIn(w, b)
  BY DEF DestroyedBlocks
<1>2. PICK i \in Acting(w, "PLACE_BLOCK") : c = w.players[i].position
  BY DEF PlacedBlocks
<1>3. i \in DOMAIN w.players /\ i \notin DestroyedRobots(w)
  BY DEF Acting
<1>4. i \in RobotsIn(w, b)
  BY <1>1, <1>2, <1>3 DEF BlocksIn, RobotsIn
<1> QED BY <1>3, <1>4 DEF DestroyedRobots

\* The turn names the destroyed blocks and robots.
LEMMA ExplodedEvents ==
  ASSUME NEW w, NEW respawn, NEW k, NEW t, t = TurnEvents(w, respawn, k)
  PROVE  /\ DOMAIN t.exploded = Exploding(w)
         /\ UNION {t.exploded[b].blocks : b \in DOMAIN t.exploded} = DestroyedBlocks(w)
         /\ Robots(t) = DestroyedRobots(w)
<1>1. t.exploded = [b \in Exploding(w) |->
                      [robots |-> RobotsIn(w, b), blocks |-> BlocksIn(w, b)]]
  BY DEF TurnEvents
<1>2. DOMAIN t.exploded = Exploding(w)
  BY <1>1
<1>3. \A b \in Exploding(w) : t.exploded[b].blocks = BlocksIn(w, b)
                              /\ t.exploded[b].robots = RobotsIn(w, b)
  BY <1>1
<1>4. {t.exploded[b].blocks : b \in DOMAIN t.exploded} = {BlocksIn(w, b) : b \in Exploding(w)}
  BY <1>2, <1>3
<1>5. {t.exploded[b].robots : b \in DOMAIN t.exploded} = {RobotsIn(w, b) : b \in Exploding(w)}
  BY <1>2, <1>3
<1> QED BY <1>2, <1>4, <1>5 DEF DestroyedBlocks, DestroyedRobots, Robots

LEMMA TurnAgrees ==
  ASSUME NEW w, NEW v, NEW n, WorldOK(w, n), Agree(v, w, n),
         \A i \in 1 .. n : /\ w.players[i].score \in Nat
                           /\ {"position", "score"} \subseteq DOMAIN w.players[i],
         NEW respawn \in [DestroyedRobots(w) -> Cells], NEW k
  PROVE  Agree(handle_turn(v, TurnEvents(w, respawn, k)), Played(w, respawn), n)
<1> DEFINE t == TurnEvents(w, respawn, k)
           view2 == handle_turn(v, t)
           after == Played(w, respawn)
<1>1. /\ DOMAIN t.exploded = Exploding(w)
      /\ UNION {t.exploded[b].blocks : b \in DOMAIN t.exploded} = DestroyedBlocks(w)
      /\ Robots(t) = DestroyedRobots(w)
  BY ExplodedEvents
<1>2. /\ t.moved = Moved(w, respawn)
      /\ t.bombs_placed = PlacedBombs(w)
      /\ t.blocks_placed = PlacedBlocks(w)
  BY DEF TurnEvents
<1>3. DOMAIN respawn = DestroyedRobots(w) /\ DestroyedRobots(w) \subseteq 1 .. n
      /\ DOMAIN w.players = 1 .. n
  BY DEF DestroyedRobots, RobotsIn, WorldOK
<1>4. DOMAIN t.moved = Moving(w) \cup DOMAIN respawn /\ DOMAIN t.moved \subseteq 1 .. n
  BY <1>2, <1>3, TargetOnBoard DEF Moved
<1>5. ASSUME NEW i \in 1 .. n
      PROVE  /\ after.players[i].position =
                  IF i \in DOMAIN t.moved THEN t.moved[i] ELSE w.players[i].position
             /\ after.players[i].score =
                  w.players[i].score + (IF i \in Robots(t) THEN 1 ELSE 0)
  <2>1. after.players[i] = PlayedPlayer(w, respawn, i)
    BY <1>3 DEF Played
  <2>2. PlayedPlayer(w, respawn, i).position =
          IF i \in DOMAIN t.moved THEN t.moved[i] ELSE w.players[i].position
    BY <1>2, <1>4 DEF PlayedPlayer, Moved
  <2>3. PlayedPlayer(w, respawn, i).score =
          w.players[i].score + (IF i \in Robots(t) THEN 1 ELSE 0)
    <3>1. w.players[i].score \in Nat /\ "score" \in DOMAIN w.players[i]
      OBVIOUS
    <3>2. CASE i \in DOMAIN respawn
      BY <1>1, <1>3, <3>1, <3>2 DEF PlayedPlayer
    <3>3. CASE i \notin DOMAIN respawn
      BY <1>1, <1>3, <3>1, <3>3 DEF PlayedPlayer
    <3> QED BY <3>2, <3>3
  <2> QED BY <2>1, <2>2, <2>3
<1> HIDE DEF t, after
<1>6. view2.player_positions = [i \in 1 .. n |-> after.players[i].position]
  <2>1. DOMAIN v.player_positions \cup DOMAIN t.moved = 1 .. n
    BY <1>4 DEF Agree
  <2>2. view2.player_positions =
          [i \in DOMAIN v.player_positions \cup DOMAIN t.moved |->
             IF i \in DOMAIN t.moved THEN t.moved[i] ELSE v.player_positions[i]]
    BY DEF handle_turn
  <2>3. \A i \in 1 .. n : v.player_positions[i] = w.players[i].position
    BY DEF Agree
  <2> QED BY <1>5, <2>1, <2>2, <2>3
<1>7. view2.blocks = after.blocks
  <2>1. view2.blocks = (w.blocks \cup PlacedBlocks(w)) \ DestroyedBlocks(w)
    BY <1>1, <1>2 DEF handle_turn, Agree
  <2>2. after.blocks = (w.blocks \ DestroyedBlocks(w)) \cup PlacedBlocks(w)
    BY DEF after, Played
  <2> QED BY <2>1, <2>2, DestroyedNotPlaced
<1>8. view2.bombs = after.bombs
  <2>1. after.bombs = PlayedBombs(w)
    BY DEF after, Played
  <2> QED BY <1>1, <1>2, <2>1 DEF handle_turn, PlayedBombs, Agree
<1>9. view2.scores = [i \in 1 .. n |-> after.players[i].score]
  <2>1. DOMAIN v.scores \cup Robots(t) = 1 .. n
    BY <1>1, <1>3 DEF Agree
  <2>2. view2.scores =
          [i \in DOMAIN v.scores \cup Robots(t) |->
             (IF i \in DOMAIN v.scores THEN v.scores[i] ELSE 0)
               + (IF i \in Robots(t) THEN 1 ELSE 0)]
    BY DEF handle_turn
  <2>3. DOMAIN v.scores = 1 .. n /\ \A i \in 1 .. n : v.scores[i] = w.players[i].score
    BY DEF Agree
  <2> QED BY <1>5, <2>1, <2>2, <2>3
<1> QED BY <1>6, <1>7, <1>8, <1>9 DEF Agree, t, after

=============================================================================
