------------------------------- MODULE Board -------------------------------
(***************************************************************************)
(* The geometry of the game, shared by the server (class GameMaster) and   *)
(* the client (class GameHandler): which positions are on the board, where *)
(* a robot's step leads, which fields a bomb reaches and how its timer     *)
(* runs. The client learns the parameters from the HELLO message.          *)
(***************************************************************************)
EXTENDS Integers

CONSTANTS SizeX,             \* --size-x, coords_t
          SizeY,             \* --size-y, coords_t
          ExplosionRadius,   \* --explosion-radius, explosion_radius_t
          BombTimer,         \* --bomb-timer, game_time_t
          CoordMod,          \* coords_t and explosion_radius_t wrap here
          TimeMod            \* game_time_t wraps here; both 65536 in the code

\* The parser also lets a size of 0 through; random_position then divides by
\* zero and the server dies, so there is no board to speak of.
ASSUME BoardAssumption ==
  /\ CoordMod \in Nat /\ TimeMod \in Nat \ {0}
  /\ SizeX \in 1 .. CoordMod - 1
  /\ SizeY \in 1 .. CoordMod - 1
  /\ ExplosionRadius \in 0 .. CoordMod - 1
  /\ BombTimer \in 0 .. TimeMod - 1

Coord == 0 .. CoordMod - 1
Position == [x : Coord, y : Coord]

\* The fields of the board.
Cells == [x : 0 .. SizeX - 1, y : 0 .. SizeY - 1]

Direction == {"UP", "RIGHT", "DOWN", "LEFT"}

\* Slip: the size itself taken for a coordinate.
is_position_valid_closed(p) == p.x <= SizeX /\ p.y <= SizeY

is_position_valid(p) == p.x < SizeX /\ p.y < SizeY

\* The position k steps from p in direction d, in uint16_t arithmetic: a step
\* below 0 wraps to 65535, which no board contains.
Shift(p, d, k) ==
  [x |-> CASE d = "RIGHT" -> (p.x + k) % CoordMod
           [] d = "LEFT"  -> (p.x - k) % CoordMod
           [] OTHER       -> p.x,
   y |-> CASE d = "UP"    -> (p.y + k) % CoordMod
           [] d = "DOWN"  -> (p.y - k) % CoordMod
           [] OTHER       -> p.y]

\* The fields one arm of an explosion covers: as far as the radius, the edge
\* of the board, and the first block, which is itself covered.
Stripe(p, d, blocks) ==
  {Shift(p, d, k) :
     k \in {n \in 1 .. ExplosionRadius :
              \A j \in 1 .. n : /\ is_position_valid(Shift(p, d, j))
                                /\ j < n => Shift(p, d, j) \notin blocks}}

\* The fields the bomb at p destroys. A bomb under a block only destroys that.
handle_explosions(p, blocks) ==
  {p} \cup IF p \in blocks THEN {}
           ELSE UNION {Stripe(p, d, blocks) : d \in Direction}

\* A bomb_t one turn later.
Tick(bomb) == [position |-> bomb.position, timer |-> (bomb.timer - 1) % TimeMod]
=============================================================================
