-------------------------------- MODULE Turn --------------------------------
(***************************************************************************)
(* The rules of one turn, as GameMaster::make_turn computes them from the  *)
(* state of the game. A world w is a record                                *)
(*   players    : the vector of players, numbered from 1 (the code: from 0) *)
(*   blocks     : the set of blocked fields                                *)
(*   bombs      : bomb id -> [position, timer]                             *)
(*   bomb_count : the next bomb id                                         *)
(*                                                                         *)
(* The events of a turn are a record rather than a list. The code pushes   *)
(* all explosions first and then at most one event per player in the order *)
(* of the players; within each of the two groups the events concern        *)
(* different bombs, players or fields, so a reader only depends on the     *)
(* groups: `exploded' before `moved', `bombs_placed' and `blocks_placed'.  *)
(*                                                                         *)
(* A definition under a comment `Slip:' is no part of the model: it is the *)
(* next definition with a mistake the code could well have made, kept to   *)
(* show that a property the runs check would notice.                       *)
(***************************************************************************)
EXTENDS Board, Sequences, FiniteSets

CONSTANT None   \* nullopt, and a position that was never set

Action == Direction \cup {"PLACE_BLOCK", "PLACE_BOMB"}

ASSUME TurnAssumption ==
  /\ None \notin Action
  /\ None \notin Position

-----------------------------------------------------------------------------
(* Bombs *)

Exploding(w) == {b \in DOMAIN w.bombs : Tick(w.bombs[b]).timer = 0}

\* Slip: blocks over bombs are erased as soon as those explode.
FieldsHit_erasing(w, b) ==
  handle_explosions(w.bombs[b].position,
                    w.blocks \ {w.bombs[c].position : c \in Exploding(w) \ {b}})

\* No block is placed or erased while the bombs are looked at.
FieldsHit(w, b) == handle_explosions(w.bombs[b].position, w.blocks)

BlocksIn(w, b) == w.blocks \cap FieldsHit(w, b)

RobotsIn(w, b) == {i \in DOMAIN w.players : w.players[i].position \in FieldsHit(w, b)}

DestroyedBlocks(w) == UNION {BlocksIn(w, b) : b \in Exploding(w)}

DestroyedRobots(w) == UNION {RobotsIn(w, b) : b \in Exploding(w)}

-----------------------------------------------------------------------------
(* The actions of the players that were not destroyed *)

\* Slip: a robot acts in the turn it is destroyed.
Acting_destroyed(w, a) == {i \in DOMAIN w.players : w.players[i].action = a}

\* The players carrying out action a this turn.
Acting(w, a) ==
  {i \in DOMAIN w.players \ DestroyedRobots(w) : w.players[i].action = a}

Target(w, i) == Shift(w.players[i].position, w.players[i].action, 1)

\* Slip: no test whether the position is on the board.
Moving_anywhere(w) ==
  {i \in UNION {Acting(w, d) : d \in Direction} :
     Target(w, i) \notin w.blocks \ DestroyedBlocks(w)}

\* The players whose step leads to a free field: blocks destroyed this turn
\* no longer stop them, blocks placed this turn do not stop them yet.
Moving(w) ==
  {i \in UNION {Acting(w, d) : d \in Direction} :
     /\ is_position_valid(Target(w, i))
     /\ Target(w, i) \notin w.blocks \ DestroyedBlocks(w)}

\* Slip: ++bomb_count.
BombId_preincrement(w, i) ==
  w.bomb_count + Cardinality({j \in Acting(w, "PLACE_BOMB") : j <= i})

\* bomb_count++ for each bomb, in the order of the players.
BombId(w, i) ==
  w.bomb_count + Cardinality({j \in Acting(w, "PLACE_BOMB") : j < i})

PlacedBombs(w) ==
  [b \in {BombId(w, i) : i \in Acting(w, "PLACE_BOMB")} |->
     w.players[CHOOSE i \in Acting(w, "PLACE_BOMB") : BombId(w, i) = b].position]

PlacedBlocks(w) == {w.players[i].position : i \in Acting(w, "PLACE_BLOCK")}

\* respawn \in [DestroyedRobots(w) -> Cells]: the random_position() of each.
Moved(w, respawn) ==
  [i \in Moving(w) \cup DOMAIN respawn |->
     IF i \in DOMAIN respawn THEN respawn[i] ELSE Target(w, i)]

-----------------------------------------------------------------------------
(* The turn sent to the clients, and the world it leaves behind *)

TurnEvents(w, respawn, n) ==
  [turn          |-> n,
   exploded      |-> [b \in Exploding(w) |->
                        [robots |-> RobotsIn(w, b), blocks |-> BlocksIn(w, b)]],
   moved         |-> Moved(w, respawn),
   bombs_placed  |-> PlacedBombs(w),
   blocks_placed |-> PlacedBlocks(w)]

\* Slip: a point for each bomb that reaches the robot.
PlayedPlayer_per_bomb(w, respawn, i) ==
  [w.players[i] EXCEPT
     !.position = IF i \in DOMAIN respawn THEN respawn[i]
                  ELSE IF i \in Moving(w) THEN Target(w, i) ELSE @,
     !.score    = @ + Cardinality({b \in Exploding(w) : i \in RobotsIn(w, b)}),
     !.action   = None]

PlayedPlayer(w, respawn, i) ==
  [w.players[i] EXCEPT
     !.position = IF i \in DOMAIN respawn THEN respawn[i]
                  ELSE IF i \in Moving(w) THEN Target(w, i) ELSE @,
     !.score    = IF i \in DOMAIN respawn THEN @ + 1 ELSE @,
     !.action   = None]

\* Slip: bombs placed this turn already lose a turn of their fuse.
PlayedBombs_ticked(w) ==
  [b \in (DOMAIN w.bombs \ Exploding(w)) \cup DOMAIN PlacedBombs(w) |->
     IF b \in DOMAIN PlacedBombs(w)
     THEN Tick([position |-> PlacedBombs(w)[b], timer |-> BombTimer])
     ELSE Tick(w.bombs[b])]

PlayedBombs(w) ==
  [b \in (DOMAIN w.bombs \ Exploding(w)) \cup DOMAIN PlacedBombs(w) |->
     IF b \in DOMAIN PlacedBombs(w)
     THEN [position |-> PlacedBombs(w)[b], timer |-> BombTimer]
     ELSE Tick(w.bombs[b])]

Played(w, respawn) ==
  [players    |-> [i \in DOMAIN w.players |-> PlayedPlayer(w, respawn, i)],
   blocks     |-> (w.blocks \ DestroyedBlocks(w)) \cup PlacedBlocks(w),
   bombs      |-> PlayedBombs(w),
   bomb_count |-> w.bomb_count + Cardinality(Acting(w, "PLACE_BOMB"))]
=============================================================================
