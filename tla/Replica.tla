------------------------------ MODULE Replica ------------------------------
(***************************************************************************)
(* One game from its start, with one client that receives every turn: the  *)
(* server plays on `world', the client builds `view' from the turns alone. *)
(* Which message reaches the server when is left open: any player may have *)
(* asked for anything before a turn, as GameMaster.tla shows.              *)
(***************************************************************************)
EXTENDS Turn, GameHandler

CONSTANTS NumPlayers,   \* players in the game
          Inputs,       \* the actions players ask for
          MaxBombs      \* bound: no bomb is placed beyond this id

ASSUME ReplicaAssumption ==
  /\ NumPlayers \in Nat
  /\ Inputs \subseteq Action
  /\ MaxBombs \in Nat

VARIABLES world, view
vars == <<world, view>>

Ids == 1 .. NumPlayers

\* start_game: the players and initial blocks of turn 0.
StartWorld(positions, blocks) ==
  [players    |-> [i \in Ids |-> [position |-> positions[i], score |-> 0,
                                  action |-> None]],
   blocks     |-> blocks,
   bombs      |-> <<>>,
   bomb_count |-> 0]

StartEvents(positions, blocks) ==
  [turn |-> 0, exploded |-> <<>>, moved |-> positions, bombs_placed |-> <<>>,
   blocks_placed |-> blocks]

Init ==
  \E positions \in [Ids -> Cells], blocks \in SUBSET Cells :
    /\ world = StartWorld(positions, blocks)
    /\ view = handle_turn(set_gamers(NewView, [i \in Ids |-> i]),
                          StartEvents(positions, blocks))

\* The world when the turn starts: handle_move, handle_place_bomb and
\* handle_place_block have recorded the last action each player asked for.
WithActions(acts) ==
  [world EXCEPT !.players =
     [i \in Ids |-> [world.players[i] EXCEPT !.action = acts[i]]]]

\* make_turn on the server, handle_turn on the client.
PlayTurn(acts, respawn) ==
  LET w == WithActions(acts)
  IN /\ respawn \in [DestroyedRobots(w) -> Cells]
     /\ world' = Played(w, respawn)
     /\ view' = handle_turn(view, TurnEvents(w, respawn, 0))

\* Bound: players stop placing bombs when MaxBombs of them have been placed.
BoundedInputs ==
  IF world.bomb_count < MaxBombs THEN Inputs ELSE Inputs \ {"PLACE_BOMB"}

Next ==
  \E acts \in [Ids -> BoundedInputs \cup {None}] :
    \E respawn \in [DestroyedRobots(world) -> Cells] : PlayTurn(acts, respawn)

Spec == Init /\ [][Next]_vars

-----------------------------------------------------------------------------
PlayerType == [position : Cells, score : Nat, action : Action \cup {None}]

WorldType ==
  /\ world.players \in [Ids -> PlayerType]
  /\ world.blocks \subseteq Cells
  /\ world.bomb_count \in Nat
  /\ \A b \in DOMAIN world.bombs :
       world.bombs[b] \in [position : Cells, timer : 0 .. TimeMod - 1]

\* The type invariant of one game: positions, blocks and bombs are on the
\* board, so no explosion or step ever starts from a position outside it.
TypeOK ==
  /\ world = [players |-> world.players, blocks |-> world.blocks,
              bombs |-> world.bombs, bomb_count |-> world.bomb_count]
  /\ WorldType

\* After every turn the client shows what the server has: the same robots,
\* blocks, bombs with their timers, and scores. The server inserts blocks
\* placed this turn after it erased the destroyed ones, the client erases the
\* destroyed ones last: that this makes no difference is part of the claim.
Agreement ==
  /\ view.player_positions = [i \in Ids |-> world.players[i].position]
  /\ view.blocks = world.blocks
  /\ view.bombs = world.bombs
  /\ view.scores = [i \in Ids |-> world.players[i].score]

\* Bomb ids are never reused and a bomb never outlives its fuse: what
\* unordered_map::operator[] on the server and on the client relies on.
BombsFresh ==
  \A b \in DOMAIN world.bombs :
    /\ b \in 0 .. world.bomb_count - 1
    /\ BombTimer > 0 => world.bombs[b].timer \in 1 .. BombTimer

\* The fields the client shows as exploding, which it computes from its own
\* blocks and bombs, are those the server destroyed robots and blocks on.
ExplosionsShown ==
  [][view'.explosions = UNION {FieldsHit(world, b) : b \in Exploding(world)}]_vars

\* A robot is destroyed at most once a turn, however many bombs reach it, and
\* only by a bomb that leaves the board in the same turn.
OneScorePerTurn ==
  [][\A i \in Ids :
       \/ world'.players[i].score = world.players[i].score
       \/ /\ world'.players[i].score = world.players[i].score + 1
          /\ \E b \in DOMAIN world.bombs \ DOMAIN world'.bombs :
               world.players[i].position \in FieldsHit(world, b)]_vars
=============================================================================
