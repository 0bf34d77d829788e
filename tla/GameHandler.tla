----------------------------- MODULE GameHandler -----------------------------
(***************************************************************************)
(* The client's picture of the game: class GameHandler, which builds it    *)
(* from GAME_STARTED and the TURN messages alone. A view v is a record     *)
(* with the fields the client shows to its gui. A turn t is the record     *)
(* Turn!TurnEvents describes; its number, which the view only passes on to *)
(* the gui, is left out.                                                   *)
(***************************************************************************)
EXTENDS Board

\* The members a GameHandler is constructed with.
NewView ==
  [players          |-> <<>>,
   player_positions |-> <<>>,
   blocks           |-> {},
   bombs            |-> <<>>,
   explosions       |-> {},
   scores           |-> <<>>]

\* Slip: the scores are left to handle_turn to start.
set_gamers_unscored(v, gamers) == [v EXCEPT !.players = gamers]

\* GAME_STARTED: gamers maps the player ids to the players.
set_gamers(v, gamers) ==
  [v EXCEPT !.players = gamers, !.scores = [i \in DOMAIN gamers |-> 0]]

\* Slip: the position is read after the bomb was erased.
BombPosition_erased(v, b) == [x |-> 0, y |-> 0]

\* bombs[bomb_id].position: an id the client does not know yields a fresh bomb.
BombPosition(v, b) ==
  IF b \in DOMAIN v.bombs THEN v.bombs[b].position ELSE [x |-> 0, y |-> 0]

Robots(t) == UNION {t.exploded[b].robots : b \in DOMAIN t.exploded}

\* The blocks are erased only after all events: explosions and steps of this
\* turn see the block, and a block placed on a destroyed one is erased too.
handle_turn(v, t) ==
  [players |-> v.players,
   player_positions |->
     [i \in DOMAIN v.player_positions \cup DOMAIN t.moved |->
        IF i \in DOMAIN t.moved THEN t.moved[i] ELSE v.player_positions[i]],
   blocks |->
     (v.blocks \cup t.blocks_placed)
       \ UNION {t.exploded[b].blocks : b \in DOMAIN t.exploded},
   bombs |->
     [b \in (DOMAIN v.bombs \ DOMAIN t.exploded) \cup DOMAIN t.bombs_placed |->
        IF b \in DOMAIN t.bombs_placed
        THEN [position |-> t.bombs_placed[b], timer |-> BombTimer]
        ELSE Tick(v.bombs[b])],
   explosions |->
     UNION {handle_explosions(BombPosition(v, b), v.blocks) :
              b \in DOMAIN t.exploded},
   scores |->
     [i \in DOMAIN v.scores \cup Robots(t) |->
        (IF i \in DOMAIN v.scores THEN v.scores[i] ELSE 0)
          + (IF i \in Robots(t) THEN 1 ELSE 0)]]
=============================================================================
