---------------------------- MODULE ClientInputMC ----------------------------
(***************************************************************************)
(* Messages and names for TLC: each kind of message and of event, names    *)
(* and containers of different lengths, fields of every size.              *)
(***************************************************************************)
EXTENDS ClientInput

NoName == [len |-> 0, letters |-> 0]
Ann == [len |-> 2, letters |-> 23]

MCHello ==
  [id |-> SC_HELLO, server_name |-> Ann, players_count |-> 1, size_x |-> 17,
   size_y |-> 2, game_length |-> 3, explosion_radius |-> 1, bomb_timer |-> 5]

MCPlayer == [id |-> 1, player |-> [name |-> Ann, address |-> NoName]]

MCEvents ==
  <<[event |-> BOMB_EXPLODED, bomb_id |-> 4, robots_destroyed |-> <<1>>,
     blocks_destroyed |-> <<<<3, 18>>>>],
    [event |-> PLAYER_MOVED, player_id |-> 1, position |-> <<16, 2>>],
    [event |-> BOMB_PLACED, bomb_id |-> 5, position |-> <<1, 2>>],
    [event |-> BLOCK_PLACED, position |-> <<2, 1>>]>>

MCMessages ==
  {[id |-> SC_ACCEPTED_PLAYER, player |-> MCPlayer],
   [id |-> SC_GAME_STARTED, players |-> <<MCPlayer>>],
   [id |-> SC_TURN, turn |-> 17, events |-> <<>>],
   [id |-> SC_TURN, turn |-> 1, events |-> MCEvents],
   [id |-> SC_GAME_ENDED, scores |-> <<[id |-> 1, score |-> 300]>>]}

MCNames == {NoName, Ann}
=============================================================================
