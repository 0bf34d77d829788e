------------------------------ MODULE LateJoin ------------------------------
(***************************************************************************)
(* What a client that connects during a game can know of it: the server's  *)
(* GameMaster, and the client's GameHandler fed with the recorded turns    *)
(* that reset_server pushes to a new client.                               *)
(***************************************************************************)
EXTENDS GameMaster, GameHandler, SequencesExt

\* Every message of the history handled in turn, starting from what
\* GAME_STARTED would have told the client.
Replayed(turns) ==
  FoldLeft(handle_turn, set_gamers(NewView, GameStarted(players).players), turns)

\* The history of a game is enough to rebuild it: whoever handles the recorded
\* turns one after the other ends up with the robots, blocks, bombs with their
\* timers, and scores the server has, whenever in the game that happens.
HistoryReplays ==
  game_state = "GAME" =>
    LET view == Replayed(game_turns)
    IN /\ view.player_positions = [i \in DOMAIN players |-> players[i].position]
       /\ view.scores = [i \in DOMAIN players |-> players[i].score]
       /\ view.blocks = blocks
       /\ view.bombs = bombs
=============================================================================
