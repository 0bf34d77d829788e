----------------------------- MODULE GameMaster -----------------------------
(***************************************************************************)
(* Class GameMaster of the server: the lobby, the seats of the servers     *)
(* (one per connection slot), the game and its clock thread. Two threads   *)
(* call it, the main loop with handle_server_message and the clock with    *)
(* make_turn; every critical section of its mutex is one step here.        *)
(*                                                                         *)
(* Players and turns are numbered from 1 where they index a vector: player *)
(* i of the model has the id i - 1 in the code.                            *)
(***************************************************************************)
EXTENDS Turn

CONSTANTS Servers,         \* server ids, NUMBER_OF_CLIENTS of them
          Names,           \* what a JOIN says of its player: name and address
          PlayersCount,    \* --players-count, at most 255
          InitialBlocks,   \* --initial-blocks
          GameLength,      \* --game-length
          TurnMod,         \* turn_t wraps here: 65536 in the code
          Inputs,          \* the player actions the clients send
          QueueBound       \* bound: no join or reset while a queue is longer

\* A count of 0 is parsed too; players.size() is then never equal to it and the
\* lobby never fills.
ASSUME GameMasterAssumption ==
  /\ PlayersCount \in Nat \ {0}
  /\ InitialBlocks \in Nat
  /\ TurnMod \in Nat \ {0, 1}
  /\ GameLength \in 0 .. TurnMod - 1
  /\ Inputs \subseteq Action
  /\ QueueBound \in Nat
  /\ None \notin Cells

VARIABLES
  game_state,        \* "LOBBY" or "GAME"
  game_turns,        \* the turns of this game so far
  playing_servers,   \* server -> the player its client controls
  players, blocks, bombs, bomb_count,
  current_turn,
  clock,             \* where the clock thread is in make_turn
  server_queues      \* server -> the messages it has yet to take

gameVars == <<game_turns, blocks, bombs, bomb_count, current_turn>>
vars == <<game_state, game_turns, playing_servers, players, blocks, bombs,
          bomb_count, current_turn, clock, server_queues>>

\* playing_servers[s] when s is not in the map.
NotPlaying == 0

World == [players |-> players, blocks |-> blocks, bombs |-> bombs,
          bomb_count |-> bomb_count]

-----------------------------------------------------------------------------
(* Messages to the servers *)

Reset == [id |-> "RESET_SERVER"]
Hello == [id |-> "SC_HELLO"]
Accepted(i, player) ==
  [id |-> "SC_ACCEPTED_PLAYER", player |-> [id |-> i, name |-> player.name]]
GameStarted(ps) ==
  [id |-> "SC_GAME_STARTED", players |-> [i \in DOMAIN ps |-> ps[i].name]]
TurnMessage(t) == [id |-> "SC_TURN", turn |-> t]
GameEnded(ps) ==
  [id |-> "SC_GAME_ENDED", scores |-> [i \in DOMAIN ps |-> ps[i].score]]

Broadcast(ms) == server_queues' = [s \in Servers |-> server_queues[s] \o ms]

-----------------------------------------------------------------------------
(* Starting and ending a game *)

\* The constructor of Player leaves the position unset.
NewPlayer(name) ==
  [name |-> name, position |-> None, score |-> 0, action |-> None]

\* Slip: ++current_turn.
Turn0_preincrement(positions, initial) ==
  [turn |-> current_turn + 1, exploded |-> <<>>, moved |-> positions,
   bombs_placed |-> <<>>, blocks_placed |-> initial]

Turn0(positions, initial) ==
  [turn |-> current_turn, exploded |-> <<>>, moved |-> positions,
   bombs_placed |-> <<>>, blocks_placed |-> initial]

\* InitialBlocks random positions; one that is drawn again is skipped.
InitialBlockSets ==
  {bs \in SUBSET Cells : /\ Cardinality(bs) <= InitialBlocks
                         /\ InitialBlocks > 0 => bs # {}}

\* Slip: the clock is not notified.
notify_for_game_never == UNCHANGED clock

\* for_game.notify_one(): the clock looks at game_state again.
notify_for_game == clock' = IF clock = "parked" THEN "checking" ELSE clock

\* start_game, called by handle_join for the players ps; accepted is what
\* handle_join has sent before.
start_game(ps, accepted) ==
  \E positions \in [DOMAIN ps -> Cells], initial \in InitialBlockSets :
    /\ players' = [i \in DOMAIN ps |-> [ps[i] EXCEPT !.position = positions[i]]]
    /\ blocks' = blocks \cup initial
    /\ game_state' = "GAME"
    /\ current_turn' = (current_turn + 1) % TurnMod
    /\ game_turns' = Append(game_turns, Turn0(positions, initial))
    /\ Broadcast(<<accepted, GameStarted(ps),
                   TurnMessage(Turn0(positions, initial))>>)
    /\ notify_for_game
    /\ UNCHANGED <<bombs, bomb_count>>

\* Slip: the servers keep their seats after the game.
clear_game_state_seated ==
  /\ game_state' = "LOBBY"
  /\ game_turns' = <<>>
  /\ players' = <<>>
  /\ blocks' = {}
  /\ bombs' = <<>>
  /\ bomb_count' = 0
  /\ current_turn' = 0
  /\ UNCHANGED playing_servers

clear_game_state ==
  /\ game_state' = "LOBBY"
  /\ game_turns' = <<>>
  /\ playing_servers' = [s \in Servers |-> NotPlaying]
  /\ players' = <<>>
  /\ blocks' = {}
  /\ bombs' = <<>>
  /\ bomb_count' = 0
  /\ current_turn' = 0

-----------------------------------------------------------------------------
(* handle_server_message *)

is_playing(s) == game_state = "GAME" /\ playing_servers[s] # NotPlaying

\* Slip: joining is possible during a game.
may_join_anytime(s) == playing_servers[s] = NotPlaying

\* A JOIN is ignored during a game and from a server that already plays.
may_join(s) == game_state = "LOBBY" /\ playing_servers[s] = NotPlaying

handle_join(s, name) ==
  /\ may_join(s)
  /\ LET joined   == Append(players, NewPlayer(name))
         id       == Len(joined)
         accepted == Accepted(id, NewPlayer(name))
     IN /\ playing_servers' = [playing_servers EXCEPT ![s] = id]
        /\ \/ /\ id = PlayersCount
              /\ start_game(joined, accepted)
           \/ /\ id # PlayersCount
              /\ players' = joined
              /\ Broadcast(<<accepted>>)
              /\ UNCHANGED <<game_state, gameVars, clock>>

\* handle_move, handle_place_bomb and handle_place_block: the last action
\* asked for before the turn counts; without a seat it is ignored.
handle_action(s, action) ==
  /\ is_playing(s)
  /\ players' = [players EXCEPT ![playing_servers[s]].action = action]
  /\ UNCHANGED <<game_state, gameVars, playing_servers, clock, server_queues>>

\* Slip: a game that is on looks like a lobby.
Welcome_lobby ==
  <<Reset, Hello>> \o [i \in DOMAIN players |-> Accepted(i, players[i])]

\* What a server's new client is told after RESET_SERVER: in the lobby who has
\* joined, in a game the turns so far. The GAME_STARTED message is built there
\* and never pushed.
Welcome ==
  <<Reset, Hello>> \o
    IF game_state = "LOBBY"
    THEN [i \in DOMAIN players |-> Accepted(i, players[i])]
    ELSE [i \in DOMAIN game_turns |-> TurnMessage(game_turns[i])]

\* Slip: the server keeps the seat of its last client.
reset_server_seated(s) ==
  /\ server_queues' = [server_queues EXCEPT ![s] = @ \o Welcome]
  /\ UNCHANGED <<game_state, gameVars, playing_servers, players, clock>>

reset_server(s) ==
  /\ playing_servers' = [playing_servers EXCEPT ![s] = NotPlaying]
  /\ server_queues' = [server_queues EXCEPT ![s] = @ \o Welcome]
  /\ UNCHANGED <<game_state, gameVars, players, clock>>

-----------------------------------------------------------------------------
(* make_turn, run by the clock thread for ever *)

\* The test of game_state under the mutex: go on or wait on for_game.
ClockCheck ==
  /\ clock = "checking"
  /\ clock' = IF game_state = "GAME" THEN "sleeping" ELSE "parked"
  /\ UNCHANGED <<game_state, gameVars, playing_servers, players, server_queues>>

\* Slip: `if' in place of `while' around the wait.
SpuriousWakeup_if ==
  /\ clock = "parked"
  /\ clock' = "sleeping"
  /\ UNCHANGED <<game_state, gameVars, playing_servers, players, server_queues>>

\* A condition variable may wake without being notified.
SpuriousWakeup ==
  /\ clock = "parked"
  /\ clock' = "checking"
  /\ UNCHANGED <<game_state, gameVars, playing_servers, players, server_queues>>

\* Slip: the game ends with its last turn but one.
is_over_early(turn) == turn >= GameLength

\* The turn to come is not of the game any more.
is_over(turn) == turn > GameLength

\* After the sleep, under the mutex again; game_state is not looked at again.
make_turn ==
  /\ clock = "sleeping"
  /\ clock' = "checking"
  /\ \E respawn \in [DestroyedRobots(World) -> Cells] :
       LET turn  == TurnEvents(World, respawn, current_turn)
           after == Played(World, respawn)
           next  == (current_turn + 1) % TurnMod
       IN \/ /\ ~is_over(next)
             /\ players' = after.players
             /\ blocks' = after.blocks
             /\ bombs' = after.bombs
             /\ bomb_count' = after.bomb_count
             /\ current_turn' = next
             /\ game_turns' = Append(game_turns, turn)
             /\ Broadcast(<<TurnMessage(turn)>>)
             /\ UNCHANGED <<game_state, playing_servers>>
          \/ /\ is_over(next)       \* end_game
             /\ Broadcast(<<TurnMessage(turn), GameEnded(after.players)>>)
             /\ clear_game_state

-----------------------------------------------------------------------------
\* The server's threads take what was pushed to their queue.
ServerPop(s) ==
  /\ server_queues[s] # <<>>
  /\ server_queues' = [server_queues EXCEPT ![s] = Tail(@)]
  /\ UNCHANGED <<game_state, gameVars, playing_servers, players, clock>>

Init ==
  /\ game_state = "LOBBY"
  /\ game_turns = <<>>
  /\ playing_servers = [s \in Servers |-> NotPlaying]
  /\ players = <<>>
  /\ blocks = {}
  /\ bombs = <<>>
  /\ bomb_count = 0
  /\ current_turn = 0
  /\ clock = "checking"
  /\ server_queues = [s \in Servers |-> <<>>]

HasRoom == \A s \in Servers : Len(server_queues[s]) <= QueueBound

Join(s) == HasRoom /\ \E name \in Names : handle_join(s, name)

ResetServer(s) == HasRoom /\ reset_server(s)

Act(s) == \E action \in Inputs : handle_action(s, action)

Next ==
  \/ \E s \in Servers : Join(s) \/ Act(s) \/ ResetServer(s) \/ ServerPop(s)
  \/ ClockCheck
  \/ SpuriousWakeup
  \/ make_turn

\* The clock thread and the mutex it needs are never held up for ever; what
\* clients send, and whether a server takes its messages, is up to them.
Fairness == WF_vars(ClockCheck) /\ WF_vars(make_turn)

Spec == Init /\ [][Next]_vars

FairSpec == Spec /\ Fairness

-----------------------------------------------------------------------------
(* Types *)

IsSequence(q) == q \in Seq({q[i] : i \in DOMAIN q})

PlayerType == [name : Names, position : Cells \cup {None}, score : Nat,
               action : Action \cup {None}]

BombType == [position : Cells, timer : 0 .. TimeMod - 1]

TypeOK ==
  /\ game_state \in {"LOBBY", "GAME"}
  /\ IsSequence(game_turns)
  /\ playing_servers \in [Servers -> Nat]
  /\ players \in Seq(PlayerType)
  /\ blocks \subseteq Cells
  /\ \A b \in DOMAIN bombs : bombs[b] \in BombType
  /\ bomb_count \in Nat
  /\ current_turn \in 0 .. TurnMod - 1
  /\ clock \in {"checking", "parked", "sleeping"}
  /\ DOMAIN server_queues = Servers
  /\ \A s \in Servers : IsSequence(server_queues[s])

-----------------------------------------------------------------------------
(* Safety *)

\* Every server that plays controls a player of the vector, and no player is
\* controlled from two servers: players.at() never throws and nobody moves
\* someone else's robot, whatever joins, resets and games came before.
SeatsDistinct ==
  \A s \in Servers : playing_servers[s] # NotPlaying =>
    /\ playing_servers[s] \in DOMAIN players
    /\ \A t \in Servers \ {s} : playing_servers[t] # playing_servers[s]

\* The game is on exactly when the lobby is full. While it is on every robot
\* has been placed, so a position a Player was constructed without is never
\* read; in the lobby nothing of an earlier game is left.
GameIsFull ==
  /\ game_state = "GAME" <=> Len(players) = PlayersCount
  /\ game_state = "GAME" => \A i \in DOMAIN players : players[i].position \in Cells
  /\ game_state = "LOBBY" =>
       /\ Len(players) < PlayersCount
       /\ blocks = {} /\ bombs = <<>> /\ bomb_count = 0
       /\ \A i \in DOMAIN players : players[i].action = None /\ players[i].score = 0

\* The clock tests game_state, gives up the mutex, sleeps and plays a turn
\* without another test: the game is still on then.
NoTurnInLobby == clock = "sleeping" => game_state = "GAME"

\* The recorded turns are those of this game, without a gap, numbered from 0.
TurnsNumbered ==
  /\ current_turn = Len(game_turns) % TurnMod
  /\ \A k \in DOMAIN game_turns : game_turns[k].turn = (k - 1) % TurnMod
  /\ game_state = "LOBBY" <=> game_turns = <<>>

\* A bomb explodes BombTimer turns after it was placed, neither sooner nor
\* later, and nothing else explodes; k - Fuse is the turn it was placed. A
\* BombTimer of 0 is decreased before it is compared with 0: its bombs wait
\* until the timer has wrapped.
Fuse == IF BombTimer = 0 THEN TimeMod ELSE BombTimer

FuseExact ==
  \A k \in DOMAIN game_turns :
    DOMAIN game_turns[k].exploded =
      IF k - Fuse \in DOMAIN game_turns
      THEN DOMAIN game_turns[k - Fuse].bombs_placed
      ELSE {}

\* What a client must still be told, from the last message that gave it a
\* fresh start: the players of the lobby, or the turns of the game.
Marks == {"SC_HELLO", IF game_state = "GAME" THEN "SC_GAME_STARTED"
                      ELSE "SC_GAME_ENDED"}

Current ==
  IF game_state = "GAME"
  THEN [i \in DOMAIN game_turns |-> TurnMessage(game_turns[i])]
  ELSE [i \in DOMAIN players |-> Accepted(i, players[i])]

\* The last n messages of q are the last n of the current ones.
EndsWithCurrent(q, n) ==
  /\ n <= Len(q) /\ n <= Len(Current)
  /\ \A j \in 1 .. n :
       q[Len(q) - n + j] = Current[Len(Current) - n + j]

\* No server misses a player or a turn, and none gets one twice or out of
\* order: its queue ends with what is left of the current messages, all of
\* them if the message that starts them is still in the queue.
NothingMissed ==
  \A s \in Servers : \E n \in 0 .. Len(server_queues[s]) :
    /\ EndsWithCurrent(server_queues[s], n)
    /\ n < Len(server_queues[s]) =>
         /\ n = Len(Current)
         /\ server_queues[s][Len(server_queues[s]) - n].id \in Marks

-----------------------------------------------------------------------------
(* Action properties *)

\* Games go through the cycle GameCycle describes, players and turns one by one,
\* whatever leaves, joins late, is reset or wakes up in between; if
\* current_turn can exceed the length at all, see GamesEnd.
Cycle == INSTANCE GameCycle WITH
  Seats <- PlayersCount, Length <- GameLength,
  seated <- Len(players), played <- Len(game_turns)

IsGameCycle == Cycle!CycleSpec

\* A game that has ended left its scores with every server, and they are the
\* scores before the last turn plus at most one for each robot.
ScoresSent ==
  [][game_state = "GAME" /\ game_state' = "LOBBY" =>
       \A s \in Servers :
         LET m == server_queues'[s][Len(server_queues'[s])]
         IN /\ m.id = "SC_GAME_ENDED"
            /\ DOMAIN m.scores = DOMAIN players
            /\ \A i \in DOMAIN players :
                 m.scores[i] = players[i].score
                   + (IF i \in DestroyedRobots(World) THEN 1 ELSE 0)]_vars

-----------------------------------------------------------------------------
(* Liveness *)

\* A game that has started is played to its end: the clock is woken, or was
\* awake, however the start of the game and its test interleave. A length of
\* TurnMod - 1 is excluded: current_turn wraps to 0 before it exceeds it.
GamesEnd ==
  GameLength < TurnMod - 1 => (game_state = "GAME" ~> game_state = "LOBBY")
=============================================================================
