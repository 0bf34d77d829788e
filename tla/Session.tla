------------------------------ MODULE Session ------------------------------
(***************************************************************************)
(* Clients, server slots and the GameMaster together. A slot is one of the *)
(* threads handle_servers starts: it accepts a client, has the main loop   *)
(* reset it (client_connect), and serves the client until it is gone. What *)
(* the clients send reaches the main loop through game_master_queue.       *)
(*                                                                         *)
(* A message on its way to a client counts as still in its server's queue. *)
(* The threads of a slot's earlier clients may run on, as in ServerSlot;   *)
(* what they make of the slot's present client is left open. That they can *)
(* end the process is left out: what follows is about the time before.     *)
(***************************************************************************)
EXTENDS GameMaster, GameHandler, SequencesExt

CONSTANTS GmQueueBound,   \* bound: no gui input while game_master_queue is as long
          SentBound,      \* bound: nor while as much is on its way from the client
          OutlivedBound   \* bound: steps of a slot's threads after they are outlived

ASSUME SessionAssumption ==
  GmQueueBound \in Nat /\ SentBound \in Nat /\ OutlivedBound \in Nat

VARIABLES
  game_master_queue,   \* messages of all servers, for the main loop
  slot,                \* server -> what its thread does
  client,              \* server -> the client connected last
  outlived,            \* server -> steps threads of its earlier clients may take
  spoken_for           \* server -> a receiver of theirs has got in its client's way

threads == <<slot, outlived, spoken_for>>

sessionVars == <<vars, game_master_queue, client, threads>>

-----------------------------------------------------------------------------
(* The client *)

\* A client program when it has connected: state is the game_state its two
\* threads share; input is a gui message between the two tests of it.
NewClient(name) ==
  [state |-> "IDLE", name |-> name, roster |-> <<>>, view |-> NewView,
   input |-> None, sent |-> <<>>]

NoClient(name) == [NewClient(name) EXCEPT !.state = "CLOSED"]

Alive(c) == c.state \in {"IDLE", "IN_LOBBY", "IN_GAME"}

\* One that did not get the messages meant for it, or others too, may be in any
\* state and show anything; that this is so is all that is known of it.
Mislead(c) ==
  IF Alive(c)
  THEN [c EXCEPT !.state = "MISLED", !.roster = <<>>, !.view = NewView, !.input = None]
  ELSE c

Running(c) == Alive(c) \/ c.state = "MISLED"

\* One whose connection is closed exits; what it had sent is lost.
Cut(c) ==
  [c EXCEPT !.state = IF @ = "EXITED" THEN @ ELSE "CLOSED", !.input = None, !.sent = <<>>]

\* What clients send.
ClientMessages ==
  {[id |-> "CS_JOIN", name |-> name] : name \in Names}
    \cup {[id |-> "CS_ACTION", action |-> action] : action \in Inputs}

\* LobbyHandler::add_player
add_player(roster, player) ==
  [i \in DOMAIN roster \cup {player.id} |->
     IF i = player.id THEN player.name ELSE roster[i]]

\* Slip: the state of the game that ended is kept.
handle_game_ended_kept(c) == [c EXCEPT !.state = "IN_LOBBY", !.roster = <<>>]

\* The scores are read and dropped; both handlers start afresh.
handle_game_ended(c) ==
  [c EXCEPT !.state = "IN_LOBBY", !.roster = <<>>, !.view = NewView]

\* from_server_to_gui: what client c does with message m. A message that does
\* not fit the state is left by its first byte, so what follows is taken for
\* the next message. The only one the model meets is the first TURN of a game
\* (OnlyLateClientsExit): its next byte is 0, no message id but HELLO's, and
\* the program exits.
handle_message(c, m) ==
  CASE m.id = "SC_HELLO" /\ c.state = "IDLE" ->
         [c EXCEPT !.state = "IN_LOBBY"]
    [] m.id = "SC_ACCEPTED_PLAYER" /\ c.state = "IN_LOBBY" ->
         [c EXCEPT !.roster = add_player(@, m.player)]
    [] m.id = "SC_GAME_STARTED" /\ c.state = "IN_LOBBY" ->
         [c EXCEPT !.state = "IN_GAME", !.view = set_gamers(@, m.players)]
    [] m.id = "SC_TURN" /\ c.state = "IN_GAME" ->
         [c EXCEPT !.view = handle_turn(@, m.turn)]
    [] m.id = "SC_GAME_ENDED" /\ c.state = "IN_GAME" -> handle_game_ended(c)
    [] OTHER -> [c EXCEPT !.state = "EXITED"]

HasRoomFor(c) ==
  HasRoom /\ Len(game_master_queue) < GmQueueBound /\ Len(c.sent) < SentBound

\* from_gui_to_server, the first test of the state: in the lobby any input
\* means JOIN, otherwise the state is tested again.
GuiInput(s, action) ==
  LET c == client[s]
  IN /\ Alive(c) /\ c.input = None
     /\ HasRoomFor(c)
     /\ client' = [client EXCEPT ![s] =
          IF c.state = "IN_LOBBY"
          THEN [c EXCEPT !.sent = Append(@, [id |-> "CS_JOIN", name |-> c.name])]
          ELSE [c EXCEPT !.input = action]]
     /\ UNCHANGED <<vars, game_master_queue, threads>>

\* The second test, by then possibly of another state.
GuiForward(s) ==
  LET c == client[s]
  IN /\ Alive(c) /\ c.input # None
     /\ client' = [client EXCEPT ![s] =
          [c EXCEPT !.input = None,
                    !.sent = IF c.state = "IN_GAME"
                             THEN Append(@, [id |-> "CS_ACTION", action |-> c.input])
                             ELSE @]]
     /\ UNCHANGED <<vars, game_master_queue, threads>>

\* A client that was misled sends one or the other.
MisledInput(s) ==
  LET c == client[s]
  IN /\ c.state = "MISLED"
     /\ HasRoomFor(c)
     /\ \E m \in ClientMessages :
          /\ m.id = "CS_JOIN" => m.name = c.name
          /\ client' = [client EXCEPT ![s].sent = Append(@, m)]
     /\ UNCHANGED <<vars, game_master_queue, threads>>

\* The user ends the client program.
Close(s) ==
  /\ Running(client[s])
  /\ client' = [client EXCEPT ![s].state = "CLOSED", ![s].input = None]
  /\ UNCHANGED <<vars, game_master_queue, threads>>

-----------------------------------------------------------------------------
(* The threads of a slot *)

FromServer(s, message) == [server |-> s, message |-> message]

\* A client is accepted; client_connect asks the main loop for a reset.
Accept(s, name) ==
  /\ slot[s] = "accepting"
  /\ slot' = [slot EXCEPT ![s] = "resetting"]
  /\ client' = [client EXCEPT ![s] = NewClient(name)]
  /\ game_master_queue' = Append(game_master_queue, FromServer(s, Reset))
  /\ spoken_for' = [spoken_for EXCEPT ![s] = FALSE]
  /\ UNCHANGED <<vars, outlived>>

\* Slip: the first message is taken for the answer.
client_connect_undrained(s) ==
  /\ slot[s] = "resetting"
  /\ ServerPop(s)
  /\ slot' = [slot EXCEPT ![s] = "serving"]
  /\ UNCHANGED <<game_master_queue, client, outlived, spoken_for>>

\* client_connect drops what was left for the client before, up to the answer.
client_connect(s) ==
  /\ slot[s] = "resetting"
  /\ ServerPop(s)
  /\ slot' = [slot EXCEPT ![s] =
                IF Head(server_queues[s]) = Reset THEN "serving" ELSE @]
  /\ UNCHANGED <<game_master_queue, client, outlived, spoken_for>>

\* send_to_client, and the client's handling of the message if it is there.
send_to_client(s) ==
  /\ slot[s] = "serving"
  /\ ServerPop(s)
  /\ client' = IF Alive(client[s])
               THEN [client EXCEPT ![s] = handle_message(@, Head(server_queues[s]))]
               ELSE client
  /\ UNCHANGED <<game_master_queue, threads>>

\* receive_from_client passes on what a client sent, even if it has gone since.
receive_from_client(s) ==
  /\ slot[s] = "serving"
  /\ client[s].sent # <<>>
  /\ game_master_queue' =
       Append(game_master_queue, FromServer(s, Head(client[s].sent)))
  /\ client' = [client EXCEPT ![s].sent = Tail(@)]
  /\ UNCHANGED <<vars, threads>>

\* One of the two threads runs into an error and the socket is closed: what was
\* not received is lost, and a client that is still there exits. Both threads
\* are interrupted and neither is joined, so they may run on; a thread of an
\* earlier client may also count down the latch, or have garbled what is received.
Disconnect(s) ==
  /\ slot[s] = "serving"
  /\ ~Running(client[s]) \/ outlived[s] > 0 \/ spoken_for[s]
  /\ slot' = [slot EXCEPT ![s] = "accepting"]
  /\ client' = [client EXCEPT ![s] = Cut(@)]
  /\ outlived' = [outlived EXCEPT ![s] = OutlivedBound]
  /\ UNCHANGED <<vars, game_master_queue, spoken_for>>

\* A thread that was outlived takes a step.
OutlivedStep(s) ==
  /\ outlived[s] > 0
  /\ outlived' = [outlived EXCEPT ![s] = @ - 1]

\* A sender that was outlived takes a message, be it the answer to the reset, or
\* sends one it has taken, to nobody or to the present client.
OutlivedSender(s) ==
  /\ OutlivedStep(s)
  /\ ServerPop(s) \/ UNCHANGED vars
  /\ client' = [client EXCEPT ![s] = Mislead(@)]
  /\ UNCHANGED <<game_master_queue, slot, spoken_for>>

\* A receiver that was outlived pushes a message it has read; or it takes bytes
\* of the present client or leaves it some of its own, and then the client's
\* own receiver may read any message, too.
OutlivedReceiver(s) ==
  /\ OutlivedStep(s)
  /\ spoken_for' = [spoken_for EXCEPT ![s] = slot[s] # "accepting"]
  /\ \/ /\ Len(game_master_queue) < GmQueueBound
        /\ \E m \in ClientMessages :
             game_master_queue' = Append(game_master_queue, FromServer(s, m))
        /\ UNCHANGED client
     \/ /\ client[s].sent # <<>>
        /\ client' = [client EXCEPT ![s].sent = Tail(@)]
        /\ UNCHANGED game_master_queue
  /\ UNCHANGED <<vars, slot>>

-----------------------------------------------------------------------------
(* The main loop of handle_servers *)

\* handle_server_message. What GameMaster ignores changes nothing.
handle_server_message(s, m) ==
  \/ m.id = "RESET_SERVER" /\ reset_server(s)
  \/ m.id = "CS_JOIN" /\ handle_join(s, m.name)
  \/ m.id = "CS_JOIN" /\ ~may_join(s) /\ UNCHANGED vars
  \/ m.id = "CS_ACTION" /\ handle_action(s, m.action)
  \/ m.id = "CS_ACTION" /\ ~is_playing(s) /\ UNCHANGED vars

MainLoop ==
  /\ game_master_queue # <<>>
  /\ LET m == Head(game_master_queue) IN handle_server_message(m.server, m.message)
  /\ game_master_queue' = Tail(game_master_queue)
  /\ UNCHANGED <<threads, client>>

Clock ==
  /\ ClockCheck \/ SpuriousWakeup \/ make_turn
  /\ UNCHANGED <<game_master_queue, threads, client>>

SessionInit ==
  /\ Init
  /\ game_master_queue = <<>>
  /\ slot = [s \in Servers |-> "accepting"]
  /\ client \in [Servers -> {NoClient(name) : name \in Names}]
  /\ outlived = [s \in Servers |-> 0]
  /\ spoken_for = [s \in Servers |-> FALSE]

SessionNext ==
  \/ \E s \in Servers :
       \/ \E name \in Names : Accept(s, name)
       \/ client_connect(s)
       \/ send_to_client(s)
       \/ receive_from_client(s)
       \/ Disconnect(s)
       \/ OutlivedSender(s) \/ OutlivedReceiver(s)
       \/ \E action \in Inputs : GuiInput(s, action)
       \/ GuiForward(s) \/ MisledInput(s)
       \/ Close(s)
  \/ MainLoop
  \/ Clock

SessionSpec == SessionInit /\ [][SessionNext]_sessionVars

-----------------------------------------------------------------------------
(* Properties *)

\* Every client is kept up to date: were it to handle what is still on its way
\* to it, it would be in the lobby or the game the server is in, and show the
\* server's players, or its robots, blocks, bombs and scores. This has to hold
\* across closed games, other clients' joins and earlier clients of the slot.
\* A client that is about to exit is the subject of the next properties, and
\* nothing is said of one that threads of earlier clients have misled.
UpToDate(c) ==
  /\ c.state = IF game_state = "LOBBY" THEN "IN_LOBBY" ELSE "IN_GAME"
  /\ game_state = "LOBBY" =>
       /\ c.roster = [i \in DOMAIN players |-> players[i].name]
       /\ c.view = NewView
  /\ game_state = "GAME" =>
       /\ c.view.players = [i \in DOMAIN players |-> players[i].name]
       /\ c.view.player_positions = [i \in DOMAIN players |-> players[i].position]
       /\ c.view.scores = [i \in DOMAIN players |-> players[i].score]
       /\ c.view.blocks = blocks
       /\ c.view.bombs = bombs

ClientsFollow ==
  \A s \in Servers :
    slot[s] = "serving" /\ Alive(client[s]) =>
      LET c == FoldLeft(handle_message, client[s], server_queues[s])
      IN c.state # "EXITED" => UpToDate(c)

\* The player a slot controls while it serves a client is the one this client
\* joined as, not one an earlier client of the slot left behind in the lobby or
\* the game, nor one of its JOINs still in game_master_queue: unless a receiver
\* of an earlier client, which is interrupted and not joined, has spoken for the
\* present one.
SeatIsOwn ==
  \A s \in Servers :
    slot[s] = "serving" /\ ~spoken_for[s] /\ playing_servers[s] # NotPlaying =>
      players[playing_servers[s]].name = client[s].name

\* The scores a client is told at the end are those it counted itself.
ScoresAgree ==
  \A s \in Servers :
    /\ slot[s] = "serving" /\ client[s].state = "IN_GAME"
    /\ server_queues[s] # <<>> /\ Head(server_queues[s]).id = "SC_GAME_ENDED"
    => Head(server_queues[s]).scores = client[s].view.scores

\* A client only exits over the first turn of a game, and only one to whom no
\* player was announced: one that connected when the game was on already.
OnlyLateClientsExit ==
  [][\A s \in Servers :
       Alive(client[s]) /\ client'[s].state = "EXITED" =>
         /\ client[s].state = "IN_LOBBY" /\ client[s].roster = <<>>
         /\ Head(server_queues[s]).id = "SC_TURN"
         /\ Head(server_queues[s]).turn.turn = 0]_sessionVars

\* reset_server sends a new client the messages it needs, as its comment says:
\* none of them is a "Wrong message from server" for the client.
ClientsStay == \A s \in Servers : client[s].state # "EXITED"
=============================================================================
