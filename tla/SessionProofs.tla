---------------------------- MODULE SessionProofs ----------------------------
(***************************************************************************)
(* What clients can rely on, for any number of slots, players and clients. *)
(* Whose seat a slot's client has: the queues between them are followed    *)
(* from the request of client_connect to its answer. And what a client     *)
(* shows: what is queued for it is followed, message by message, from what *)
(* it shows now to what the server has. Threads of earlier clients may get *)
(* in between any number of times.                                         *)
(***************************************************************************)
EXTENDS Session, GameMasterProofs

-----------------------------------------------------------------------------
(* The invariant *)

\* What a client sends, and client_connect.
SentMessage(m) ==
  \/ m.id = "CS_JOIN" /\ m.name \in Names
  \/ m.id = "CS_ACTION" /\ m.action \in Inputs

ClientFields == {"state", "name", "roster", "view", "input", "sent"}

ClientOK(c) ==
  /\ DOMAIN c = ClientFields
  /\ c.name \in Names
  /\ c.input \in Inputs \cup {None}
  /\ IsSequence(c.sent)
  /\ \A i \in DOMAIN c.sent :
       /\ SentMessage(c.sent[i])
       /\ c.sent[i].id = "CS_JOIN" => c.sent[i].name = c.name

SessionTypes ==
  /\ IsSequence(game_master_queue)
  /\ \A i \in DOMAIN game_master_queue :
       /\ game_master_queue[i].server \in Servers
       /\ \/ game_master_queue[i].message.id = "RESET_SERVER"
          \/ SentMessage(game_master_queue[i].message)
  /\ slot \in [Servers -> {"accepting", "resetting", "serving"}]
  /\ DOMAIN client = Servers
  /\ \A s \in Servers : ClientOK(client[s])
  /\ outlived \in [Servers -> Nat]
  /\ spoken_for \in [Servers -> BOOLEAN]

\* What is in the queue of the main loop from a slot, and the requests among it.
From(s) == {i \in DOMAIN game_master_queue : game_master_queue[i].server = s}

Requests(s) == {i \in From(s) : game_master_queue[i].message.id = "RESET_SERVER"}

Answers(s) == {i \in DOMAIN server_queues[s] : server_queues[s][i].id = "RESET_SERVER"}

\* Between clients nothing asks for a reset or answers one.
AcceptingOK(s) ==
  slot[s] = "accepting" => Requests(s) = {} /\ Answers(s) = {}

\* One request or one answer is under way, or the answer has been taken. The
\* request is behind everything earlier clients sent; once it is taken nothing
\* of theirs is left, and the seat is free: unless a receiver was outlived.
ResettingOK(s) ==
  slot[s] = "resetting" =>
    /\ \A i, j \in Requests(s) : i = j
    /\ \A i, j \in Answers(s) : i = j
    /\ Requests(s) # {} => Answers(s) = {}
    /\ ~spoken_for[s] =>
         /\ \A i \in Requests(s) : \A j \in From(s) : j <= i
         /\ Requests(s) = {} => From(s) = {} /\ playing_servers[s] = NotPlaying

ServingOK(s) ==
  slot[s] = "serving" =>
    /\ Requests(s) = {} /\ Answers(s) = {}
    /\ ~spoken_for[s] =>
         /\ \A i \in From(s) : game_master_queue[i].message.id = "CS_JOIN" =>
              game_master_queue[i].message.name = client[s].name
         /\ playing_servers[s] # NotPlaying =>
              players[playing_servers[s]].name = client[s].name

SlotOK(s) == AcceptingOK(s) /\ ResettingOK(s) /\ ServingOK(s)

SInv == IInv /\ SessionTypes /\ \A s \in Servers : SlotOK(s)

LEMMA InitSession == SessionInit => SInv
<1> SUFFICES ASSUME SessionInit PROVE SInv
  OBVIOUS
<1>1. IInv
  BY InitInv DEF SessionInit
<1>2. /\ IsSequence(<<>>) /\ DOMAIN <<>> = {}
  BY EmptySequence
<1>3. ASSUME NEW s \in Servers PROVE ClientOK(client[s])
  <2>1. PICK name \in Names : client[s] = NoClient(name)
    BY DEF SessionInit
  <2>2. NoClient(name) = [state |-> "CLOSED", name |-> name, roster |-> <<>>,
                          view |-> NewView, input |-> None, sent |-> <<>>]
    BY DEF NoClient, NewClient
  <2> QED BY <1>2, <2>1, <2>2 DEF ClientOK, ClientFields
<1>4. SessionTypes
  BY <1>2, <1>3 DEF SessionInit, SessionTypes
<1>5. ASSUME NEW s \in Servers PROVE SlotOK(s)
  BY <1>2 DEF SessionInit, Init, SlotOK, AcceptingOK, ResettingOK, ServingOK,
              Requests, From, Answers
<1> QED BY <1>1, <1>4, <1>5 DEF SInv

-----------------------------------------------------------------------------
(* Sequences of messages *)

LEMMA AppendIndices ==
  ASSUME NEW q, NEW e, IsSequence(q)
  PROVE  /\ Len(q) \in Nat /\ DOMAIN q = 1 .. Len(q)
         /\ IsSequence(Append(q, e)) /\ DOMAIN Append(q, e) = 1 .. Len(q) + 1
         /\ \A i \in 1 .. Len(q) : Append(q, e)[i] = q[i]
         /\ Append(q, e)[Len(q) + 1] = e
<1>1. DOMAIN Append(q, e) = 1 .. Len(Append(q, e))
  BY AppendSequence, SequenceLen
<1> QED BY <1>1, AppendSequence, SequenceLen

-----------------------------------------------------------------------------
(* What the steps of the GameMaster do to seats and answers *)

NoReset(ms) == \A i \in DOMAIN ms : ms[i].id # "RESET_SERVER"

LEMMA BroadcastAnswers ==
  ASSUME TypeOK, NEW ms, IsSequence(ms), NoReset(ms), Broadcast(ms), NEW s \in Servers
  PROVE  Answers(s)' = Answers(s)
<1>1. server_queues'[s] = server_queues[s] \o ms /\ IsSequence(server_queues[s])
  BY DEF Broadcast, TypeOK
<1> DEFINE q == server_queues[s]
<1>2. /\ Len(q) \in Nat /\ DOMAIN q = 1 .. Len(q)
      /\ Len(ms) \in Nat /\ DOMAIN ms = 1 .. Len(ms)
      /\ DOMAIN (q \o ms) = 1 .. Len(q) + Len(ms)
      /\ \A i \in 1 .. Len(q) + Len(ms) :
           (q \o ms)[i] = IF i <= Len(q) THEN q[i] ELSE ms[i - Len(q)]
  BY <1>1, ConcatIndices
<1> DEFINE r == q \o ms
<1>3. \A i \in 1 .. Len(q) : i \in DOMAIN r /\ r[i] = q[i]
  BY <1>2
<1>4. ASSUME NEW i \in DOMAIN r, i \notin 1 .. Len(q) PROVE r[i].id # "RESET_SERVER"
  <2>1. i - Len(q) \in 1 .. Len(ms) /\ r[i] = ms[i - Len(q)]
    BY <1>2, <1>4
  <2> QED BY <1>2, <2>1 DEF NoReset
<1>5. server_queues'[s] = r
  BY <1>1
<1> HIDE DEF r
<1> QED BY <1>2, <1>3, <1>4, <1>5 DEF Answers

\* A seat that is still one belongs to the player it belonged to.
SeatKept(s) ==
  playing_servers'[s] # NotPlaying =>
    /\ playing_servers'[s] = playing_servers[s]
    /\ players'[playing_servers[s]].name = players[playing_servers[s]].name

LEMMA ShortNoReset ==
  ASSUME NEW a, NEW b, NEW c, a.id # "RESET_SERVER", b.id # "RESET_SERVER",
         c.id # "RESET_SERVER"
  PROVE  NoReset(<<a>>) /\ NoReset(<<a, b>>) /\ NoReset(<<a, b, c>>)
<1>1. NoReset(<<a>>)
  BY DEF NoReset
<1>2. NoReset(<<a, b>>)
  BY DEF NoReset
<1>3. NoReset(<<a, b, c>>)
  BY DEF NoReset
<1> QED BY <1>1, <1>2, <1>3

LEMMA MessageIds ==
  /\ Hello.id = "SC_HELLO" /\ Reset.id = "RESET_SERVER"
  /\ \A i, p : Accepted(i, p).id = "SC_ACCEPTED_PLAYER"
  /\ \A ps : GameStarted(ps).id = "SC_GAME_STARTED" /\ GameEnded(ps).id = "SC_GAME_ENDED"
  /\ \A t : TurnMessage(t).id = "SC_TURN"
BY DEF Hello, Reset, Accepted, GameStarted, GameEnded, TurnMessage

LEMMA ActionSeats ==
  ASSUME IInv, NEW s \in Servers, NEW action \in Action, handle_action(s, action)
  PROVE  \A t \in Servers : SeatKept(t) /\ Answers(t)' = Answers(t)
<1> DEFINE seat == playing_servers[s]
<1>1. /\ players' = [players EXCEPT ![seat].action = action]
      /\ UNCHANGED <<playing_servers, server_queues>>
      /\ seat \in DOMAIN players
  BY DEF handle_action, is_playing, IInv, SeatsDistinct
<1>2. players[seat] \in PlayerType
  BY <1>1, LenProperties, ElementOfSeq DEF IInv, TypeOK
<1>3. [players[seat] EXCEPT !.action = action].name = players[seat].name
  BY <1>2 DEF PlayerType
<1> HIDE DEF seat
<1>4. ASSUME NEW i \in DOMAIN players PROVE players'[i].name = players[i].name
  <2>1. players' = [players EXCEPT ![seat] = [players[seat] EXCEPT !.action = action]]
    BY <1>1
  <2> QED BY <1>1, <1>3, <2>1
<1>5. \A t \in Servers : playing_servers[t] # NotPlaying => playing_servers[t] \in DOMAIN players
  BY DEF IInv, SeatsDistinct
<1> QED BY <1>1, <1>4, <1>5 DEF SeatKept, Answers

LEMMA JoinSeats ==
  ASSUME IInv, NEW s \in Servers, NEW name \in Names, handle_join(s, name)
  PROVE  /\ \A t \in Servers \ {s} : SeatKept(t)
         /\ players'[playing_servers'[s]].name = name
         /\ \A t \in Servers : Answers(t)' = Answers(t)
<1> DEFINE ps == Joined(name)
           n == Len(players)
<1>1. /\ Seated(s, name)
      /\ \/ start_game(ps, Welcomed(name))
         \/ players' = ps /\ Broadcast(<<Welcomed(name)>>)
  BY DEF handle_join, Seated, Joined, Welcomed
<1>2. /\ ps \in Seq(PlayerType) /\ DOMAIN ps = 1 .. Len(ps) /\ Len(ps) \in Nat
      /\ n \in Nat /\ DOMAIN players = 1 .. n
  BY <1>1, JoinedPlayers, LenProperties DEF IInv, TypeOK
<1>3. NewPlayer(name) \in PlayerType /\ NewPlayer(name).name = name
  BY DEF NewPlayer, PlayerType
<1>4. /\ Len(ps) = n + 1 /\ ps[n + 1] = NewPlayer(name)
      /\ \A i \in 1 .. n : ps[i] = players[i]
  BY <1>3, AppendProperties DEF Joined, IInv, TypeOK
<1>5. \A i \in DOMAIN ps : ps[i] \in PlayerType
  BY <1>2, ElementOfSeq
<1> HIDE DEF ps, n
<1>6. (\A i \in DOMAIN ps : players'[i].name = ps[i].name)
      /\ \A t \in Servers : Answers(t)' = Answers(t)
  <2>1. CASE start_game(ps, Welcomed(name))
    <3>1. PICK positions, initial :
            /\ players' = [i \in DOMAIN ps |-> [ps[i] EXCEPT !.position = positions[i]]]
            /\ Broadcast(<<Welcomed(name), GameStarted(ps),
                           TurnMessage(Turn0(positions, initial))>>)
      BY <2>1 DEF start_game
    <3>2. \A i \in DOMAIN ps : [ps[i] EXCEPT !.position = positions[i]].name = ps[i].name
      BY <1>5 DEF PlayerType
    <3>3. \A i \in DOMAIN ps : players'[i].name = ps[i].name
      BY <3>1, <3>2
    <3>4. NoReset(<<Welcomed(name), GameStarted(ps), TurnMessage(Turn0(positions, initial))>>)
      BY ShortNoReset, MessageIds DEF Welcomed
    <3> QED BY <3>1, <3>3, <3>4, ShortSequences, BroadcastAnswers DEF IInv
  <2>2. CASE players' = ps /\ Broadcast(<<Welcomed(name)>>)
    <3>1. NoReset(<<Welcomed(name)>>)
      BY ShortNoReset, MessageIds DEF Welcomed
    <3> QED BY <2>2, <3>1, ShortSequences, BroadcastAnswers DEF IInv
  <2> QED BY <1>1, <2>1, <2>2
<1>7. playing_servers'[s] = n + 1
  BY <1>1, <1>4 DEF Seated, ps, IInv, TypeOK
<1>8. players'[n + 1].name = name
  BY <1>2, <1>3, <1>4, <1>6
<1>9. ASSUME NEW t \in Servers \ {s} PROVE SeatKept(t)
  <2>1. playing_servers'[t] = playing_servers[t]
    BY <1>1 DEF Seated, IInv, TypeOK
  <2>2. playing_servers[t] # NotPlaying => playing_servers[t] \in 1 .. n
    BY <1>2 DEF IInv, SeatsDistinct
  <2>3. \A i \in 1 .. n : i \in DOMAIN ps
    BY <1>2, <1>4
  <2> QED BY <1>4, <1>6, <2>1, <2>2, <2>3 DEF SeatKept
<1> QED BY <1>6, <1>7, <1>8, <1>9

LEMMA TurnSeats ==
  ASSUME IInv, make_turn
  PROVE  \A t \in Servers : SeatKept(t) /\ Answers(t)' = Answers(t)
<1>1. clock = "sleeping" /\ DOMAIN players = 1 .. Len(players) /\ Len(players) \in Nat
  BY LenProperties DEF make_turn, IInv, TypeOK
<1>2. PICK respawn \in [DestroyedRobots(World) -> Cells] :
        \/ /\ players' = Played(World, respawn).players
           /\ playing_servers' = playing_servers
           /\ Broadcast(<<TurnMessage(TurnEvents(World, respawn, current_turn))>>)
        \/ /\ clear_game_state
           /\ Broadcast(<<TurnMessage(TurnEvents(World, respawn, current_turn)),
                          GameEnded(Played(World, respawn).players)>>)
  BY DEF make_turn
<1>3. \A t \in Servers : Answers(t)' = Answers(t)
  <2>1. /\ NoReset(<<TurnMessage(TurnEvents(World, respawn, current_turn))>>)
        /\ NoReset(<<TurnMessage(TurnEvents(World, respawn, current_turn)),
                     GameEnded(Played(World, respawn).players)>>)
    BY ShortNoReset, MessageIds
  <2> QED BY <1>2, <2>1, ShortSequences, BroadcastAnswers DEF IInv
<1>4. ASSUME NEW i \in DOMAIN players
      PROVE  Played(World, respawn).players[i].name = players[i].name
  <2>1. WorldOK(World, Len(players)) /\ World.players = players
    BY <1>1, WorldInGame DEF IInv, NoTurnInLobby
  <2>2. \A j \in 1 .. Len(players) : players[j] \in PlayerType
    BY ElementOfSeq DEF IInv, TypeOK
  <2>3. \A j \in 1 .. Len(players) : World.players[j].score \in Nat
    BY <2>1, <2>2 DEF PlayerType
  <2>4. PICK pos \in Cells, point \in {0, 1} :
          PlayedPlayer(World, respawn, i) =
            PlayerAfter(World.players[i], pos, World.players[i].score + point)
    BY <1>1, <2>1, <2>3, PlayedPlayerType
  <2>5. Played(World, respawn).players[i] = PlayedPlayer(World, respawn, i)
    BY <1>1, <2>1, PlayedWorld
  <2> DEFINE p == players[i]
             points == players[i].score + point
  <2>6. PlayedPlayer(World, respawn, i) = PlayerAfter(p, pos, points)
    BY <2>1, <2>4
  <2>7. p \in PlayerType
    BY <1>1, <2>2
  <2> HIDE DEF p, points
  <2>8. PlayerAfter(p, pos, points).name = p.name
    BY <2>7 DEF PlayerAfter, PlayerType
  <2> QED BY <2>5, <2>6, <2>8 DEF p
<1>5. \A t \in Servers : playing_servers[t] # NotPlaying => playing_servers[t] \in DOMAIN players
  BY DEF IInv, SeatsDistinct
<1>6. CASE players' = Played(World, respawn).players /\ playing_servers' = playing_servers
  BY <1>3, <1>4, <1>5, <1>6 DEF SeatKept
<1>7. CASE clear_game_state
  BY <1>3, <1>7 DEF SeatKept, clear_game_state
<1> QED BY <1>2, <1>6, <1>7

LEMMA ResetSeats ==
  ASSUME IInv, NEW s \in Servers, reset_server(s)
  PROVE  /\ playing_servers'[s] = NotPlaying
         /\ \A t \in Servers : SeatKept(t)
         /\ \A t \in Servers \ {s} : Answers(t)' = Answers(t)
         /\ Answers(s) = {} => \A i, j \in Answers(s)' : i = j
<1>1. /\ playing_servers' = [playing_servers EXCEPT ![s] = NotPlaying]
      /\ players' = players
      /\ server_queues' = [server_queues EXCEPT ![s] = server_queues[s] \o Welcome]
  BY DEF reset_server
<1>2. playing_servers'[s] = NotPlaying /\ \A t \in Servers : SeatKept(t)
  BY <1>1 DEF SeatKept, IInv, TypeOK
<1>3. \A t \in Servers \ {s} : Answers(t)' = Answers(t)
  BY <1>1 DEF Answers, IInv, TypeOK
<1>4. ASSUME Answers(s) = {} PROVE \A i, j \in Answers(s)' : i = j
  <2>1. PICK rest : /\ Welcome = <<Reset, Hello>> \o rest
                    /\ IsSequence(rest) /\ NoReset(rest)
    <3>1. /\ DOMAIN players = 1 .. Len(players) /\ Len(players) \in Nat
          /\ DOMAIN game_turns = 1 .. Len(game_turns) /\ Len(game_turns) \in Nat
      BY LenProperties, SequenceLen DEF IInv, TypeOK
    <3> DEFINE a == [i \in DOMAIN players |-> Accepted(i, players[i])]
               b == [i \in DOMAIN game_turns |-> TurnMessage(game_turns[i])]
    <3>2. /\ a \in [1 .. Len(players) -> {Accepted(i, players[i]) : i \in DOMAIN players}]
          /\ b \in [1 .. Len(game_turns) -> {TurnMessage(game_turns[i]) : i \in DOMAIN game_turns}]
      BY <3>1
    <3>3. NoReset(a) /\ NoReset(b)
      <4>1. \A i \in DOMAIN a : a[i].id = "SC_ACCEPTED_PLAYER"
        BY MessageIds
      <4>2. \A i \in DOMAIN b : b[i].id = "SC_TURN"
        BY MessageIds
      <4> HIDE DEF a, b
      <4> QED BY <4>1, <4>2 DEF NoReset
    <3>4. Welcome = <<Reset, Hello>> \o (IF game_state = "LOBBY" THEN a ELSE b)
      BY DEF Welcome
    <3> HIDE DEF a, b
    <3>5. IsSequence(a) /\ IsSequence(b)
      BY <3>1, <3>2, FunctionSequence
    <3> QED BY <3>3, <3>4, <3>5
  <2> DEFINE q == server_queues[s]
             h == <<Reset, Hello>>
  <2>2. IsSequence(q) /\ IsSequence(h) /\ Len(h) = 2 /\ h[2] = Hello
    BY ShortSequences DEF IInv, TypeOK
  <2>3. server_queues'[s] = q \o Welcome
    BY <1>1 DEF IInv, TypeOK
  <2> HIDE DEF h
  <2>4. /\ IsSequence(h \o rest) /\ DOMAIN (h \o rest) = 1 .. 2 + Len(rest)
        /\ Len(rest) \in Nat
        /\ \A i \in 1 .. 2 + Len(rest) : (h \o rest)[i] = IF i <= 2 THEN h[i] ELSE rest[i - 2]
    <3>1. IsSequence(h) /\ IsSequence(rest)
      BY <2>1, <2>2
    <3>2. /\ IsSequence(h \o rest) /\ DOMAIN (h \o rest) = 1 .. Len(h) + Len(rest)
          /\ Len(rest) \in Nat
          /\ \A i \in 1 .. Len(h) + Len(rest) :
               (h \o rest)[i] = IF i <= Len(h) THEN h[i] ELSE rest[i - Len(h)]
      BY <3>1, ConcatIndices
    <3>3. Len(h) = 2
      BY <2>2
    <3> QED BY <3>2, <3>3
  <2> DEFINE w == h \o rest
  <2>5. Welcome = w
    BY <2>1 DEF h
  <2>6. \A i \in DOMAIN w : i # 1 => w[i].id # "RESET_SERVER"
    <3> SUFFICES ASSUME NEW i \in DOMAIN w, i # 1 PROVE w[i].id # "RESET_SERVER"
      OBVIOUS
    <3>1. CASE i = 2
      <4>1. w[i] = h[2]
        BY <2>4, <3>1
      <4> QED BY <2>2, <4>1, MessageIds
    <3>2. CASE i > 2
      <4>1. w[i] = rest[i - 2] /\ i - 2 \in 1 .. Len(rest)
        BY <2>4, <3>2
      <4>2. i - 2 \in DOMAIN rest
        BY <2>1, <4>1, SequenceLen
      <4> QED BY <2>1, <4>1, <4>2 DEF NoReset
    <3> QED BY <2>4, <3>1, <3>2
  <2> HIDE DEF w
  <2>7. IsSequence(w)
    BY <2>4 DEF w
  <2>8. /\ Len(q) \in Nat /\ DOMAIN q = 1 .. Len(q) /\ Len(w) \in Nat /\ DOMAIN w = 1 .. Len(w)
        /\ DOMAIN (q \o w) = 1 .. Len(q) + Len(w)
        /\ \A i \in 1 .. Len(q) + Len(w) :
             (q \o w)[i] = IF i <= Len(q) THEN q[i] ELSE w[i - Len(q)]
    BY <2>2, <2>7, ConcatIndices
  <2>9. \A i \in 1 .. Len(q) : q[i].id # "RESET_SERVER"
    BY <1>4, <2>8 DEF Answers
  <2> HIDE DEF q
  <2>10. ASSUME NEW i \in DOMAIN (q \o w), (q \o w)[i].id = "RESET_SERVER"
         PROVE  i = Len(q) + 1
    <3>1. CASE i <= Len(q)
      <4>1. i \in 1 .. Len(q) /\ (q \o w)[i] = q[i]
        BY <2>8, <3>1
      <4> QED BY <2>9, <2>10, <4>1
    <3>2. CASE i > Len(q)
      <4>1. i - Len(q) \in 1 .. Len(w) /\ (q \o w)[i] = w[i - Len(q)]
        BY <2>8, <3>2
      <4>2. i - Len(q) = 1
        BY <2>6, <2>8, <2>10, <4>1
      <4> QED BY <2>8, <4>2
    <3> QED BY <2>8, <3>1, <3>2
  <2>11. server_queues'[s] = q \o w
    BY <2>3, <2>5
  <2> QED BY <2>10, <2>11 DEF Answers
<1> QED BY <1>2, <1>3, <1>4

-----------------------------------------------------------------------------
(* Clients *)

\* A slot whose queues, seat and client's name stay.
LEMMA SlotKept ==
  ASSUME SInv, NEW s \in Servers, game_master_queue' = game_master_queue,
         slot'[s] = slot[s], spoken_for'[s] = spoken_for[s],
         client'[s].name = client[s].name, SeatKept(s), Answers(s)' = Answers(s)
  PROVE  SlotOK(s)'
<1>1. From(s)' = From(s) /\ Requests(s)' = Requests(s)
  BY DEF From, Requests
<1>2. AcceptingOK(s)'
  BY <1>1 DEF SInv, SlotOK, AcceptingOK
<1>3. ResettingOK(s)'
  BY <1>1 DEF SInv, SlotOK, ResettingOK, SeatKept
<1>4. ServingOK(s)'
  BY <1>1 DEF SInv, SlotOK, ServingOK, SeatKept
<1> QED BY <1>2, <1>3, <1>4 DEF SlotOK

LEMMA GameKept ==
  ASSUME SInv, UNCHANGED vars
  PROVE  IInv' /\ \A s \in Servers : SeatKept(s) /\ Answers(s)' = Answers(s)
<1>1. IInv'
  BY DEF SInv, IInv, TypeOK, SeatsDistinct, GameIsFull, NoTurnInLobby, TurnsNumbered, vars
<1> QED BY <1>1 DEF vars, SeatKept, Answers

\* The steps of a client alone change neither its name nor what it has sent but
\* for what it sends.
LEMMA ClientStep ==
  ASSUME SInv, NEW s \in Servers, UNCHANGED <<vars, game_master_queue, threads>>,
         NEW c, client' = [client EXCEPT ![s] = c], ClientOK(c), c.name = client[s].name
  PROVE  SInv'
<1>1. IInv' /\ \A t \in Servers : SeatKept(t) /\ Answers(t)' = Answers(t)
  BY GameKept DEF vars
<1>2. DOMAIN client' = Servers /\ \A t \in Servers : client'[t] = IF t = s THEN c ELSE client[t]
  BY DEF SInv, SessionTypes
<1>3. SessionTypes'
  BY <1>2 DEF SInv, SessionTypes, threads
<1>4. \A t \in Servers : SlotOK(t)'
  BY <1>1, <1>2, SlotKept DEF threads
<1> QED BY <1>1, <1>3, <1>4 DEF SInv

LEMMA SendsOK ==
  ASSUME NEW c, ClientOK(c), NEW m, SentMessage(m), m.id = "CS_JOIN" => m.name = c.name
  PROVE  /\ IsSequence(Append(c.sent, m))
         /\ \A i \in DOMAIN Append(c.sent, m) :
              /\ SentMessage(Append(c.sent, m)[i])
              /\ Append(c.sent, m)[i].id = "CS_JOIN" => Append(c.sent, m)[i].name = c.name
<1> DEFINE q == Append(c.sent, m)
           n == Len(c.sent)
<1>1. /\ n \in Nat /\ DOMAIN c.sent = 1 .. n
      /\ IsSequence(q) /\ DOMAIN q = 1 .. n + 1
      /\ \A i \in 1 .. n : q[i] = c.sent[i]
      /\ q[n + 1] = m
  BY AppendIndices DEF ClientOK
<1> HIDE DEF q, n
<1>2. ASSUME NEW i \in DOMAIN q
      PROVE  SentMessage(q[i]) /\ (q[i].id = "CS_JOIN" => q[i].name = c.name)
  <2>1. CASE i \in 1 .. n
    BY <1>1, <2>1 DEF ClientOK
  <2>2. CASE i = n + 1
    BY <1>1, <2>2
  <2> QED BY <1>1, <2>1, <2>2
<1>3. IsSequence(q)
  BY <1>1
<1> QED BY <1>2, <1>3 DEF q

LEMMA SentByClients == \A m \in ClientMessages : SentMessage(m)
BY DEF ClientMessages, SentMessage

LEMMA ClientInv ==
  ASSUME SInv, NEW s \in Servers,
         (\E action \in Inputs : GuiInput(s, action)) \/ GuiForward(s) \/ MisledInput(s) \/ Close(s)
  PROVE  SInv'
<1> DEFINE c == client[s]
<1>0. ClientOK(c)
  BY DEF SInv, SessionTypes
<1>1. CASE \E action \in Inputs : GuiInput(s, action)
  <2>1. PICK action \in Inputs : GuiInput(s, action)
    BY <1>1
  <2> DEFINE join == [id |-> "CS_JOIN", name |-> c.name]
             d == IF c.state = "IN_LOBBY"
                  THEN [c EXCEPT !.sent = Append(c.sent, join)]
                  ELSE [c EXCEPT !.input = action]
  <2>2. client' = [client EXCEPT ![s] = d] /\ UNCHANGED <<vars, game_master_queue, threads>>
    BY <2>1 DEF GuiInput
  <2>3. SentMessage(join) /\ join.name = c.name
    BY <1>0 DEF SentMessage, ClientOK
  <2> HIDE DEF c, join
  <2>4. ClientOK([c EXCEPT !.sent = Append(c.sent, join)])
        /\ [c EXCEPT !.sent = Append(c.sent, join)].name = c.name
    BY <1>0, <2>3, SendsOK DEF ClientOK, ClientFields
  <2>5. ClientOK([c EXCEPT !.input = action]) /\ [c EXCEPT !.input = action].name = c.name
    BY <1>0 DEF ClientOK, ClientFields
  <2>6. ClientOK(d) /\ d.name = c.name
    BY <2>4, <2>5
  <2> HIDE DEF d
  <2>7. d.name = client[s].name
    BY <2>6 DEF c
  <2> QED BY <2>2, <2>6, <2>7, ClientStep
<1>2. CASE GuiForward(s)
  <2> DEFINE act == [id |-> "CS_ACTION", action |-> c.input]
             q == IF c.state = "IN_GAME" THEN Append(c.sent, act) ELSE c.sent
             d == [c EXCEPT !.input = None, !.sent = q]
  <2>1. client' = [client EXCEPT ![s] = d] /\ UNCHANGED <<vars, game_master_queue, threads>>
        /\ c.input # None
    BY <1>2 DEF GuiForward
  <2>2. SentMessage(act) /\ act.id # "CS_JOIN"
    BY <1>0, <2>1 DEF SentMessage, ClientOK
  <2> HIDE DEF c, act
  <2>3. /\ IsSequence(q)
        /\ \A i \in DOMAIN q : SentMessage(q[i]) /\ (q[i].id = "CS_JOIN" => q[i].name = c.name)
    BY <1>0, <2>2, SendsOK DEF ClientOK
  <2> HIDE DEF q
  <2>4. ClientOK(d) /\ d.name = c.name
    BY <1>0, <2>3 DEF ClientOK, ClientFields
  <2> HIDE DEF d
  <2>5. d.name = client[s].name
    BY <2>4 DEF c
  <2> QED BY <2>1, <2>4, <2>5, ClientStep
<1>3. CASE Close(s)
  <2> DEFINE d == [c EXCEPT !.state = "CLOSED", !.input = None]
  <2>1. client' = [client EXCEPT ![s] = d] /\ UNCHANGED <<vars, game_master_queue, threads>>
    <3>1. client' = [client EXCEPT ![s].state = "CLOSED", ![s].input = None]
      BY <1>3 DEF Close
    <3>2. DOMAIN client = Servers
      BY DEF SInv, SessionTypes
    <3> QED BY <1>3, <3>1, <3>2 DEF Close
  <2> HIDE DEF c
  <2>2. ClientOK(d) /\ d.name = c.name
    BY <1>0 DEF ClientOK, ClientFields
  <2> HIDE DEF d
  <2>3. d.name = client[s].name
    BY <2>2 DEF c
  <2> QED BY <2>1, <2>2, <2>3, ClientStep
<1>4. CASE MisledInput(s)
  <2>1. PICK m \in ClientMessages :
          /\ m.id = "CS_JOIN" => m.name = c.name
          /\ client' = [client EXCEPT ![s].sent = Append(c.sent, m)]
    BY <1>4 DEF MisledInput
  <2> DEFINE d == [c EXCEPT !.sent = Append(c.sent, m)]
  <2>2. client' = [client EXCEPT ![s] = d] /\ UNCHANGED <<vars, game_master_queue, threads>>
    BY <1>4, <2>1 DEF MisledInput
  <2>3. SentMessage(m)
    BY SentByClients
  <2> HIDE DEF c
  <2>4. ClientOK(d) /\ d.name = c.name
    BY <1>0, <2>1, <2>3, SendsOK DEF ClientOK, ClientFields
  <2> HIDE DEF d
  <2>5. d.name = client[s].name
    BY <2>4 DEF c
  <2> QED BY <2>2, <2>4, <2>5, ClientStep
<1> QED BY <1>1, <1>2, <1>3, <1>4

-----------------------------------------------------------------------------
(* The threads of a slot *)

\* Pushing a message for the main loop.
LEMMA PushedFrom ==
  ASSUME SessionTypes, NEW n, n = Len(game_master_queue),
         NEW s \in Servers, NEW m, game_master_queue' = Append(game_master_queue, FromServer(s, m))
  PROVE  /\ n \in Nat /\ DOMAIN game_master_queue = 1 .. n
         /\ IsSequence(game_master_queue')
         /\ DOMAIN game_master_queue' = 1 .. n + 1
         /\ \A i \in 1 .. n : game_master_queue'[i] = game_master_queue[i]
         /\ game_master_queue'[n + 1].server = s /\ game_master_queue'[n + 1].message = m
         /\ \A t \in Servers : From(t) \subseteq 1 .. n
         /\ \A t \in Servers \ {s} : From(t)' = From(t) /\ Requests(t)' = Requests(t)
         /\ From(s)' = From(s) \cup {n + 1}
         /\ Requests(s)' = Requests(s) \cup (IF m.id = "RESET_SERVER" THEN {n + 1} ELSE {})
<1>1. /\ n \in Nat /\ DOMAIN game_master_queue = 1 .. n
      /\ IsSequence(game_master_queue')
      /\ DOMAIN game_master_queue' = 1 .. n + 1
      /\ \A i \in 1 .. n : game_master_queue'[i] = game_master_queue[i]
      /\ game_master_queue'[n + 1] = FromServer(s, m)
  BY AppendIndices DEF SessionTypes
<1>2. game_master_queue'[n + 1].server = s /\ game_master_queue'[n + 1].message = m
  BY <1>1 DEF FromServer
<1>3. \A i \in 1 .. n + 1 : i \in 1 .. n \/ i = n + 1
  BY <1>1
<1>4. n + 1 \in 1 .. n + 1 /\ n + 1 \notin 1 .. n /\ \A i \in 1 .. n : i \in 1 .. n + 1
  BY <1>1
<1>5. \A t \in Servers : From(t) \subseteq 1 .. n
  BY <1>1 DEF From
<1>6. \A t \in Servers \ {s} : From(t)' = From(t) /\ Requests(t)' = Requests(t)
  BY <1>1, <1>2, <1>3, <1>4 DEF From, Requests
<1>7. From(s)' = From(s) \cup {n + 1}
  BY <1>1, <1>2, <1>3, <1>4 DEF From
<1>8. Requests(s)' = Requests(s) \cup (IF m.id = "RESET_SERVER" THEN {n + 1} ELSE {})
  BY <1>1, <1>2, <1>3, <1>4 DEF From, Requests
<1> QED BY <1>1, <1>2, <1>5, <1>6, <1>7, <1>8

\* The other slots, when one pushes.
LEMMA OthersKept ==
  ASSUME SInv, NEW t \in Servers, From(t)' = From(t), Requests(t)' = Requests(t),
         \A i \in From(t) : game_master_queue'[i] = game_master_queue[i],
         slot'[t] = slot[t], spoken_for'[t] = spoken_for[t],
         client'[t].name = client[t].name, SeatKept(t), Answers(t)' = Answers(t)
  PROVE  SlotOK(t)'
<1>1. AcceptingOK(t)'
  BY DEF SInv, SlotOK, AcceptingOK
<1>2. ResettingOK(t)'
  BY DEF SInv, SlotOK, ResettingOK, SeatKept
<1>3. ServingOK(t)'
  <2>1. CASE slot[t] = "serving" /\ ~spoken_for[t]
    <3>1. /\ \A i \in From(t) : game_master_queue[i].message.id = "CS_JOIN" =>
               game_master_queue[i].message.name = client[t].name
          /\ playing_servers[t] # NotPlaying =>
               players[playing_servers[t]].name = client[t].name
      BY <2>1 DEF SInv, SlotOK, ServingOK
    <3>2. \A i \in From(t)' : game_master_queue'[i].message.id = "CS_JOIN" =>
            game_master_queue'[i].message.name = client'[t].name
      BY <3>1
    <3>3. playing_servers'[t] # NotPlaying =>
            players'[playing_servers'[t]].name = client'[t].name
      BY <3>1 DEF SeatKept
    <3>4. Requests(t)' = {} /\ Answers(t)' = {}
      BY <2>1 DEF SInv, SlotOK, ServingOK
    <3> QED BY <3>2, <3>3, <3>4 DEF ServingOK
  <2>2. CASE slot[t] # "serving" \/ spoken_for[t]
    BY <2>2 DEF SInv, SlotOK, ServingOK
  <2> QED BY <2>1, <2>2
<1> QED BY <1>1, <1>2, <1>3 DEF SlotOK

LEMMA AcceptInv ==
  ASSUME SInv, NEW s \in Servers, NEW name \in Names, Accept(s, name)
  PROVE  SInv'
<1>1. IInv' /\ \A t \in Servers : SeatKept(t) /\ Answers(t)' = Answers(t)
  BY GameKept DEF Accept
<1>2. PICK n : n = Len(game_master_queue)
  OBVIOUS
<1>3. game_master_queue' = Append(game_master_queue, FromServer(s, Reset))
  BY DEF Accept
<1>4. /\ n \in Nat /\ DOMAIN game_master_queue = 1 .. n
      /\ IsSequence(game_master_queue')
      /\ DOMAIN game_master_queue' = 1 .. n + 1
      /\ \A i \in 1 .. n : game_master_queue'[i] = game_master_queue[i]
      /\ game_master_queue'[n + 1].server = s /\ game_master_queue'[n + 1].message = Reset
      /\ \A t \in Servers : From(t) \subseteq 1 .. n
      /\ \A t \in Servers \ {s} : From(t)' = From(t) /\ Requests(t)' = Requests(t)
      /\ From(s)' = From(s) \cup {n + 1}
      /\ Requests(s)' = Requests(s) \cup (IF Reset.id = "RESET_SERVER" THEN {n + 1} ELSE {})
  BY <1>2, <1>3, PushedFrom DEF SInv
<1>5. /\ slot[s] = "accepting" /\ slot'[s] = "resetting"
      /\ slot' \in [Servers -> {"accepting", "resetting", "serving"}]
      /\ DOMAIN client' = Servers /\ client'[s] = NewClient(name)
      /\ outlived' = outlived /\ spoken_for' \in [Servers -> BOOLEAN]
      /\ \A t \in Servers \ {s} : /\ slot'[t] = slot[t] /\ client'[t] = client[t]
                                /\ spoken_for'[t] = spoken_for[t]
  BY DEF Accept, SInv, SessionTypes
<1>6. ClientOK(NewClient(name))
  BY EmptySequence DEF ClientOK, ClientFields, NewClient
<1>7. SessionTypes'
  <2>1. \A i \in DOMAIN game_master_queue' :
          /\ game_master_queue'[i].server \in Servers
          /\ \/ game_master_queue'[i].message.id = "RESET_SERVER"
             \/ SentMessage(game_master_queue'[i].message)
    <3> SUFFICES ASSUME NEW i \in DOMAIN game_master_queue'
                 PROVE  /\ game_master_queue'[i].server \in Servers
                        /\ \/ game_master_queue'[i].message.id = "RESET_SERVER"
                           \/ SentMessage(game_master_queue'[i].message)
      OBVIOUS
    <3>1. i \in 1 .. n \/ i = n + 1
      BY <1>4
    <3> QED BY <1>4, <3>1, MessageIds DEF SInv, SessionTypes
  <2>2. \A t \in Servers : ClientOK(client'[t])
    BY <1>5, <1>6 DEF SInv, SessionTypes
  <2> QED BY <1>4, <1>5, <2>1, <2>2 DEF SInv, SessionTypes
<1>8. ASSUME NEW t \in Servers \ {s} PROVE SlotOK(t)'
  BY <1>1, <1>4, <1>5, OthersKept
<1>9. SlotOK(s)'
  <2>1. Requests(s)' = {n + 1} /\ Answers(s)' = {}
    BY <1>1, <1>4, <1>5, MessageIds DEF SInv, SlotOK, AcceptingOK
  <2>2. \A j \in From(s)' : j <= n + 1
    BY <1>4
  <2>3. \A i, j \in Requests(s)' : i = j
    BY <2>1
  <2>4. \A i \in Requests(s)' : \A j \in From(s)' : j <= i
    BY <2>1, <2>2
  <2> QED BY <1>5, <2>1, <2>3, <2>4 DEF SlotOK, AcceptingOK, ResettingOK, ServingOK
<1> QED BY <1>1, <1>7, <1>8, <1>9 DEF SInv

\* A message of a client is taken from what it has sent.
LEMMA SentTaken ==
  ASSUME NEW c, ClientOK(c), c.sent # <<>>
  PROVE  LET d == [c EXCEPT !.sent = Tail(c.sent)]
         IN /\ SentMessage(Head(c.sent))
            /\ Head(c.sent).id = "CS_JOIN" => Head(c.sent).name = c.name
            /\ ClientOK(d) /\ d.name = c.name
<1> DEFINE d == [c EXCEPT !.sent = Tail(c.sent)]
           q == c.sent
<1>1. /\ IsSequence(q) /\ q # <<>>
      /\ \A i \in DOMAIN q : SentMessage(q[i]) /\ (q[i].id = "CS_JOIN" => q[i].name = c.name)
  BY DEF ClientOK
<1> HIDE DEF q
<1>2. /\ Head(q) = q[1] /\ 1 \in DOMAIN q
      /\ Len(q) \in Nat \ {0} /\ DOMAIN q = 1 .. Len(q)
      /\ IsSequence(Tail(q)) /\ DOMAIN Tail(q) = 1 .. Len(q) - 1
      /\ \A i \in 1 .. Len(q) - 1 : Tail(q)[i] = q[i + 1]
  BY <1>1, TailIndices
<1>3. \A i \in 1 .. Len(q) - 1 : i + 1 \in DOMAIN q
  BY <1>2
<1>4. /\ IsSequence(Tail(q))
      /\ \A i \in DOMAIN Tail(q) :
           SentMessage(Tail(q)[i]) /\ (Tail(q)[i].id = "CS_JOIN" => Tail(q)[i].name = c.name)
  BY <1>1, <1>2, <1>3
<1> DEFINE r == Tail(q)
<1>5. d = [c EXCEPT !.sent = r]
  BY DEF q
<1> HIDE DEF r, d
<1>6. ClientOK(d) /\ d.name = c.name
  <2>1. IsSequence(r) /\ \A i \in DOMAIN r :
           SentMessage(r[i]) /\ (r[i].id = "CS_JOIN" => r[i].name = c.name)
    BY <1>4 DEF r
  <2> QED BY <1>5, <2>1 DEF ClientOK, ClientFields
<1>7. SentMessage(Head(q)) /\ (Head(q).id = "CS_JOIN" => Head(q).name = c.name)
  BY <1>1, <1>2
<1> QED BY <1>6, <1>7 DEF q, d

LEMMA ReceiveInv ==
  ASSUME SInv, NEW s \in Servers, receive_from_client(s)
  PROVE  SInv'
<1> DEFINE m == Head(client[s].sent)
           c == client[s]
           d == [c EXCEPT !.sent = Tail(c.sent)]
<1>1. IInv' /\ \A t \in Servers : SeatKept(t) /\ Answers(t)' = Answers(t)
  BY GameKept DEF receive_from_client
<1>2. PICK n : n = Len(game_master_queue)
  OBVIOUS
<1>3. /\ game_master_queue' = Append(game_master_queue, FromServer(s, m))
      /\ slot[s] = "serving" /\ UNCHANGED threads /\ c.sent # <<>>
      /\ client' = [client EXCEPT ![s] = d]
  BY DEF receive_from_client
<1>4. ClientOK(c)
  BY DEF SInv, SessionTypes
<1> HIDE DEF c
<1>5. /\ SentMessage(Head(c.sent)) /\ (Head(c.sent).id = "CS_JOIN" => Head(c.sent).name = c.name)
      /\ ClientOK(d) /\ d.name = c.name
  BY <1>3, <1>4, SentTaken
<1>6. SentMessage(m) /\ (m.id = "CS_JOIN" => m.name = client[s].name) /\ d.name = client[s].name
  BY <1>5 DEF c
<1> HIDE DEF m, d
<1>7. /\ n \in Nat /\ DOMAIN game_master_queue = 1 .. n
      /\ IsSequence(game_master_queue')
      /\ DOMAIN game_master_queue' = 1 .. n + 1
      /\ \A i \in 1 .. n : game_master_queue'[i] = game_master_queue[i]
      /\ game_master_queue'[n + 1].server = s /\ game_master_queue'[n + 1].message = m
      /\ \A t \in Servers : From(t) \subseteq 1 .. n
      /\ \A t \in Servers \ {s} : From(t)' = From(t) /\ Requests(t)' = Requests(t)
      /\ From(s)' = From(s) \cup {n + 1}
      /\ Requests(s)' = Requests(s) \cup (IF m.id = "RESET_SERVER" THEN {n + 1} ELSE {})
  BY <1>2, <1>3, PushedFrom DEF SInv
<1>8. /\ DOMAIN client' = Servers /\ client'[s] = d
      /\ \A t \in Servers \ {s} : client'[t] = client[t]
  BY <1>3 DEF SInv, SessionTypes
<1>9. m.id # "RESET_SERVER"
  BY <1>6 DEF SentMessage
<1>10. SessionTypes'
  <2>1. ASSUME NEW i \in DOMAIN game_master_queue'
        PROVE  /\ game_master_queue'[i].server \in Servers
               /\ \/ game_master_queue'[i].message.id = "RESET_SERVER"
                  \/ SentMessage(game_master_queue'[i].message)
    <3>1. i \in 1 .. n \/ i = n + 1
      BY <1>7
    <3> QED BY <1>6, <1>7, <3>1 DEF SInv, SessionTypes
  <2>2. \A t \in Servers : ClientOK(client'[t])
    BY <1>5, <1>8 DEF SInv, SessionTypes
  <2> QED BY <1>3, <1>7, <1>8, <2>1, <2>2 DEF SInv, SessionTypes, threads
<1>11. ASSUME NEW t \in Servers \ {s} PROVE SlotOK(t)'
  BY <1>1, <1>3, <1>7, <1>8, OthersKept DEF threads
<1>12. SlotOK(s)'
  <2>1. Requests(s)' = {} /\ Answers(s)' = {}
    BY <1>1, <1>3, <1>7, <1>9 DEF SInv, SlotOK, ServingOK
  <2>2. ASSUME ~spoken_for[s], NEW i \in From(s)',
               game_master_queue'[i].message.id = "CS_JOIN"
        PROVE  game_master_queue'[i].message.name = client'[s].name
    <3>1. CASE i \in From(s)
      BY <1>3, <1>6, <1>7, <1>8, <2>2, <3>1 DEF SInv, SlotOK, ServingOK
    <3>2. CASE i = n + 1
      BY <1>6, <1>7, <1>8, <2>2, <3>2
    <3> QED BY <1>7, <2>2, <3>1, <3>2
  <2>3. ~spoken_for[s] /\ playing_servers'[s] # NotPlaying =>
          players'[playing_servers'[s]].name = client'[s].name
    BY <1>1, <1>3, <1>6, <1>8 DEF SInv, SlotOK, ServingOK, SeatKept
  <2>4. slot'[s] = "serving" /\ spoken_for' = spoken_for
    BY <1>3 DEF threads
  <2> QED BY <2>1, <2>2, <2>3, <2>4 DEF SlotOK, AcceptingOK, ResettingOK, ServingOK
<1> QED BY <1>1, <1>10, <1>11, <1>12 DEF SInv

LEMMA DisconnectInv ==
  ASSUME SInv, NEW s \in Servers, Disconnect(s)
  PROVE  SInv'
<1> DEFINE c == client[s]
           d == Cut(c)
<1>1. IInv' /\ \A t \in Servers : SeatKept(t) /\ Answers(t)' = Answers(t)
  BY GameKept DEF Disconnect
<1>2. /\ slot[s] = "serving" /\ slot'[s] = "accepting"
      /\ slot' \in [Servers -> {"accepting", "resetting", "serving"}]
      /\ DOMAIN client' = Servers /\ client'[s] = d
      /\ \A t \in Servers \ {s} : slot'[t] = slot[t] /\ client'[t] = client[t]
      /\ game_master_queue' = game_master_queue
      /\ outlived' \in [Servers -> Nat] /\ spoken_for' = spoken_for
  BY SessionAssumption DEF Disconnect, SInv, SessionTypes
<1>3. ClientOK(c)
  BY DEF SInv, SessionTypes
<1> HIDE DEF c
<1>4. ClientOK(d)
  BY <1>3, EmptySequence DEF ClientOK, ClientFields, Cut
<1>5. SessionTypes'
  BY <1>2, <1>4 DEF SInv, SessionTypes
<1>6. ASSUME NEW t \in Servers \ {s} PROVE SlotOK(t)'
  BY <1>1, <1>2, SlotKept
<1>7. Requests(s)' = {} /\ Answers(s)' = {}
  BY <1>1, <1>2 DEF SInv, SlotOK, ServingOK, Requests, From
<1>8. SlotOK(s)'
  BY <1>2, <1>7 DEF SlotOK, AcceptingOK, ResettingOK, ServingOK
<1> QED BY <1>1, <1>5, <1>6, <1>8 DEF SInv

\* A slot takes a message of its queue.
LEMMA Popped ==
  ASSUME SInv, NEW s \in Servers, ServerPop(s)
  PROVE  /\ IInv'
         /\ \A t \in Servers : SeatKept(t)
         /\ \A t \in Servers \ {s} : Answers(t)' = Answers(t)
         /\ \A i \in Answers(s)' : i \in Int /\ i + 1 \in Answers(s)
         /\ Head(server_queues[s]).id = "RESET_SERVER" => 1 \in Answers(s)
<1>1. IInv'
  BY ServerPopInv DEF SInv
<1>2. \A t \in Servers : SeatKept(t)
  BY DEF ServerPop, SeatKept
<1> DEFINE q == server_queues[s]
<1>3. /\ IsSequence(q) /\ q # <<>>
      /\ server_queues'[s] = Tail(q)
      /\ \A t \in Servers \ {s} : server_queues'[t] = server_queues[t]
  BY DEF ServerPop, SInv, IInv, TypeOK
<1>4. \A t \in Servers \ {s} : Answers(t)' = Answers(t)
  BY <1>3 DEF Answers
<1>5. /\ Head(q) = q[1] /\ 1 \in DOMAIN q
      /\ Len(q) \in Nat \ {0} /\ DOMAIN q = 1 .. Len(q)
      /\ DOMAIN Tail(q) = 1 .. Len(q) - 1
      /\ \A i \in 1 .. Len(q) - 1 : Tail(q)[i] = q[i + 1]
  BY <1>3, TailIndices
<1>6. ASSUME NEW i \in Answers(s)' PROVE i \in Int /\ i + 1 \in Answers(s)
  <2>1. i \in 1 .. Len(q) - 1 /\ Tail(q)[i].id = "RESET_SERVER"
    BY <1>3, <1>5 DEF Answers
  <2>2. i + 1 \in 1 .. Len(q)
    BY <1>5, <2>1
  <2> QED BY <1>5, <2>1, <2>2 DEF Answers
<1>7. Head(q).id = "RESET_SERVER" => 1 \in Answers(s)
  BY <1>5 DEF Answers
<1> QED BY <1>1, <1>2, <1>4, <1>6, <1>7

LEMMA ConnectInv ==
  ASSUME SInv, NEW s \in Servers, client_connect(s)
  PROVE  SInv'
<1>1. /\ IInv'
      /\ \A t \in Servers : SeatKept(t)
      /\ \A t \in Servers \ {s} : Answers(t)' = Answers(t)
      /\ \A i \in Answers(s)' : i \in Int /\ i + 1 \in Answers(s)
      /\ Head(server_queues[s]).id = "RESET_SERVER" => 1 \in Answers(s)
  BY Popped DEF client_connect
<1>2. /\ slot[s] = "resetting"
      /\ slot'[s] = IF Head(server_queues[s]) = Reset THEN "serving" ELSE "resetting"
      /\ slot' \in [Servers -> {"accepting", "resetting", "serving"}]
      /\ \A t \in Servers \ {s} : slot'[t] = slot[t]
      /\ game_master_queue' = game_master_queue /\ client' = client
      /\ outlived' = outlived /\ spoken_for' = spoken_for
  BY DEF client_connect, SInv, SessionTypes
<1>3. SessionTypes'
  BY <1>2 DEF SInv, SessionTypes
<1>4. ASSUME NEW t \in Servers \ {s} PROVE SlotOK(t)'
  BY <1>1, <1>2, SlotKept
<1>5. From(s)' = From(s) /\ Requests(s)' = Requests(s)
  BY <1>2 DEF From, Requests
<1>6. \A i, j \in Answers(s)' : i = j
  <2> SUFFICES ASSUME NEW i \in Answers(s)', NEW j \in Answers(s)' PROVE i = j
    OBVIOUS
  <2>1. i + 1 = j + 1 /\ i \in Int /\ j \in Int
    BY <1>1, <1>2 DEF SInv, SlotOK, ResettingOK
  <2> QED BY <2>1
<1>7. CASE Head(server_queues[s]) = Reset
  <2>1. 1 \in Answers(s)
    BY <1>1, <1>7, MessageIds
  <2>2. /\ Requests(s) = {}
        /\ ~spoken_for[s] => From(s) = {} /\ playing_servers[s] = NotPlaying
    BY <1>2, <2>1 DEF SInv, SlotOK, ResettingOK
  <2>3. Answers(s)' = {}
    <3>1. \A i \in Answers(s)' : i \in Int /\ i + 1 = 1
      BY <1>1, <1>2, <2>1 DEF SInv, SlotOK, ResettingOK
    <3>2. ASSUME NEW i \in Answers(s)' PROVE FALSE
      <4>1. i = 0
        BY <3>1
      <4>2. i \in DOMAIN server_queues'[s]
        BY DEF Answers
      <4>3. DOMAIN server_queues'[s] = 1 .. Len(server_queues'[s])
            /\ Len(server_queues'[s]) \in Nat
        BY <1>1, SequenceLen DEF IInv, TypeOK
      <4> QED BY <4>1, <4>2, <4>3
    <3> QED BY <3>2
  <2>4. ~spoken_for[s] => playing_servers'[s] = NotPlaying
    BY <1>1, <2>2 DEF SeatKept
  <2>5. slot'[s] = "serving"
    BY <1>2, <1>7
  <2>6. SlotOK(s)'
    BY <1>2, <1>5, <2>2, <2>3, <2>4, <2>5 DEF SlotOK, AcceptingOK, ResettingOK, ServingOK
  <2> QED BY <1>1, <1>3, <1>4, <2>6 DEF SInv
<1>8. CASE Head(server_queues[s]) # Reset
  <2>1. slot'[s] = "resetting"
    BY <1>2, <1>8
  <2>2. Answers(s) = {} => Answers(s)' = {}
    BY <1>1
  <2>3. playing_servers[s] = NotPlaying => playing_servers'[s] = NotPlaying
    BY <1>1 DEF SeatKept
  <2>4. ResettingOK(s)'
    BY <1>2, <1>5, <1>6, <2>2, <2>3 DEF SInv, SlotOK, ResettingOK
  <2>5. SlotOK(s)'
    BY <2>1, <2>4 DEF SlotOK, AcceptingOK, ServingOK
  <2> QED BY <1>1, <1>3, <1>4, <2>5 DEF SInv
<1> QED BY <1>7, <1>8

LEMMA HandlingOK ==
  ASSUME NEW c, ClientOK(c), NEW m
  PROVE  ClientOK(handle_message(c, m)) /\ handle_message(c, m).name = c.name
<1> DEFINE d == handle_message(c, m)
<1>1. /\ DOMAIN d = ClientFields
      /\ d.name = c.name /\ d.input = c.input /\ d.sent = c.sent
  BY DEF handle_message, handle_game_ended, ClientOK, ClientFields
<1> HIDE DEF d
<1>2. ClientOK(d) /\ d.name = c.name
  BY <1>1 DEF ClientOK
<1> QED BY <1>2 DEF d

LEMMA SendInv ==
  ASSUME SInv, NEW s \in Servers, send_to_client(s)
  PROVE  SInv'
<1>1. /\ IInv'
      /\ \A t \in Servers : SeatKept(t)
      /\ \A t \in Servers \ {s} : Answers(t)' = Answers(t)
      /\ \A i \in Answers(s)' : i \in Int /\ i + 1 \in Answers(s)
  BY Popped DEF send_to_client
<1>2. PICK d : /\ ClientOK(d) /\ d.name = client[s].name
               /\ DOMAIN client' = Servers
               /\ \A t \in Servers : client'[t] = IF t = s THEN d ELSE client[t]
  <2>1. ClientOK(client[s])
    BY DEF SInv, SessionTypes
  <2>2. CASE Alive(client[s])
    <3>1. client' = [client EXCEPT ![s] = handle_message(client[s], Head(server_queues[s]))]
      BY <2>2 DEF send_to_client
    <3>2. DOMAIN client = Servers
      BY DEF SInv, SessionTypes
    <3> QED BY <2>1, <3>1, <3>2, HandlingOK
  <2>3. CASE ~Alive(client[s])
    <3>1. client' = client /\ DOMAIN client = Servers
      BY <2>3 DEF send_to_client, SInv, SessionTypes
    <3> QED BY <2>1, <3>1
  <2> QED BY <2>2, <2>3
<1>3. /\ slot[s] = "serving" /\ slot' = slot /\ game_master_queue' = game_master_queue
      /\ outlived' = outlived /\ spoken_for' = spoken_for
  BY DEF send_to_client, threads
<1>4. SessionTypes'
  BY <1>2, <1>3 DEF SInv, SessionTypes
<1>5. Answers(s)' = Answers(s)
  <2>1. Answers(s) = {}
    BY <1>3 DEF SInv, SlotOK, ServingOK
  <2> QED BY <1>1, <2>1
<1>6. \A t \in Servers : SlotOK(t)'
  BY <1>1, <1>2, <1>3, <1>5, SlotKept
<1> QED BY <1>1, <1>4, <1>6 DEF SInv

-----------------------------------------------------------------------------
(* The threads that were outlived *)

LEMMA MisleadOK ==
  ASSUME NEW c, ClientOK(c)
  PROVE  ClientOK(Mislead(c)) /\ Mislead(c).name = c.name
<1> DEFINE d == Mislead(c)
<1>1. /\ DOMAIN d = ClientFields
      /\ d.name = c.name /\ d.input \in {c.input, None} /\ d.sent = c.sent
  BY DEF Mislead, ClientOK, ClientFields
<1> HIDE DEF d
<1>2. ClientOK(d) /\ d.name = c.name
  BY <1>1 DEF ClientOK
<1> QED BY <1>2 DEF d

LEMMA AnswersPopped ==
  ASSUME SInv, NEW s \in Servers, ServerPop(s)
  PROVE  /\ Answers(s) = {} => Answers(s)' = {}
         /\ (\A i, j \in Answers(s) : i = j) => \A i, j \in Answers(s)' : i = j
<1>1. \A i \in Answers(s)' : i \in Int /\ i + 1 \in Answers(s)
  BY Popped
<1>2. ASSUME \A i, j \in Answers(s) : i = j, NEW i \in Answers(s)', NEW j \in Answers(s)'
      PROVE  i = j
  <2>1. i + 1 = j + 1 /\ i \in Int /\ j \in Int
    BY <1>1, <1>2
  <2> QED BY <2>1
<1> QED BY <1>1, <1>2

LEMMA OutlivedSenderInv ==
  ASSUME SInv, NEW s \in Servers, OutlivedSender(s)
  PROVE  SInv'
<1> DEFINE d == Mislead(client[s])
<1>1. /\ ServerPop(s) \/ UNCHANGED vars
      /\ client' = [client EXCEPT ![s] = d]
      /\ outlived[s] > 0 /\ outlived' = [outlived EXCEPT ![s] = outlived[s] - 1]
      /\ UNCHANGED <<game_master_queue, slot, spoken_for>>
  BY DEF OutlivedSender, OutlivedStep
<1>2. ClientOK(d) /\ d.name = client[s].name
  BY MisleadOK DEF SInv, SessionTypes
<1> HIDE DEF d
<1>3. /\ DOMAIN client' = Servers
      /\ \A t \in Servers : client'[t] = IF t = s THEN d ELSE client[t]
  BY <1>1 DEF SInv, SessionTypes
<1>4. \A t \in Servers : ClientOK(client'[t]) /\ client'[t].name = client[t].name
  BY <1>2, <1>3 DEF SInv, SessionTypes
<1>5. outlived' \in [Servers -> Nat]
  BY <1>1 DEF SInv, SessionTypes
<1>6. SessionTypes'
  BY <1>1, <1>3, <1>4, <1>5 DEF SInv, SessionTypes
<1>7. /\ IInv'
      /\ \A t \in Servers : SeatKept(t)
      /\ \A t \in Servers \ {s} : Answers(t)' = Answers(t)
      /\ Answers(s) = {} => Answers(s)' = {}
      /\ (\A i, j \in Answers(s) : i = j) => \A i, j \in Answers(s)' : i = j
  <2>1. CASE ServerPop(s)
    BY <2>1, Popped, AnswersPopped
  <2>2. CASE UNCHANGED vars
    BY <2>2, GameKept
  <2> QED BY <1>1, <2>1, <2>2
<1>8. ASSUME NEW t \in Servers \ {s} PROVE SlotOK(t)'
  BY <1>1, <1>4, <1>7, SlotKept
<1>9. SlotOK(s)'
  <2>1. From(s)' = From(s) /\ Requests(s)' = Requests(s)
    BY <1>1 DEF From, Requests
  <2>2. AcceptingOK(s)'
    BY <1>1, <1>7, <2>1 DEF SInv, SlotOK, AcceptingOK
  <2>3. ResettingOK(s)'
    <3>1. slot[s] = "resetting" =>
            /\ \A i, j \in Requests(s) : i = j
            /\ \A i, j \in Answers(s) : i = j
            /\ Requests(s) # {} => Answers(s) = {}
            /\ ~spoken_for[s] =>
                 /\ \A i \in Requests(s) : \A j \in From(s) : j <= i
                 /\ Requests(s) = {} => From(s) = {} /\ playing_servers[s] = NotPlaying
      BY DEF SInv, SlotOK, ResettingOK
    <3>2. playing_servers[s] = NotPlaying => playing_servers'[s] = NotPlaying
      BY <1>7 DEF SeatKept
    <3> QED BY <1>1, <1>7, <2>1, <3>1, <3>2 DEF ResettingOK
  <2>4. ServingOK(s)'
    BY <1>1, <1>4, <1>7, <2>1 DEF SInv, SlotOK, ServingOK, SeatKept
  <2> QED BY <2>2, <2>3, <2>4 DEF SlotOK
<1> QED BY <1>6, <1>7, <1>8, <1>9 DEF SInv

LEMMA OutlivedReceiverInv ==
  ASSUME SInv, NEW s \in Servers, OutlivedReceiver(s)
  PROVE  SInv'
<1>1. /\ outlived[s] > 0 /\ outlived' = [outlived EXCEPT ![s] = outlived[s] - 1]
      /\ spoken_for' = [spoken_for EXCEPT ![s] = slot[s] # "accepting"]
      /\ UNCHANGED <<vars, slot>>
  BY DEF OutlivedReceiver, OutlivedStep
<1>2. IInv' /\ \A t \in Servers : SeatKept(t) /\ Answers(t)' = Answers(t)
  BY <1>1, GameKept
<1>3. outlived' \in [Servers -> Nat] /\ spoken_for' \in [Servers -> BOOLEAN]
  BY <1>1 DEF SInv, SessionTypes
<1>4. /\ spoken_for'[s] <=> slot[s] # "accepting"
      /\ \A t \in Servers \ {s} : spoken_for'[t] = spoken_for[t]
  BY <1>1 DEF SInv, SessionTypes
<1>5. ASSUME Requests(s)' = Requests(s) PROVE SlotOK(s)'
  <2>1. AcceptingOK(s)'
    BY <1>1, <1>2, <1>5 DEF SInv, SlotOK, AcceptingOK
  <2>2. ResettingOK(s)'
    BY <1>1, <1>2, <1>4, <1>5 DEF SInv, SlotOK, ResettingOK
  <2>3. ServingOK(s)'
    BY <1>1, <1>2, <1>4, <1>5 DEF SInv, SlotOK, ServingOK
  <2> QED BY <2>1, <2>2, <2>3 DEF SlotOK
<1>6. ASSUME NEW m \in ClientMessages, UNCHANGED client,
             game_master_queue' = Append(game_master_queue, FromServer(s, m))
      PROVE  SInv'
  <2>1. PICK n : n = Len(game_master_queue)
    OBVIOUS
  <2>2. SentMessage(m) /\ m.id # "RESET_SERVER"
    BY SentByClients DEF ClientMessages
  <2>3. /\ n \in Nat /\ DOMAIN game_master_queue = 1 .. n
        /\ IsSequence(game_master_queue')
        /\ DOMAIN game_master_queue' = 1 .. n + 1
        /\ \A i \in 1 .. n : game_master_queue'[i] = game_master_queue[i]
        /\ game_master_queue'[n + 1].server = s /\ game_master_queue'[n + 1].message = m
        /\ \A t \in Servers : From(t) \subseteq 1 .. n
        /\ \A t \in Servers \ {s} : From(t)' = From(t) /\ Requests(t)' = Requests(t)
        /\ From(s)' = From(s) \cup {n + 1}
        /\ Requests(s)' = Requests(s) \cup (IF m.id = "RESET_SERVER" THEN {n + 1} ELSE {})
    BY <1>6, <2>1, PushedFrom DEF SInv
  <2>4. SessionTypes'
    <3>1. ASSUME NEW i \in DOMAIN game_master_queue'
          PROVE  /\ game_master_queue'[i].server \in Servers
                 /\ \/ game_master_queue'[i].message.id = "RESET_SERVER"
                    \/ SentMessage(game_master_queue'[i].message)
      <4>1. i \in 1 .. n \/ i = n + 1
        BY <2>3
      <4> QED BY <2>2, <2>3, <4>1 DEF SInv, SessionTypes
    <3> QED BY <1>1, <1>3, <1>6, <2>3, <3>1 DEF SInv, SessionTypes
  <2>5. ASSUME NEW t \in Servers \ {s} PROVE SlotOK(t)'
    BY <1>1, <1>2, <1>4, <1>6, <2>3, OthersKept
  <2>6. SlotOK(s)'
    BY <1>5, <2>2, <2>3
  <2> QED BY <1>2, <2>4, <2>5, <2>6 DEF SInv
<1>7. ASSUME client[s].sent # <<>>, UNCHANGED game_master_queue,
             client' = [client EXCEPT ![s].sent = Tail(client[s].sent)]
      PROVE  SInv'
  <2> DEFINE c == client[s]
             d == [c EXCEPT !.sent = Tail(c.sent)]
  <2>1. client' = [client EXCEPT ![s] = d] /\ c.sent # <<>> /\ ClientOK(c)
    BY <1>7 DEF SInv, SessionTypes
  <2> HIDE DEF c
  <2>2. ClientOK(d) /\ d.name = c.name
    BY <2>1, SentTaken
  <2> HIDE DEF d
  <2>3. /\ DOMAIN client' = Servers
        /\ \A t \in Servers : client'[t] = IF t = s THEN d ELSE client[t]
    BY <2>1 DEF SInv, SessionTypes
  <2>4. SessionTypes'
    BY <1>1, <1>3, <1>7, <2>2, <2>3 DEF SInv, SessionTypes
  <2>5. ASSUME NEW t \in Servers \ {s} PROVE SlotOK(t)'
    BY <1>1, <1>2, <1>4, <1>7, <2>3, SlotKept
  <2>6. SlotOK(s)'
    BY <1>5, <1>7 DEF Requests, From
  <2> QED BY <1>2, <2>4, <2>5, <2>6 DEF SInv
<1> QED BY <1>6, <1>7 DEF OutlivedReceiver

-----------------------------------------------------------------------------
(* The main loop and the clock *)

\* The main loop takes a message of s.
LEMMA TakenFrom ==
  ASSUME SInv, NEW n, n = Len(game_master_queue), game_master_queue # <<>>,
         game_master_queue' = Tail(game_master_queue)
  PROVE  /\ n \in Nat \ {0} /\ DOMAIN game_master_queue = 1 .. n
         /\ Head(game_master_queue) = game_master_queue[1]
         /\ 1 \in From(game_master_queue[1].server)
         /\ IsSequence(game_master_queue')
         /\ DOMAIN game_master_queue' = 1 .. n - 1
         /\ \A i \in 1 .. n - 1 : game_master_queue'[i] = game_master_queue[i + 1]
                                 /\ i + 1 \in 1 .. n
         /\ \A t \in Servers : \A i \in From(t)' : i \in 1 .. n - 1 /\ i + 1 \in From(t)
         /\ \A t \in Servers : \A i \in Requests(t)' : i \in 1 .. n - 1 /\ i + 1 \in Requests(t)
         /\ \A t \in Servers : \A i \in Requests(t) : i # 1 => i - 1 \in Requests(t)'
<1>1. /\ n \in Nat \ {0} /\ DOMAIN game_master_queue = 1 .. n
      /\ Head(game_master_queue) = game_master_queue[1] /\ 1 \in DOMAIN game_master_queue
      /\ IsSequence(game_master_queue')
      /\ DOMAIN game_master_queue' = 1 .. n - 1
      /\ \A i \in 1 .. n - 1 : game_master_queue'[i] = game_master_queue[i + 1]
  BY TailIndices DEF SInv, SessionTypes
<1>2. \A i \in 1 .. n - 1 : i + 1 \in 1 .. n
  BY <1>1
<1>3. \A i \in 1 .. n : i # 1 => i - 1 \in 1 .. n - 1 /\ (i - 1) + 1 = i
  BY <1>1
<1>4. \A t \in Servers : \A i \in From(t)' : i \in 1 .. n - 1 /\ i + 1 \in From(t)
  BY <1>1, <1>2 DEF From
<1>5. \A t \in Servers : \A i \in Requests(t)' : i \in 1 .. n - 1 /\ i + 1 \in Requests(t)
  BY <1>1, <1>2 DEF From, Requests
<1>6. ASSUME NEW t \in Servers, NEW i \in Requests(t), i # 1 PROVE i - 1 \in Requests(t)'
  <2>1. i \in 1 .. n /\ game_master_queue[i].server = t
        /\ game_master_queue[i].message.id = "RESET_SERVER"
    BY <1>1 DEF From, Requests
  <2>2. i - 1 \in 1 .. n - 1 /\ game_master_queue'[i - 1] = game_master_queue[i]
    BY <1>1, <1>3, <1>6, <2>1
  <2> QED BY <1>1, <2>1, <2>2 DEF From, Requests
<1>7. 1 \in From(game_master_queue[1].server)
  BY <1>1 DEF From
<1> QED BY <1>1, <1>2, <1>4, <1>5, <1>6, <1>7

\* A slot, when the main loop takes a message that is no reset of this slot.
LEMMA TakenSlot ==
  ASSUME SInv, game_master_queue # <<>>, game_master_queue' = Tail(game_master_queue),
         UNCHANGED <<threads, client>>, NEW t \in Servers, 1 \notin Requests(t),
         Answers(t)' = Answers(t),
         \/ SeatKept(t)
         \/ /\ 1 \in From(t)
            /\ slot[t] = "serving" /\ ~spoken_for[t] =>
                 players'[playing_servers'[t]].name = client[t].name
  PROVE  SlotOK(t)'
<1>1. PICK n : n = Len(game_master_queue)
  OBVIOUS
<1>2. /\ n \in Nat \ {0}
      /\ \A i \in 1 .. n - 1 : game_master_queue'[i] = game_master_queue[i + 1]
      /\ \A i \in From(t)' : i \in 1 .. n - 1 /\ i + 1 \in From(t)
      /\ \A i \in Requests(t)' : i \in 1 .. n - 1 /\ i + 1 \in Requests(t)
      /\ \A i \in Requests(t) : i # 1 => i - 1 \in Requests(t)'
  BY <1>1, TakenFrom
<1>3. Requests(t)' = {} <=> Requests(t) = {}
  BY <1>2
<1>7. slot' = slot /\ spoken_for' = spoken_for /\ client' = client
  BY DEF threads
<1>4. AcceptingOK(t)'
  BY <1>3, <1>7 DEF SInv, SlotOK, AcceptingOK
<1>5. ResettingOK(t)'
  <2> SUFFICES ASSUME slot[t] = "resetting"
               PROVE  /\ \A i, j \in Requests(t)' : i = j
                      /\ \A i, j \in Answers(t)' : i = j
                      /\ Requests(t)' # {} => Answers(t)' = {}
                      /\ ~spoken_for[t] =>
                           /\ \A i \in Requests(t)' : \A j \in From(t)' : j <= i
                           /\ Requests(t)' = {} =>
                                From(t)' = {} /\ playing_servers'[t] = NotPlaying
    BY <1>7 DEF ResettingOK
  <2>1. ASSUME NEW i \in Requests(t)', NEW j \in Requests(t)' PROVE i = j
    <3>1. j + 1 = i + 1 /\ i \in 1 .. n - 1 /\ j \in 1 .. n - 1
      BY <1>2 DEF SInv, SlotOK, ResettingOK
    <3> QED BY <1>2, <3>1
  <2>2. ASSUME ~spoken_for[t], NEW i \in Requests(t)', NEW j \in From(t)' PROVE j <= i
    <3>1. j + 1 <= i + 1 /\ i \in 1 .. n - 1 /\ j \in 1 .. n - 1
      BY <1>2, <2>2 DEF SInv, SlotOK, ResettingOK
    <3> QED BY <1>2, <3>1
  <2>3. ASSUME ~spoken_for[t], Requests(t)' = {}
        PROVE  From(t)' = {} /\ playing_servers'[t] = NotPlaying
    BY <1>2, <1>3, <2>3 DEF SInv, SlotOK, ResettingOK, SeatKept
  <2> QED BY <1>3, <2>1, <2>2, <2>3 DEF SInv, SlotOK, ResettingOK
<1>6. ServingOK(t)'
  BY <1>2, <1>3, <1>7, ZenonT(40) DEF SInv, SlotOK, ServingOK, SeatKept
<1> QED BY <1>4, <1>5, <1>6 DEF SlotOK

LEMMA MainLoopInv ==
  ASSUME SInv, MainLoop
  PROVE  SInv'
<1> DEFINE m == Head(game_master_queue)
<1>1. PICK n : n = Len(game_master_queue)
  OBVIOUS
<1>2. /\ game_master_queue # <<>> /\ game_master_queue' = Tail(game_master_queue)
      /\ UNCHANGED <<threads, client>>
      /\ handle_server_message(m.server, m.message)
  BY DEF MainLoop
<1>3. /\ n \in Nat \ {0} /\ DOMAIN game_master_queue = 1 .. n
      /\ m = game_master_queue[1]
      /\ 1 \in From(m.server)
      /\ IsSequence(game_master_queue')
      /\ DOMAIN game_master_queue' = 1 .. n - 1
      /\ \A i \in 1 .. n - 1 : game_master_queue'[i] = game_master_queue[i + 1]
                              /\ i + 1 \in 1 .. n
      /\ \A t \in Servers : \A i \in From(t)' : i \in 1 .. n - 1 /\ i + 1 \in From(t)
      /\ \A t \in Servers : \A i \in Requests(t)' : i \in 1 .. n - 1 /\ i + 1 \in Requests(t)
  BY <1>1, <1>2, TakenFrom
<1>4. SessionTypes'
  BY <1>2, <1>3 DEF SInv, SessionTypes, threads
<1>5. 1 \in DOMAIN game_master_queue
  BY <1>3
<1>0. PICK msg : msg = m.message
  OBVIOUS
<1>6. PICK s \in Servers :
        /\ s = m.server /\ msg = m.message
        /\ game_master_queue[1].server = s /\ game_master_queue[1].message = msg
        /\ msg.id = "RESET_SERVER" \/ SentMessage(msg)
  BY <1>3, <1>5, <1>0 DEF SInv, SessionTypes
<1>7. \A t \in Servers \ {s} : 1 \notin Requests(t) /\ 1 \notin From(t)
  BY <1>6 DEF From, Requests
<1>8. handle_server_message(s, msg) /\ 1 \in From(s)
  BY <1>2, <1>3, <1>6
<1> HIDE DEF m
<1>9. ASSUME IInv', 1 \notin Requests(s),
             \A t \in Servers \ {s} : SeatKept(t),
             \A t \in Servers : Answers(t)' = Answers(t),
             SeatKept(s) \/ (slot[s] = "serving" /\ ~spoken_for[s] =>
                              players'[playing_servers'[s]].name = client[s].name)
      PROVE  SInv'
  <2>1. ASSUME NEW t \in Servers PROVE SlotOK(t)'
    <3>1. CASE t = s
      BY <1>2, <1>8, <1>9, <3>1, TakenSlot
    <3>2. CASE t # s
      BY <1>2, <1>7, <1>9, <3>2, TakenSlot
    <3> QED BY <3>1, <3>2
  <2> QED BY <1>4, <1>9, <2>1 DEF SInv
<1>10. msg.id # "RESET_SERVER" => 1 \notin Requests(s)
  BY <1>6 DEF Requests
<1>11. CASE msg.id = "RESET_SERVER"
  <2>1. reset_server(s)
    BY <1>8, <1>11 DEF handle_server_message
  <2>2. IInv'
    BY <2>1, ResetInv DEF SInv
  <2>3. /\ playing_servers'[s] = NotPlaying
        /\ \A t \in Servers : SeatKept(t)
        /\ \A t \in Servers \ {s} : Answers(t)' = Answers(t)
        /\ Answers(s) = {} => \A i, j \in Answers(s)' : i = j
    BY <2>1, ResetSeats DEF SInv
  <2>4. 1 \in Requests(s)
    BY <1>6, <1>8, <1>11 DEF Requests
  <2>5. /\ slot[s] = "resetting" /\ Answers(s) = {}
        /\ \A i, j \in Requests(s) : i = j
        /\ ~spoken_for[s] => \A j \in From(s) : j <= 1
    <3>1. slot[s] \in {"accepting", "resetting", "serving"}
      BY DEF SInv, SessionTypes
    <3> QED BY <2>4, <3>1 DEF SInv, SlotOK, AcceptingOK, ResettingOK, ServingOK
  <2>6. ~spoken_for[s] => From(s)' = {}
    <3>1. ASSUME ~spoken_for[s], NEW i \in From(s)' PROVE i \in 1 .. n - 1 /\ i + 1 <= 1
      BY <1>3, <2>5, <3>1
    <3> QED BY <1>3, <3>1
  <2>7. Requests(s)' = {}
    <3>1. \A i \in Requests(s)' : i \in 1 .. n - 1 /\ i + 1 = 1
      BY <1>3, <2>4, <2>5
    <3> QED BY <1>3, <3>1
  <2>8. slot' = slot /\ spoken_for' = spoken_for
    BY <1>2 DEF threads
  <2>9. SlotOK(s)'
    BY <2>3, <2>5, <2>6, <2>7, <2>8 DEF SlotOK, AcceptingOK, ResettingOK, ServingOK
  <2>10. ASSUME NEW t \in Servers \ {s} PROVE SlotOK(t)'
    BY <1>2, <1>7, <2>3, TakenSlot
  <2> QED BY <1>4, <2>2, <2>9, <2>10 DEF SInv
<1>12. CASE msg.id = "CS_JOIN" /\ handle_join(s, msg.name)
  <2>1. msg.name \in Names
    BY <1>6, <1>12 DEF SentMessage
  <2>2. IInv'
    BY <1>12, <2>1, JoinInv DEF SInv
  <2>3. /\ \A t \in Servers \ {s} : SeatKept(t)
        /\ players'[playing_servers'[s]].name = msg.name
        /\ \A t \in Servers : Answers(t)' = Answers(t)
    BY <1>12, <2>1, JoinSeats DEF SInv
  <2>4. slot[s] = "serving" /\ ~spoken_for[s] => msg.name = client[s].name
    BY <1>6, <1>8, <1>12 DEF SInv, SlotOK, ServingOK
  <2> QED BY <1>9, <1>10, <1>12, <2>2, <2>3, <2>4
<1>13. CASE msg.id = "CS_ACTION" /\ handle_action(s, msg.action)
  <2>1. msg.action \in Action
    BY <1>6, <1>13, GameMasterAssumption DEF SentMessage
  <2>2. IInv'
    BY <1>13, <2>1, ActionInv DEF SInv
  <2> QED BY <1>9, <1>10, <1>13, <2>1, <2>2, ActionSeats DEF SInv
<1>14. CASE msg.id # "RESET_SERVER" /\ UNCHANGED vars
  BY <1>9, <1>10, <1>14, GameKept
<1> QED BY <1>8, <1>11, <1>12, <1>13, <1>14 DEF handle_server_message

LEMMA ClockStepInv ==
  ASSUME SInv, Clock
  PROVE  SInv'
<1>1. /\ UNCHANGED <<game_master_queue, threads, client>>
      /\ ClockCheck \/ SpuriousWakeup \/ make_turn
  BY DEF Clock
<1>2. IInv'
  BY <1>1, ClockInv, MakeTurnInv DEF SInv
<1>3. \A t \in Servers : SeatKept(t) /\ Answers(t)' = Answers(t)
  <2>1. CASE ClockCheck \/ SpuriousWakeup
    BY <2>1 DEF ClockCheck, SpuriousWakeup, SeatKept, Answers
  <2>2. CASE make_turn
    BY <2>2, TurnSeats DEF SInv
  <2> QED BY <1>1, <2>1, <2>2
<1>4. SessionTypes'
  BY <1>1 DEF SInv, SessionTypes, threads
<1>5. \A t \in Servers : SlotOK(t)'
  BY <1>1, <1>3, SlotKept DEF threads
<1> QED BY <1>2, <1>4, <1>5 DEF SInv

-----------------------------------------------------------------------------
(* The theorems *)

LEMMA NextSession == SInv /\ [SessionNext]_sessionVars => SInv'
<1>1. ASSUME SInv, UNCHANGED sessionVars PROVE SInv'
  <2>1. UNCHANGED vars /\ UNCHANGED <<game_master_queue, slot, client, outlived, spoken_for>>
    BY <1>1 DEF sessionVars, threads
  <2>2. IInv' /\ \A s \in Servers : SeatKept(s) /\ Answers(s)' = Answers(s)
    BY <1>1, <2>1, GameKept
  <2>3. SessionTypes'
    BY <1>1, <2>1 DEF SInv, SessionTypes
  <2>4. \A s \in Servers : SlotOK(s)'
    BY <1>1, <2>1, <2>2, SlotKept
  <2> QED BY <2>2, <2>3, <2>4 DEF SInv
<1>2. ASSUME SInv, SessionNext PROVE SInv'
  BY <1>2, AcceptInv, ConnectInv, SendInv, ReceiveInv, DisconnectInv, ClientInv,
     OutlivedSenderInv, OutlivedReceiverInv, MainLoopInv, ClockStepInv DEF SessionNext
<1> QED BY <1>1, <1>2

LEMMA SessionInvariance == SessionSpec => []SInv
BY InitSession, NextSession, PTL DEF SessionSpec

\* While a slot serves a client, the player it controls is the one this client
\* joined as, unless a receiver of an earlier client has got in its way: for any
\* number of slots, players and clients one after the other, whatever was left in
\* the queues when the client connected, and whatever the senders of earlier
\* clients take and their receivers read or push before it does.
THEOREM SeatsAreOwn == SessionSpec => []SeatIsOwn
<1>1. SInv => SeatIsOwn
  BY DEF SInv, SlotOK, ServingOK, SeatIsOwn
<1> QED BY <1>1, SessionInvariance, PTL

\* The GameMaster's own invariants also hold when its calls are those that real
\* clients bring about, through the slots and the main loop's queue.
THEOREM GameMasterInSession == SessionSpec => [](SeatsDistinct /\ GameIsFull /\ NoTurnInLobby)
<1>1. SInv => SeatsDistinct /\ GameIsFull /\ NoTurnInLobby
  BY DEF SInv, IInv
<1> QED BY <1>1, SessionInvariance, PTL

-----------------------------------------------------------------------------
(* What a client shows, and what the messages on their way make of it *)

\* The part of a client its messages change.
Face(c) == [state |-> c.state, roster |-> c.roster, view |-> c.view]

IsFace(f) == f = Face(f)

Fresh == [state |-> "IDLE", roster |-> <<>>, view |-> NewView]

\* A client with face f handles m and has face g then. The scores it is told
\* are those it has counted, and if it exits, then over the first turn of a
\* game of which no player was announced to it.
Handled(f, m, g) ==
  /\ IsFace(g)
  /\ g = handle_message(f, m)
  /\ m.id = "SC_GAME_ENDED" /\ f.state = "IN_GAME" => m.scores = f.view.scores
  /\ Alive(f) /\ g.state = "EXITED" =>
       /\ f.state = "IN_LOBBY" /\ f.roster = <<>>
       /\ m.id = "SC_TURN" /\ m.turn.turn = 0

\* The faces h, from f to g, that the messages of q behind position a give a
\* client.
Faces(h, f, g, a, q) ==
  /\ h[a] = f /\ h[Len(q)] = g
  /\ \A k \in a + 1 .. Len(q) : Handled(h[k - 1], q[k], h[k])

Lasting(f) == f.state = "EXITED" \/ UpToDate(f)

\* With what is queued behind position a for its slot t, a client with face f
\* ends up to date.
Announces(t, a, f) ==
  \E h, g : Faces(h, f, g, a, server_queues[t]) /\ Lasting(g)

\* All a client with face f is owed is in the queue of its slot t: at its head
\* when the slot serves the client, and behind the answer it waits for before.
Owed(t, f) ==
  /\ slot[t] = "serving" => Announces(t, 0, f)
  /\ slot[t] = "resetting" => f = Fresh /\ \A a \in Answers(t) : Announces(t, a, f)

FollowsOK(t) == \A f : f = Face(client[t]) /\ Alive(f) => Owed(t, f)

FollowInv == \A t \in Servers : FollowsOK(t)

\* What handle_message does, case by case.
LEMMA FaceHandled ==
  ASSUME NEW f, IsFace(f), NEW m
  PROVE  /\ IsFace(handle_message(f, m))
         /\ m.id = "SC_HELLO" /\ f.state = "IDLE" =>
              handle_message(f, m) = [state |-> "IN_LOBBY", roster |-> f.roster, view |-> f.view]
         /\ m.id = "SC_ACCEPTED_PLAYER" /\ f.state = "IN_LOBBY" =>
              handle_message(f, m) =
                [state |-> "IN_LOBBY", roster |-> add_player(f.roster, m.player), view |-> f.view]
         /\ m.id = "SC_GAME_STARTED" /\ f.state = "IN_LOBBY" =>
              handle_message(f, m) =
                [state |-> "IN_GAME", roster |-> f.roster, view |-> set_gamers(f.view, m.players)]
         /\ m.id = "SC_TURN" /\ f.state = "IN_GAME" =>
              handle_message(f, m) =
                [state |-> "IN_GAME", roster |-> f.roster, view |-> handle_turn(f.view, m.turn)]
         /\ m.id = "SC_GAME_ENDED" /\ f.state = "IN_GAME" =>
              handle_message(f, m) = [state |-> "IN_LOBBY", roster |-> <<>>, view |-> NewView]
         /\ m.id = "SC_TURN" /\ f.state = "IN_LOBBY" =>
              handle_message(f, m) = [state |-> "EXITED", roster |-> f.roster, view |-> f.view]
         /\ f.state = "EXITED" => handle_message(f, m) = f
<1> DEFINE st == f.state
           ro == f.roster
           vi == f.view
<1>1. f = [state |-> st, roster |-> ro, view |-> vi]
  BY DEF IsFace, Face
<1> HIDE DEF st, ro, vi
<1>2. f.state = st /\ f.roster = ro /\ f.view = vi
  BY <1>1
<1>3. CASE m.id = "SC_HELLO" /\ st = "IDLE"
  BY <1>1, <1>2, <1>3 DEF IsFace, Face, handle_message
<1>4. CASE m.id = "SC_ACCEPTED_PLAYER" /\ st = "IN_LOBBY"
  BY <1>1, <1>2, <1>4 DEF IsFace, Face, handle_message
<1>5. CASE m.id = "SC_GAME_STARTED" /\ st = "IN_LOBBY"
  BY <1>1, <1>2, <1>5 DEF IsFace, Face, handle_message
<1>6. CASE m.id = "SC_TURN" /\ st = "IN_GAME"
  BY <1>1, <1>2, <1>6 DEF IsFace, Face, handle_message
<1>7. CASE m.id = "SC_GAME_ENDED" /\ st = "IN_GAME"
  BY <1>1, <1>2, <1>7 DEF IsFace, Face, handle_message, handle_game_ended
<1>8. CASE ~ \/ m.id = "SC_HELLO" /\ st = "IDLE"
             \/ m.id = "SC_ACCEPTED_PLAYER" /\ st = "IN_LOBBY"
             \/ m.id = "SC_GAME_STARTED" /\ st = "IN_LOBBY"
             \/ m.id = "SC_TURN" /\ st = "IN_GAME"
             \/ m.id = "SC_GAME_ENDED" /\ st = "IN_GAME"
  <2>1. handle_message(f, m) = [state |-> "EXITED", roster |-> ro, view |-> vi]
    BY <1>1, <1>2, <1>8 DEF handle_message
  <2>2. IsFace(handle_message(f, m))
    BY <2>1 DEF IsFace, Face
  <2>3. st = "EXITED" => handle_message(f, m) = f
    BY <1>1, <2>1
  <2> QED BY <1>2, <1>8, <2>1, <2>2, <2>3
<1> QED BY <1>3, <1>4, <1>5, <1>6, <1>7, <1>8

\* The program around the face of a client does not matter to messages.
LEMMA FaceOfHandled ==
  ASSUME NEW c, {"state", "roster", "view"} \subseteq DOMAIN c, NEW m
  PROVE  /\ Face(handle_message(c, m)) = handle_message(Face(c), m)
         /\ DOMAIN handle_message(c, m) = DOMAIN c
<1> DEFINE st == c.state
           ro == c.roster
           vi == c.view
           f == Face(c)
<1>1. f = [state |-> st, roster |-> ro, view |-> vi]
  BY DEF Face
<1>9. IsFace(f) /\ f.state = st /\ f.roster = ro /\ f.view = vi
  BY DEF IsFace, Face
<1>2. st = c.state /\ ro = c.roster /\ vi = c.view /\ f = Face(c)
  OBVIOUS
<1> HIDE DEF st, ro, vi, f
<1>3. CASE m.id = "SC_HELLO" /\ st = "IDLE"
  BY <1>1, <1>2, <1>3, <1>9 DEF Face, handle_message
<1>4. CASE m.id = "SC_ACCEPTED_PLAYER" /\ st = "IN_LOBBY"
  BY <1>1, <1>2, <1>4, <1>9 DEF Face, handle_message
<1>5. CASE m.id = "SC_GAME_STARTED" /\ st = "IN_LOBBY"
  BY <1>1, <1>2, <1>5, <1>9 DEF Face, handle_message
<1>6. CASE m.id = "SC_TURN" /\ st = "IN_GAME"
  BY <1>1, <1>2, <1>6, <1>9 DEF Face, handle_message
<1>7. CASE m.id = "SC_GAME_ENDED" /\ st = "IN_GAME"
  BY <1>1, <1>2, <1>7, <1>9 DEF Face, handle_message, handle_game_ended
<1>8. CASE ~ \/ m.id = "SC_HELLO" /\ st = "IDLE"
             \/ m.id = "SC_ACCEPTED_PLAYER" /\ st = "IN_LOBBY"
             \/ m.id = "SC_GAME_STARTED" /\ st = "IN_LOBBY"
             \/ m.id = "SC_TURN" /\ st = "IN_GAME"
             \/ m.id = "SC_GAME_ENDED" /\ st = "IN_GAME"
  BY <1>1, <1>2, <1>8, <1>9 DEF Face, handle_message
<1> QED BY <1>2, <1>3, <1>4, <1>5, <1>6, <1>7, <1>8

-----------------------------------------------------------------------------
(* Queues that grow and shrink *)

LEMMA ExitedHandles ==
  ASSUME NEW f, IsFace(f), f.state = "EXITED", NEW m
  PROVE  Handled(f, m, f)
BY FaceHandled DEF Handled, Alive

\* The server pushes ms to the queue of t: whoever is up to date before is so
\* again after it has handled ms.
Carries(ms) ==
  \A f : IsFace(f) /\ UpToDate(f) =>
    \E e, g : Faces(e, f, g, 0, ms) /\ (Lasting(g))'

LEMMA Pushed ==
  ASSUME NEW t, NEW ms, IsSequence(ms), IsSequence(server_queues[t]),
         server_queues'[t] = server_queues[t] \o ms, Carries(ms),
         NEW a \in 0 .. Len(server_queues[t]), NEW f, IsFace(f), Announces(t, a, f)
  PROVE  Announces(t, a, f)'
<1> DEFINE q == server_queues[t]
           n == Len(q)
           l == Len(ms)
           r == q \o ms
<1>1. /\ n \in Nat /\ l \in Nat /\ a \in 0 .. n
      /\ \A i \in 1 .. n + l : r[i] = IF i <= n THEN q[i] ELSE ms[i - n]
      /\ Len(r) = n + l
  <2>1. /\ n \in Nat /\ l \in Nat
        /\ IsSequence(r) /\ DOMAIN r = 1 .. n + l
        /\ \A i \in 1 .. n + l : r[i] = IF i <= n THEN q[i] ELSE ms[i - n]
    BY ConcatIndices
  <2>2. Len(r) \in Nat /\ 1 .. Len(r) = 1 .. n + l
    BY <2>1, SequenceLen
  <2> HIDE DEF r, n, l
  <2>3. Len(r) = n + l
    BY <2>1, <2>2
  <2> QED BY <2>1, <2>3 DEF n
<1>2. server_queues'[t] = r
  OBVIOUS
<1>3. PICK h, d : Faces(h, f, d, a, q) /\ Lasting(d)
  BY DEF Announces
<1> HIDE DEF r, q, n, l
<1>4. IsFace(d) /\ d = h[n]
  <2>1. CASE a = n
    BY <1>3, <2>1 DEF Faces, n
  <2>2. CASE a # n
    <3>1. n \in a + 1 .. n
      BY <1>1, <2>2
    <3> QED BY <1>3, <3>1 DEF Faces, Handled, n
  <2> QED BY <2>1, <2>2
<1>5. PICK e, g : Faces(e, d, g, 0, ms) /\ (Lasting(g))'
  <2>1. CASE UpToDate(d)
    BY <1>4, <2>1 DEF Carries
  <2>2. CASE d.state = "EXITED"
    <3> DEFINE e == [k \in 0 .. l |-> d]
    <3>1. \A k \in 0 .. l : e[k] = d
      OBVIOUS
    <3>2. 0 \in 0 .. l /\ l \in 0 .. l /\ \A k \in 0 + 1 .. l : k \in 0 .. l /\ k - 1 \in 0 .. l
      BY <1>1
    <3> HIDE DEF e
    <3>3. \A k \in 0 + 1 .. l : Handled(e[k - 1], ms[k], e[k])
      BY <1>4, <2>2, <3>1, <3>2, ExitedHandles
    <3>4. Faces(e, d, d, 0, ms)
      BY <3>1, <3>2, <3>3 DEF Faces, l
    <3>5. (Lasting(d))'
      BY <2>2 DEF Lasting
    <3> QED BY <3>4, <3>5
  <2> QED BY <1>3, <2>1, <2>2 DEF Lasting
<1> DEFINE w == [k \in 0 .. n + l |-> IF k <= n THEN h[k] ELSE e[k - n]]
<1>6. /\ \A k \in 0 .. n : w[k] = h[k]
      /\ \A k \in n .. n + l : w[k] = e[k - n]
  <2>1. \A k \in 0 .. n : k \in 0 .. n + l /\ k <= n
    BY <1>1
  <2>2. ASSUME NEW k \in n .. n + l PROVE w[k] = e[k - n]
    <3>1. k \in 0 .. n + l
      BY <1>1
    <3>2. CASE k = n
      <4>1. k - n = 0 /\ k <= n
        BY <1>1, <3>2
      <4>2. e[0] = h[n]
        BY <1>4, <1>5 DEF Faces
      <4> QED BY <3>1, <3>2, <4>1, <4>2
    <3>3. CASE k # n
      <4>1. ~ k <= n
        BY <1>1, <3>3
      <4> QED BY <3>1, <4>1
    <3> QED BY <3>2, <3>3
  <2> QED BY <2>1, <2>2
<1> HIDE DEF w
<1>7. w[a] = f
  <2>1. a \in 0 .. n
    BY <1>1
  <2> QED BY <1>3, <1>6, <2>1 DEF Faces
<1>8. ASSUME NEW k \in a + 1 .. n + l PROVE Handled(w[k - 1], r[k], w[k])
  <2>1. k \in 1 .. n + l
    BY <1>1
  <2>2. CASE k <= n
    <3>1. k \in a + 1 .. n /\ k \in 0 .. n /\ k - 1 \in 0 .. n
      BY <1>1, <2>2
    <3>2. Handled(h[k - 1], q[k], h[k])
      BY <1>3, <3>1 DEF Faces, n
    <3>3. r[k] = q[k] /\ w[k] = h[k] /\ w[k - 1] = h[k - 1]
      BY <1>1, <1>6, <2>1, <2>2, <3>1
    <3> QED BY <3>2, <3>3
  <2>3. CASE ~ k <= n
    <3>1. k \in n .. n + l /\ k - 1 \in n .. n + l /\ k - n \in 0 + 1 .. l
          /\ k - 1 - n = k - n - 1
      BY <1>1, <2>3
    <3> DEFINE j == k - n
    <3>2. j \in 0 + 1 .. l /\ r[k] = ms[j] /\ w[k] = e[j] /\ w[k - 1] = e[j - 1]
      BY <1>1, <1>6, <2>1, <2>3, <3>1
    <3> HIDE DEF j
    <3>3. Handled(e[j - 1], ms[j], e[j])
      BY <1>5, <3>2 DEF Faces, l
    <3> QED BY <3>2, <3>3
  <2> QED BY <2>2, <2>3
<1>9. w[n + l] = g
  <2> DEFINE last == n + l
  <2>1. last \in n .. n + l /\ last - n = l
    BY <1>1
  <2>2. e[l] = g
    BY <1>5 DEF Faces, l
  <2> HIDE DEF last
  <2>3. w[last] = e[l]
    BY <1>6, <2>1
  <2> QED BY <2>2, <2>3 DEF last
<1>10. Faces(w, f, g, a, r)
  BY <1>1, <1>7, <1>8, <1>9 DEF Faces
<1> QED BY <1>2, <1>5, <1>10 DEF Announces

\* The game as far as clients show it.
Shown == <<game_state, blocks, bombs,
           [i \in DOMAIN players |-> players[i].name],
           [i \in DOMAIN players |-> players[i].position],
           [i \in DOMAIN players |-> players[i].score]>>

LEMMA LastingKept ==
  ASSUME UNCHANGED Shown, NEW f, Lasting(f)
  PROVE  (Lasting(f))'
BY DEF Shown, Lasting, UpToDate

\* The message at position a + 1 is the client's, not the thread's.
LEMMA ToldNext ==
  ASSUME NEW t, NEW a \in Nat, NEW f, Announces(t, a, f), a < Len(server_queues[t]),
         Len(server_queues[t]) \in Nat
  PROVE  LET m == server_queues[t][a + 1]
             g == handle_message(f, m)
         IN Handled(f, m, g) /\ Announces(t, a + 1, g)
<1> DEFINE q == server_queues[t]
           m == q[a + 1]
           g == handle_message(f, m)
<1>1. PICK h, d : Faces(h, f, d, a, q) /\ Lasting(d)
  BY DEF Announces
<1>2. a + 1 \in a + 1 .. Len(q) /\ a + 1 - 1 = a
  OBVIOUS
<1>3. \A k \in a + 1 + 1 .. Len(q) : k \in a + 1 .. Len(q)
  OBVIOUS
<1> HIDE DEF q
<1>4. h[a] = f /\ Handled(h[a], m, h[a + 1])
  BY <1>1, <1>2 DEF Faces
<1>5. Handled(f, m, g) /\ h[a + 1] = g
  BY <1>4 DEF Handled
<1> HIDE DEF m, g
<1>6. Faces(h, g, d, a + 1, q)
  BY <1>1, <1>3, <1>5 DEF Faces
<1> QED BY <1>1, <1>5, <1>6 DEF Announces, q, m, g

\* The head of the queue is taken, and positions shift.
LEMMA ToldShifts ==
  ASSUME IInv, NEW s \in Servers, ServerPop(s), NEW a \in Nat, NEW f, Announces(s, a + 1, f),
         a + 1 <= Len(server_queues[s])
  PROVE  Announces(s, a, f)'
<1> DEFINE q == server_queues[s]
           r == Tail(q)
           n == Len(q)
<1>1. q # <<>> /\ IsSequence(q) /\ server_queues'[s] = r
  BY DEF ServerPop, IInv, TypeOK
<1>2. n \in Nat \ {0} /\ \A i \in 1 .. n - 1 : r[i] = q[i + 1]
  BY <1>1, TailIndices
<1>3. Len(r) = n - 1
  <2>1. IsSequence(r) /\ DOMAIN r = 1 .. n - 1
    BY <1>1, TailIndices
  <2>2. Len(r) \in Nat /\ DOMAIN r = 1 .. Len(r)
    BY <2>1, SequenceLen
  <2> HIDE DEF r, n
  <2>3. Len(r) \in Nat /\ 1 .. Len(r) = 1 .. n - 1 /\ n - 1 \in Nat
    BY <1>2, <2>1, <2>2
  <2> QED BY <2>3
<1>4. UNCHANGED Shown
  BY DEF ServerPop, Shown, gameVars
<1>5. PICK h, d : Faces(h, f, d, a + 1, q) /\ Lasting(d)
  BY DEF Announces
<1>7. a + 1 <= n
  OBVIOUS
<1> HIDE DEF q, r, n
<1> DEFINE g == [k \in a .. n - 1 |-> h[k + 1]]
<1>6. \A k \in a .. n - 1 : g[k] = h[k + 1]
  OBVIOUS
<1> HIDE DEF g
<1>8. Announces(s, a, f)'
  <2>1. a \in a .. n - 1 /\ n - 1 \in a .. n - 1 /\ n - 1 + 1 = n
    BY <1>2, <1>7
  <2>2. g[a] = f /\ g[n - 1] = d
    BY <1>5, <1>6, <2>1 DEF Faces, n
  <2>3. ASSUME NEW k \in a + 1 .. n - 1 PROVE Handled(g[k - 1], r[k], g[k])
    <3>1. k \in a .. n - 1 /\ k - 1 \in a .. n - 1 /\ k \in 1 .. n - 1
          /\ k + 1 \in a + 1 + 1 .. n /\ k + 1 - 1 = k /\ k - 1 + 1 = k
      BY <1>2
    <3>2. Handled(h[k + 1 - 1], q[k + 1], h[k + 1])
      BY <1>5, <3>1 DEF Faces, n
    <3>3. g[k - 1] = h[k] /\ g[k] = h[k + 1] /\ r[k] = q[k + 1]
      BY <1>2, <1>6, <3>1
    <3> QED BY <3>1, <3>2, <3>3
  <2>4. Faces(g, f, d, a, r)
    BY <1>3, <2>2, <2>3 DEF Faces
  <2>5. (Lasting(d))'
    BY <1>4, <1>5, LastingKept
  <2> QED BY <1>1, <2>4, <2>5 DEF Announces
<1> QED BY <1>8

-----------------------------------------------------------------------------
(* The steps of the clients and of the threads of a slot *)

LEMMA FaceAlive == \A c : IsFace(Face(c)) /\ (Alive(Face(c)) <=> Alive(c))
BY DEF IsFace, Face, Alive

\* A slot that neither takes nor gets a message, when its client stays as it
\* is, or goes.
LEMMA FollowsKept ==
  ASSUME NEW t, FollowsOK(t), UNCHANGED Shown, slot'[t] = slot[t],
         server_queues'[t] = server_queues[t],
         Alive(client'[t]) => Face(client'[t]) = Face(client[t])
  PROVE  FollowsOK(t)'
<1> SUFFICES ASSUME NEW f, f = Face(client'[t]), Alive(f)
             PROVE  Owed(t, f)'
  BY DEF FollowsOK
<1>1. f = Face(client[t])
  BY FaceAlive
<1>2. Owed(t, f)
  BY <1>1 DEF FollowsOK
<1>3. ASSUME NEW a, Announces(t, a, f) PROVE Announces(t, a, f)'
  <2>1. PICK h, g : Faces(h, f, g, a, server_queues[t]) /\ Lasting(g)
    BY <1>3 DEF Announces
  <2>2. (Lasting(g))'
    BY <2>1, LastingKept
  <2> QED BY <2>1, <2>2 DEF Announces
<1>4. Answers(t)' = Answers(t)
  BY DEF Answers
<1> QED BY <1>2, <1>3, <1>4 DEF Owed

LEMMA GoneFollows ==
  ASSUME NEW t, ~Alive(client'[t])
  PROVE  FollowsOK(t)'
BY FaceAlive DEF FollowsOK

LEMMA ClientFollows ==
  ASSUME SInv, FollowInv, NEW s \in Servers,
         \/ \E action \in Inputs : GuiInput(s, action)
         \/ GuiForward(s)
         \/ MisledInput(s)
         \/ Close(s)
         \/ receive_from_client(s)
         \/ OutlivedReceiver(s)
  PROVE  FollowInv'
<1>1. UNCHANGED vars /\ slot' = slot
  BY DEF GuiInput, GuiForward, MisledInput, Close, receive_from_client, OutlivedReceiver, threads
<1>2. UNCHANGED Shown /\ server_queues' = server_queues
  BY <1>1 DEF vars, Shown
<1>3. DOMAIN client = Servers /\ ClientOK(client[s])
  BY DEF SInv, SessionTypes
<1> DEFINE c == client[s]
<1>4. \/ client' = client
      \/ \E d : /\ client' = [client EXCEPT ![s] = d]
                /\ Alive(d) => d.state = c.state /\ d.roster = c.roster /\ d.view = c.view
  <2>1. CASE \E action \in Inputs : GuiInput(s, action)
    <3>1. PICK action \in Inputs : GuiInput(s, action)
      BY <2>1
    <3> DEFINE join == [id |-> "CS_JOIN", name |-> c.name]
               sent == Append(c.sent, join)
               d == IF c.state = "IN_LOBBY"
                    THEN [c EXCEPT !.sent = sent]
                    ELSE [c EXCEPT !.input = action]
    <3>2. client' = [client EXCEPT ![s] = d]
      BY <3>1 DEF GuiInput
    <3> HIDE DEF c, sent
    <3>3. c = client[s]
      BY DEF c
    <3>4. d.state = c.state /\ d.roster = c.roster /\ d.view = c.view
      BY <1>3, <3>3 DEF ClientOK, ClientFields
    <3> QED BY <3>2, <3>4
  <2>2. CASE GuiForward(s)
    <3> DEFINE sent == IF c.state = "IN_GAME"
                       THEN Append(c.sent, [id |-> "CS_ACTION", action |-> c.input])
                       ELSE c.sent
               d == [c EXCEPT !.input = None, !.sent = sent]
    <3>1. client' = [client EXCEPT ![s] = d]
      BY <2>2 DEF GuiForward
    <3> HIDE DEF c, sent
    <3>2. c = client[s]
      BY DEF c
    <3>3. d.state = c.state /\ d.roster = c.roster /\ d.view = c.view
      BY <1>3, <3>2 DEF ClientOK, ClientFields
    <3> QED BY <3>1, <3>3
  <2>3. CASE Close(s)
    <3> DEFINE d == [c EXCEPT !.state = "CLOSED", !.input = None]
    <3>1. client' = [client EXCEPT ![s] = d]
      BY <1>3, <2>3 DEF Close
    <3>2. ~Alive(d)
      BY <1>3 DEF ClientOK, ClientFields, Alive
    <3> QED BY <3>1, <3>2
  <2>4. CASE receive_from_client(s)
    <3> DEFINE sent == Tail(c.sent)
               d == [c EXCEPT !.sent = sent]
    <3>1. client' = [client EXCEPT ![s] = d]
      BY <1>3, <2>4 DEF receive_from_client
    <3> HIDE DEF c, sent
    <3>2. c = client[s]
      BY DEF c
    <3>3. d.state = c.state /\ d.roster = c.roster /\ d.view = c.view
      BY <1>3, <3>2 DEF ClientOK, ClientFields
    <3> QED BY <3>1, <3>3
  <2>5. CASE MisledInput(s)
    <3>1. PICK m \in ClientMessages : client' = [client EXCEPT ![s].sent = Append(c.sent, m)]
      BY <2>5 DEF MisledInput
    <3> DEFINE sent == Append(c.sent, m)
               d == [c EXCEPT !.sent = sent]
    <3>2. client' = [client EXCEPT ![s] = d] /\ c.state = "MISLED"
      BY <2>5, <3>1 DEF MisledInput
    <3> HIDE DEF c, sent
    <3>3. c = client[s]
      BY DEF c
    <3>4. d.state = "MISLED"
      BY <1>3, <3>2, <3>3 DEF ClientOK, ClientFields
    <3>5. ~Alive(d)
      BY <3>4 DEF Alive
    <3> QED BY <3>2, <3>5
  <2>6. CASE OutlivedReceiver(s)
    <3>1. CASE client' = [client EXCEPT ![s].sent = Tail(c.sent)]
      <4> DEFINE sent == Tail(c.sent)
                 d == [c EXCEPT !.sent = sent]
      <4>1. client' = [client EXCEPT ![s] = d]
        BY <1>3, <3>1
      <4> HIDE DEF c, sent
      <4>2. c = client[s]
        BY DEF c
      <4>3. d.state = c.state /\ d.roster = c.roster /\ d.view = c.view
        BY <1>3, <4>2 DEF ClientOK, ClientFields
      <4> QED BY <4>1, <4>3
    <3> QED BY <2>6, <3>1 DEF OutlivedReceiver
  <2> QED BY <2>1, <2>2, <2>3, <2>4, <2>5, <2>6
<1>5. \A t \in Servers : Alive(client'[t]) => Face(client'[t]) = Face(client[t])
  BY <1>3, <1>4 DEF Face
<1> QED BY <1>1, <1>2, <1>5, FollowsKept DEF FollowInv

LEMMA AcceptFollows ==
  ASSUME SInv, FollowInv, NEW s \in Servers, NEW name \in Names, Accept(s, name)
  PROVE  FollowInv'
<1>1. UNCHANGED Shown /\ server_queues' = server_queues
  BY DEF Accept, vars, Shown
<1>2. /\ slot[s] = "accepting" /\ slot'[s] = "resetting"
      /\ client'[s] = NewClient(name)
      /\ \A t \in Servers \ {s} : slot'[t] = slot[t] /\ client'[t] = client[t]
  BY DEF Accept, SInv, SessionTypes
<1>3. ASSUME NEW t \in Servers \ {s} PROVE FollowsOK(t)'
  BY <1>1, <1>2, FollowsKept DEF FollowInv
<1>4. FollowsOK(s)'
  <2>1. Answers(s)' = {}
    BY <1>1, <1>2 DEF SInv, SlotOK, AcceptingOK, Answers
  <2>2. Face(NewClient(name)) = Fresh
    BY DEF Face, Fresh, NewClient
  <2>3. ASSUME NEW f, f = Face(client'[s]) PROVE Owed(s, f)'
    BY <1>2, <2>1, <2>2, <2>3 DEF Owed
  <2> QED BY <2>3 DEF FollowsOK
<1> QED BY <1>3, <1>4 DEF FollowInv

LEMMA DisconnectFollows ==
  ASSUME SInv, FollowInv, NEW s \in Servers, Disconnect(s)
  PROVE  FollowInv'
<1>1. UNCHANGED Shown /\ server_queues' = server_queues
  BY DEF Disconnect, vars, Shown
<1> DEFINE c == client[s]
           d == Cut(c)
<1>2. /\ client'[s] = d /\ ClientOK(c)
      /\ \A t \in Servers \ {s} : slot'[t] = slot[t] /\ client'[t] = client[t]
  BY DEF Disconnect, SInv, SessionTypes
<1>3. ASSUME NEW t \in Servers \ {s} PROVE FollowsOK(t)'
  BY <1>1, <1>2, FollowsKept DEF FollowInv
<1>4. ~Alive(client'[s])
  <2> HIDE DEF c
  <2>1. d.state \in {"EXITED", "CLOSED"}
    BY <1>2 DEF Cut, ClientOK, ClientFields
  <2> HIDE DEF d
  <2> QED BY <1>2, <2>1 DEF Alive
<1> QED BY <1>3, <1>4, GoneFollows DEF FollowInv

\* What a slot takes is not shown, and the queues of the others stay.
LEMMA PoppedFollows ==
  ASSUME SInv, FollowInv, NEW s \in Servers, ServerPop(s),
         \A t \in Servers \ {s} : slot'[t] = slot[t] /\ client'[t] = client[t]
  PROVE  \A t \in Servers \ {s} : FollowsOK(t)'
<1>1. UNCHANGED Shown /\ \A t \in Servers \ {s} : server_queues'[t] = server_queues[t]
  BY DEF ServerPop, Shown, gameVars, SInv, IInv, TypeOK
<1> QED BY <1>1, FollowsKept DEF FollowInv

LEMMA QueueHead ==
  ASSUME SInv, NEW s \in Servers, ServerPop(s)
  PROVE  /\ Len(server_queues[s]) \in Nat \ {0}
         /\ Head(server_queues[s]) = server_queues[s][1]
         /\ DOMAIN server_queues[s] = 1 .. Len(server_queues[s])
BY TailIndices DEF ServerPop, SInv, IInv, TypeOK

LEMMA ConnectFollows ==
  ASSUME SInv, FollowInv, NEW s \in Servers, client_connect(s)
  PROVE  FollowInv'
<1>1. /\ ServerPop(s) /\ client' = client
      /\ slot[s] = "resetting"
      /\ slot'[s] = IF Head(server_queues[s]) = Reset THEN "serving" ELSE "resetting"
      /\ \A t \in Servers \ {s} : slot'[t] = slot[t]
  BY DEF client_connect, SInv, SessionTypes
<1>2. \A t \in Servers \ {s} : FollowsOK(t)'
  BY <1>1, PoppedFollows
<1>3. /\ \A i \in Answers(s)' : i \in Int /\ i + 1 \in Answers(s)
      /\ Head(server_queues[s]).id = "RESET_SERVER" => 1 \in Answers(s)
  BY <1>1, Popped
<1>4. Len(server_queues[s]) \in Nat \ {0} /\ Answers(s) \subseteq 1 .. Len(server_queues[s])
  BY <1>1, QueueHead DEF Answers
<1>5. ASSUME NEW f, f = Face(client[s]), Alive(f), NEW a \in Nat, a + 1 \in Answers(s)
      PROVE  Announces(s, a, f)'
  <2>1. Announces(s, a + 1, f)
    BY <1>1, <1>5 DEF FollowInv, FollowsOK, Owed
  <2>2. a + 1 <= Len(server_queues[s])
    BY <1>4, <1>5
  <2> QED BY <1>1, <2>1, <2>2, ToldShifts DEF SInv
<1>6. ASSUME NEW f, f = Face(client'[s]), Alive(f) PROVE Owed(s, f)'
  <2>0. f = Face(client[s])
    BY <1>1, <1>6
  <2>1. CASE Head(server_queues[s]) = Reset
    <3>1. 0 + 1 \in Answers(s) /\ slot'[s] = "serving"
      BY <1>1, <1>3, <2>1, MessageIds
    <3>2. Announces(s, 0, f)'
      BY <1>5, <1>6, <2>0, <3>1
    <3> QED BY <3>1, <3>2 DEF Owed
  <2>2. CASE Head(server_queues[s]) # Reset
    <3>1. slot'[s] = "resetting" /\ f = Fresh
      BY <1>1, <1>6, <2>0, <2>2 DEF FollowInv, FollowsOK, Owed
    <3>2. ASSUME NEW a \in Answers(s)' PROVE Announces(s, a, f)'
      <4>1. a \in Nat /\ a + 1 \in Answers(s)
        BY <1>3, <1>4
      <4> QED BY <1>5, <1>6, <2>0, <4>1
    <3> QED BY <3>1, <3>2 DEF Owed
  <2> QED BY <2>1, <2>2
<1>7. FollowsOK(s)'
  BY <1>6 DEF FollowsOK
<1> QED BY <1>2, <1>7 DEF FollowInv

\* A client that gets a message handles the one at the head of its queue.
LEMMA SentHandled ==
  ASSUME SInv, FollowInv, NEW s \in Servers, slot[s] = "serving", ServerPop(s),
         Alive(client[s])
  PROVE  LET f == Face(client[s])
             m == Head(server_queues[s])
             g == Face(handle_message(client[s], m))
         IN Handled(f, m, g) /\ Announces(s, 1, g)
<1> DEFINE f == Face(client[s])
           m == server_queues[s][1]
<1>1. /\ Len(server_queues[s]) \in Nat \ {0} /\ Head(server_queues[s]) = m
  BY QueueHead
<1>2. f = Face(client[s])
  OBVIOUS
<1> HIDE DEF f
<1>3. Announces(s, 0, f)
  BY <1>2, FaceAlive DEF FollowInv, FollowsOK, Owed
<1>4. Handled(f, m, handle_message(f, m)) /\ Announces(s, 1, handle_message(f, m))
  <2>1. 0 + 1 = 1 /\ 0 < Len(server_queues[s]) /\ 0 \in Nat
    BY <1>1
  <2>2. /\ Handled(f, server_queues[s][0 + 1], handle_message(f, server_queues[s][0 + 1]))
        /\ Announces(s, 0 + 1, handle_message(f, server_queues[s][0 + 1]))
    BY <1>1, <1>3, <2>1, ToldNext
  <2> QED BY <2>1, <2>2
<1>5. Face(handle_message(client[s], m)) = handle_message(f, m)
  <2>1. {"state", "roster", "view"} \subseteq DOMAIN client[s]
    BY DEF SInv, SessionTypes, ClientOK, ClientFields
  <2> QED BY <1>2, <2>1, FaceOfHandled
<1> HIDE DEF m
<1> QED BY <1>1, <1>2, <1>4, <1>5

LEMMA SendFollows ==
  ASSUME SInv, FollowInv, NEW s \in Servers, send_to_client(s)
  PROVE  FollowInv'
<1> DEFINE m == Head(server_queues[s])
<1>1. /\ ServerPop(s) /\ slot' = slot
      /\ slot[s] = "serving"
      /\ client'[s] = IF Alive(client[s]) THEN handle_message(client[s], m) ELSE client[s]
      /\ \A t \in Servers \ {s} : client'[t] = client[t]
  BY DEF send_to_client, SInv, SessionTypes, threads
<1>2. \A t \in Servers \ {s} : FollowsOK(t)'
  BY <1>1, PoppedFollows
<1> HIDE DEF m
<1>3. CASE Alive(client[s])
  <2>1. PICK g : g = Face(client'[s])
    OBVIOUS
  <2>2. Announces(s, 1, g)
    <3>1. Face(client'[s]) = Face(handle_message(client[s], m))
      BY <1>1, <1>3
    <3>2. Announces(s, 1, Face(handle_message(client[s], m)))
      BY <1>1, <1>3, SentHandled DEF m
    <3> QED BY <2>1, <3>1, <3>2
  <2>3. Announces(s, 0, g)'
    <3>1. 0 + 1 <= Len(server_queues[s]) /\ Announces(s, 0 + 1, g)
      BY <1>1, <2>2, QueueHead
    <3> QED BY <1>1, <3>1, ToldShifts DEF SInv
  <2>4. Owed(s, g)'
    BY <1>1, <2>3 DEF Owed
  <2>5. FollowsOK(s)'
    BY <2>1, <2>4 DEF FollowsOK
  <2> QED BY <1>2, <2>5 DEF FollowInv
<1>4. CASE ~Alive(client[s])
  <2>1. FollowsOK(s)'
    BY <1>1, <1>4, GoneFollows
  <2> QED BY <1>2, <2>1 DEF FollowInv
<1> QED BY <1>3, <1>4

LEMMA OutlivedSenderFollows ==
  ASSUME SInv, FollowInv, NEW s \in Servers, OutlivedSender(s)
  PROVE  FollowInv'
<1> DEFINE c == client[s]
           d == Mislead(c)
<1>1. /\ ServerPop(s) \/ UNCHANGED vars
      /\ slot' = slot
      /\ client'[s] = d /\ ClientOK(c)
      /\ \A t \in Servers \ {s} : client'[t] = client[t]
  BY DEF OutlivedSender, SInv, SessionTypes
<1>2. \A t \in Servers \ {s} : FollowsOK(t)'
  <2>1. CASE ServerPop(s)
    BY <1>1, <2>1, PoppedFollows
  <2>2. CASE UNCHANGED vars
    <3>1. UNCHANGED Shown /\ server_queues' = server_queues
      BY <2>2 DEF vars, Shown
    <3> QED BY <1>1, <3>1, FollowsKept DEF FollowInv
  <2> QED BY <1>1, <2>1, <2>2
<1>3. ~Alive(client'[s])
  <2> HIDE DEF c
  <2>1. ~Alive(d)
    BY <1>1 DEF Mislead, Alive, ClientOK, ClientFields
  <2> QED BY <1>1, <2>1
<1> QED BY <1>2, <1>3, GoneFollows DEF FollowInv

-----------------------------------------------------------------------------
(* What the server pushes to everyone *)

LEMMA FacesOfOne ==
  ASSUME NEW f, NEW g, NEW m, Handled(f, m, g)
  PROVE  \E e : Faces(e, f, g, 0, <<m>>)
<1> DEFINE e == [k \in {0, 1} |-> IF k = 0 THEN f ELSE g]
<1>1. e[0] = f /\ e[1] = g
  OBVIOUS
<1>2. Len(<<m>>) = 1 /\ <<m>>[1] = m
  OBVIOUS
<1> HIDE DEF e
<1>3. \A k \in 0 + 1 .. 1 : k = 1 /\ k - 1 = 0
  OBVIOUS
<1>4. \A k \in 0 + 1 .. 1 : Handled(e[k - 1], <<m>>[k], e[k])
  BY <1>1, <1>2, <1>3
<1>5. Faces(e, f, g, 0, <<m>>)
  BY <1>1, <1>2, <1>4 DEF Faces
<1> QED BY <1>5

LEMMA FacesOfTwo ==
  ASSUME NEW f, NEW g, NEW m, Handled(f, m, g), NEW n, NEW h, Handled(g, n, h)
  PROVE  \E e : Faces(e, f, h, 0, <<m, n>>)
<1> DEFINE e == [k \in {0, 1, 2} |-> IF k = 0 THEN f ELSE IF k = 1 THEN g ELSE h]
<1>1. e[0] = f /\ e[1] = g /\ e[2] = h
  OBVIOUS
<1>2. Len(<<m, n>>) = 2 /\ <<m, n>>[1] = m /\ <<m, n>>[2] = n
  OBVIOUS
<1> HIDE DEF e
<1>3. \A k \in 0 + 1 .. 2 : \/ k = 1 /\ k - 1 = 0
                            \/ k = 2 /\ k - 1 = 1
  OBVIOUS
<1>4. \A k \in 0 + 1 .. 2 : Handled(e[k - 1], <<m, n>>[k], e[k])
  BY <1>1, <1>2, <1>3
<1>5. Faces(e, f, h, 0, <<m, n>>)
  BY <1>1, <1>2, <1>4 DEF Faces
<1> QED BY <1>5

LEMMA FacesOfThree ==
  ASSUME NEW f, NEW g, NEW m, Handled(f, m, g), NEW n, NEW h, Handled(g, n, h),
         NEW o, NEW i, Handled(h, o, i)
  PROVE  \E e : Faces(e, f, i, 0, <<m, n, o>>)
<1> DEFINE e == [k \in {0, 1, 2, 3} |->
                   IF k = 0 THEN f ELSE IF k = 1 THEN g ELSE IF k = 2 THEN h ELSE i]
<1>1. e[0] = f /\ e[1] = g /\ e[2] = h /\ e[3] = i
  OBVIOUS
<1>2. /\ Len(<<m, n, o>>) = 3
      /\ <<m, n, o>>[1] = m /\ <<m, n, o>>[2] = n /\ <<m, n, o>>[3] = o
  OBVIOUS
<1> HIDE DEF e
<1>3. \A k \in 0 + 1 .. 3 : \/ k = 1 /\ k - 1 = 0
                            \/ k = 2 /\ k - 1 = 1
                            \/ k = 3 /\ k - 1 = 2
  OBVIOUS
<1>4. \A k \in 0 + 1 .. 3 : Handled(e[k - 1], <<m, n, o>>[k], e[k])
  BY <1>1, <1>2, <1>3
<1>5. Faces(e, f, i, 0, <<m, n, o>>)
  BY <1>1, <1>2, <1>4 DEF Faces
<1> QED BY <1>5

\* A message that fits the client's state.
LEMMA FittingHandled ==
  ASSUME NEW f, IsFace(f), NEW m, NEW g, g = handle_message(f, m), g.state # "EXITED",
         m.id = "SC_GAME_ENDED" => m.scores = f.view.scores
  PROVE  Handled(f, m, g)
BY FaceHandled DEF Handled

LEMMA WelcomedHandled ==
  ASSUME IInv, NEW s \in Servers, NEW name \in Names, Seated(s, name),
         NEW f, IsFace(f), UpToDate(f)
  PROVE  \E g : /\ Handled(f, Welcomed(name), g)
                /\ g.state = "IN_LOBBY" /\ g.view = NewView
                /\ g.roster = [i \in DOMAIN Joined(name) |-> Joined(name)[i].name]
<1> DEFINE ps == Joined(name)
           n == Len(players)
           m == Welcomed(name)
           g == handle_message(f, m)
<1>1. /\ game_state = "LOBBY"
      /\ f.state = "IN_LOBBY" /\ f.view = NewView
      /\ f.roster = [i \in DOMAIN players |-> players[i].name]
  BY DEF Seated, may_join, UpToDate
<1>2. /\ DOMAIN players = 1 .. n /\ n \in Nat
      /\ DOMAIN ps = 1 .. n + 1
      /\ Len(ps) = n + 1 /\ ps[n + 1] = NewPlayer(name)
      /\ \A i \in 1 .. n : ps[i] = players[i]
  <2>1. /\ DOMAIN ps = 1 .. Len(ps)
        /\ DOMAIN players = 1 .. n /\ n \in Nat
    BY JoinedPlayers, LenProperties DEF IInv, TypeOK
  <2>2. NewPlayer(name) \in PlayerType
    BY DEF NewPlayer, PlayerType
  <2>3. /\ Len(ps) = n + 1 /\ ps[n + 1] = NewPlayer(name)
        /\ \A i \in 1 .. n : ps[i] = players[i]
    BY <2>2, AppendProperties DEF Joined, IInv, TypeOK
  <2> HIDE DEF ps, n
  <2> QED BY <2>1, <2>3
<1>3. m.id = "SC_ACCEPTED_PLAYER" /\ m.player = [id |-> n + 1, name |-> name]
  BY <1>2 DEF Welcomed, Accepted, NewPlayer
<1>4. ps[n + 1].name = name
  BY <1>2 DEF NewPlayer
<1> HIDE DEF ps, n, m
<1>5. g = [state |-> "IN_LOBBY", roster |-> add_player(f.roster, m.player), view |-> f.view]
  BY <1>1, <1>3, FaceHandled
<1>6. add_player(f.roster, m.player) = [i \in DOMAIN ps |-> ps[i].name]
  <2>1. add_player(f.roster, m.player)
          = [i \in 1 .. n \cup {n + 1} |-> IF i = n + 1 THEN name ELSE players[i].name]
    BY <1>1, <1>2, <1>3 DEF add_player
  <2>2. 1 .. n \cup {n + 1} = DOMAIN ps
    BY <1>2
  <2>3. \A i \in DOMAIN ps : (IF i = n + 1 THEN name ELSE players[i].name) = ps[i].name
    BY <1>2, <1>4
  <2> QED BY <2>1, <2>2, <2>3
<1>7. g.state = "IN_LOBBY" /\ g.view = NewView /\ g.roster = [i \in DOMAIN ps |-> ps[i].name]
  BY <1>1, <1>5, <1>6
<1>8. Handled(f, m, g)
  BY <1>3, <1>7, FittingHandled
<1> HIDE DEF g
<1> QED BY <1>7, <1>8 DEF ps, m

LEMMA JoinCarries ==
  ASSUME IInv, NEW s \in Servers, NEW name \in Names, Seated(s, name),
         players' = Joined(name), UNCHANGED game_state
  PROVE  Carries(<<Welcomed(name)>>)
<1> SUFFICES ASSUME NEW f, IsFace(f), UpToDate(f)
             PROVE  \E e, g : Faces(e, f, g, 0, <<Welcomed(name)>>) /\ (Lasting(g))'
  BY DEF Carries
<1>1. PICK g : /\ Handled(f, Welcomed(name), g)
               /\ g.state = "IN_LOBBY" /\ g.view = NewView
               /\ g.roster = [i \in DOMAIN Joined(name) |-> Joined(name)[i].name]
  BY WelcomedHandled
<1>2. game_state' = "LOBBY"
  BY DEF Seated, may_join
<1>3. (Lasting(g))'
  BY <1>1, <1>2 DEF Lasting, UpToDate
<1> QED BY <1>1, <1>3, FacesOfOne

LEMMA StartCarries ==
  ASSUME IInv, NEW s \in Servers, NEW name \in Names, Seated(s, name),
         NEW n \in Nat, DOMAIN players' = 1 .. n, DOMAIN Joined(name) = 1 .. n,
         NEW positions \in [1 .. n -> Cells], NEW initial,
         \A i \in 1 .. n : /\ players'[i].position = positions[i]
                           /\ players'[i].score = 0
                           /\ players'[i].name = Joined(name)[i].name,
         blocks' = initial, bombs' = <<>>, game_state' = "GAME"
  PROVE  Carries(<<Welcomed(name), GameStarted(Joined(name)),
                   TurnMessage(Turn0(positions, initial))>>)
<1> DEFINE gamers == GameStarted(Joined(name)).players
           m == GameStarted(Joined(name))
           t == Turn0(positions, initial)
           o == TurnMessage(t)
<1> SUFFICES ASSUME NEW f, IsFace(f), UpToDate(f)
             PROVE  \E e, g : Faces(e, f, g, 0, <<Welcomed(name), m, o>>) /\ (Lasting(g))'
  BY DEF Carries
<1>12. PICK g : /\ Handled(f, Welcomed(name), g)
                /\ g.state = "IN_LOBBY" /\ g.view = NewView
                /\ g.roster = [i \in DOMAIN Joined(name) |-> Joined(name)[i].name]
  BY WelcomedHandled
<1>1. Handled(f, Welcomed(name), g) /\ g.state = "IN_LOBBY" /\ g.view = NewView
  BY <1>12
<1>2. m.id = "SC_GAME_STARTED" /\ o.id = "SC_TURN" /\ o.turn = t /\ m.players = gamers
  BY DEF GameStarted, TurnMessage
<1>3. gamers = [i \in 1 .. n |-> Joined(name)[i].name] /\ DOMAIN gamers = 1 .. n
  BY DEF GameStarted
<1> DEFINE v == handle_turn(set_gamers(NewView, gamers), t)
<1>4. /\ v.players = gamers /\ v.player_positions = positions /\ v.blocks = initial
      /\ v.bombs = <<>> /\ v.scores = [i \in 1 .. n |-> 0]
  <2> HIDE DEF gamers
  <2> QED BY <1>3, StartAgrees
<1> DEFINE u == set_gamers(NewView, gamers)
           h == [state |-> "IN_GAME", roster |-> g.roster, view |-> u]
           d == [state |-> "IN_GAME", roster |-> g.roster, view |-> v]
<1>5. v = handle_turn(u, t) /\ u = set_gamers(NewView, gamers)
  OBVIOUS
<1> HIDE DEF m, t, o, u, v, gamers
<1>6. Handled(g, m, h)
  <2>1. IsFace(g)
    BY <1>1 DEF Handled
  <2>2. handle_message(g, m) = h
    BY <1>1, <1>2, <1>5, <2>1, FaceHandled
  <2> QED BY <1>2, <2>1, <2>2, FittingHandled
<1>7. Handled(h, o, d)
  <2>1. IsFace(h)
    BY <1>6 DEF Handled
  <2>2. handle_message(h, o) = d
    BY <1>2, <1>5, <2>1, FaceHandled, ZenonT(40)
  <2> QED BY <1>2, <2>1, <2>2, FittingHandled
<1>8. /\ gamers = [i \in DOMAIN players' |-> players'[i].name]
      /\ positions = [i \in DOMAIN players' |-> players'[i].position]
      /\ [i \in 1 .. n |-> 0] = [i \in DOMAIN players' |-> players'[i].score]
  BY <1>3
<1>9. PICK face : face = d
  OBVIOUS
<1>10. (Lasting(face))'
  <2>1. face.state = "IN_GAME" /\ face.view = v
    BY <1>9
  <2> HIDE DEF d
  <2> QED BY <1>4, <1>8, <2>1 DEF Lasting, UpToDate
<1> HIDE DEF h, d
<1>11. \E e : Faces(e, f, face, 0, <<Welcomed(name), m, o>>)
  BY <1>1, <1>6, <1>7, <1>9, FacesOfThree
<1> QED BY <1>10, <1>11

\* A client that shows the game w.
Shows(g, w) ==
  /\ g.state = "IN_GAME"
  /\ g.view.players = [i \in DOMAIN w.players |-> w.players[i].name]
  /\ g.view.player_positions = [i \in DOMAIN w.players |-> w.players[i].position]
  /\ g.view.scores = [i \in DOMAIN w.players |-> w.players[i].score]
  /\ g.view.blocks = w.blocks
  /\ g.view.bombs = w.bombs

LEMMA TurnCarries ==
  ASSUME IInv, clock = "sleeping", NEW respawn \in [DestroyedRobots(World) -> Cells],
         NEW f, IsFace(f), UpToDate(f)
  PROVE  \E g : /\ Handled(f, TurnMessage(TurnEvents(World, respawn, current_turn)), g)
                /\ Shows(g, Played(World, respawn))
<1> DEFINE t     == TurnEvents(World, respawn, current_turn)
           after == Played(World, respawn)
           ps    == after.players
           n     == Len(players)
           v     == f.view
           m     == TurnMessage(t)
           g     == handle_message(f, m)
<1>1. game_state = "GAME" /\ DOMAIN players = 1 .. n
  BY LenProperties DEF IInv, NoTurnInLobby, TypeOK
<1>2. f.state = "IN_GAME" /\ v.players = [i \in DOMAIN players |-> players[i].name]
  BY <1>1 DEF UpToDate
<1>3. Agree(v, World, n)
  BY <1>1 DEF Agree, UpToDate, World
<1>4. /\ Agree(handle_turn(v, t), after, n)
      /\ \A i \in DOMAIN players : ps[i].name = players[i].name
      /\ DOMAIN ps = DOMAIN players
  <2> HIDE DEF v
  <2> QED BY <1>3, TurnFollowed
<1>5. m.id = "SC_TURN" /\ m.turn = t
  BY DEF TurnMessage
<1> HIDE DEF t, after, m, n
<1>6. g = [state |-> "IN_GAME", roster |-> f.roster, view |-> handle_turn(v, t)]
  BY <1>2, <1>5, FaceHandled, ZenonT(40)
<1>7. handle_turn(v, t).players = v.players
  BY DEF handle_turn
<1> DEFINE w == handle_turn(v, t)
<1> HIDE DEF w, v
<1>8. /\ w.players = [i \in DOMAIN ps |-> ps[i].name]
      /\ w.player_positions = [i \in DOMAIN ps |-> ps[i].position]
      /\ w.scores = [i \in DOMAIN ps |-> ps[i].score]
      /\ w.blocks = after.blocks
      /\ w.bombs = after.bombs
  <2>1. Agree(w, after, n) /\ w.players = v.players
    BY <1>4, <1>7 DEF w
  <2>2. DOMAIN ps = 1 .. n
    BY <1>1, <1>4
  <2>3. v.players = [i \in DOMAIN ps |-> ps[i].name]
    BY <1>2, <1>4
  <2> QED BY <2>1, <2>2, <2>3 DEF Agree
<1>9. g.state = "IN_GAME" /\ g.view = w
  BY <1>6 DEF w
<1>10. Handled(f, m, g)
  BY <1>5, <1>9, FittingHandled
<1>11. Shows(g, after)
  BY <1>8, <1>9 DEF Shows
<1> QED BY <1>10, <1>11 DEF t, after, m

LEMMA PlayCarries ==
  ASSUME IInv, clock = "sleeping", NEW respawn \in [DestroyedRobots(World) -> Cells],
         players' = Played(World, respawn).players,
         blocks' = Played(World, respawn).blocks,
         bombs' = Played(World, respawn).bombs,
         UNCHANGED game_state
  PROVE  Carries(<<TurnMessage(TurnEvents(World, respawn, current_turn))>>)
<1> DEFINE m == TurnMessage(TurnEvents(World, respawn, current_turn))
<1> SUFFICES ASSUME NEW f, IsFace(f), UpToDate(f)
             PROVE  \E e, g : Faces(e, f, g, 0, <<m>>) /\ (Lasting(g))'
  BY DEF Carries
<1>1. PICK g : Handled(f, m, g) /\ Shows(g, Played(World, respawn))
  BY TurnCarries
<1>2. game_state' = "GAME"
  BY DEF IInv, NoTurnInLobby
<1> HIDE DEF m
<1>3. (Lasting(g))'
  BY <1>1, <1>2 DEF Lasting, UpToDate, Shows
<1> QED BY <1>1, <1>3, FacesOfOne

LEMMA EndCarries ==
  ASSUME IInv, clock = "sleeping", NEW respawn \in [DestroyedRobots(World) -> Cells],
         players' = <<>>, game_state' = "LOBBY"
  PROVE  Carries(<<TurnMessage(TurnEvents(World, respawn, current_turn)),
                   GameEnded(Played(World, respawn).players)>>)
<1> DEFINE m == TurnMessage(TurnEvents(World, respawn, current_turn))
           ps == Played(World, respawn).players
           o == GameEnded(ps)
<1> SUFFICES ASSUME NEW f, IsFace(f), UpToDate(f)
             PROVE  \E e, g : Faces(e, f, g, 0, <<m, o>>) /\ (Lasting(g))'
  BY DEF Carries
<1>1. PICK g : Handled(f, m, g) /\ Shows(g, Played(World, respawn))
  BY TurnCarries
<1>6. g.state = "IN_GAME" /\ g.view.scores = [i \in DOMAIN ps |-> ps[i].score]
  BY <1>1 DEF Shows
<1>2. o.id = "SC_GAME_ENDED" /\ o.scores = [i \in DOMAIN ps |-> ps[i].score]
  BY DEF GameEnded
<1> HIDE DEF m, ps, o
<1>3. PICK h : h = [state |-> "IN_LOBBY", roster |-> <<>>, view |-> NewView]
  OBVIOUS
<1>4. Handled(g, o, h)
  <2>1. IsFace(g)
    BY <1>1 DEF Handled
  <2>2. handle_message(g, o) = h
    BY <1>2, <1>3, <1>6, <2>1, FaceHandled
  <2>3. h.state # "EXITED" /\ o.scores = g.view.scores
    BY <1>2, <1>3, <1>6
  <2> QED BY <2>1, <2>2, <2>3, FittingHandled
<1>5. (Lasting(h))'
  <2>1. <<>> = [i \in DOMAIN players' |-> players'[i].name]
    BY EmptySequence
  <2>2. h.state = "IN_LOBBY" /\ h.roster = <<>> /\ h.view = NewView
    BY <1>3
  <2> QED BY <2>1, <2>2 DEF Lasting, UpToDate
<1> QED BY <1>1, <1>4, <1>5, FacesOfTwo

-----------------------------------------------------------------------------
(* The main loop and the clock, as clients see them *)

LEMMA PushedFollows ==
  ASSUME SInv, FollowInv, NEW ms, IsSequence(ms), NoReset(ms), Broadcast(ms), Carries(ms),
         UNCHANGED <<slot, client>>
  PROVE  FollowInv'
<1> SUFFICES ASSUME NEW t \in Servers, NEW f, f = Face(client[t]), Alive(f)
             PROVE  Owed(t, f)'
  BY DEF FollowInv, FollowsOK
<1>1. server_queues'[t] = server_queues[t] \o ms /\ IsSequence(server_queues[t])
  BY DEF Broadcast, SInv, IInv, TypeOK
<1>2. Answers(t)' = Answers(t)
  BY BroadcastAnswers DEF SInv, IInv
<1>3. /\ Len(server_queues[t]) \in Nat /\ 0 \in 0 .. Len(server_queues[t])
      /\ \A a \in Answers(t) : a \in 0 .. Len(server_queues[t])
  <2>1. Len(server_queues[t]) \in Nat /\ DOMAIN server_queues[t] = 1 .. Len(server_queues[t])
    BY <1>1, SequenceLen
  <2> QED BY <2>1 DEF Answers
<1>4. IsFace(f) /\ Owed(t, f)
  BY FaceAlive DEF FollowInv, FollowsOK
<1>5. ASSUME NEW a \in 0 .. Len(server_queues[t]), Announces(t, a, f) PROVE Announces(t, a, f)'
  BY <1>1, <1>4, <1>5, Pushed
<1> QED BY <1>2, <1>3, <1>4, <1>5 DEF Owed

LEMMA JoinFollows ==
  ASSUME SInv, FollowInv, NEW s \in Servers, NEW name \in Names, handle_join(s, name),
         UNCHANGED <<slot, client>>
  PROVE  FollowInv'
<1>0. IInv
  BY DEF SInv
<1>1. /\ Seated(s, name)
      /\ \/ start_game(Joined(name), Welcomed(name))
         \/ /\ players' = Joined(name) /\ Broadcast(<<Welcomed(name)>>)
            /\ UNCHANGED game_state
  BY DEF handle_join, Seated, Joined, Welcomed
<1>2. CASE start_game(Joined(name), Welcomed(name))
  <2>1. PICK positions \in [DOMAIN players' -> Cells], initial \in InitialBlockSets :
          /\ DOMAIN players' = DOMAIN Joined(name)
          /\ DOMAIN players' = 1 .. Len(players') /\ Len(players') \in Nat
          /\ \A i \in DOMAIN players' : /\ players'[i].position = positions[i]
                                        /\ players'[i].score = 0
                                        /\ players'[i].name = Joined(name)[i].name
          /\ blocks' = initial /\ bombs' = <<>>
          /\ game_state' = "GAME"
          /\ Broadcast(<<Welcomed(name), GameStarted(Joined(name)),
                         TurnMessage(Turn0(positions, initial))>>)
    BY <1>0, <1>1, <1>2, GameStarts
  <2> DEFINE ms == <<Welcomed(name), GameStarted(Joined(name)),
                     TurnMessage(Turn0(positions, initial))>>
  <2>2. PICK n \in Nat : n = Len(players')
    BY <2>1
  <2>3. Carries(ms)
    <3>1. /\ DOMAIN players' = 1 .. n /\ DOMAIN Joined(name) = 1 .. n
          /\ positions \in [1 .. n -> Cells]
          /\ \A i \in 1 .. n : /\ players'[i].position = positions[i]
                               /\ players'[i].score = 0
                               /\ players'[i].name = Joined(name)[i].name
      BY <2>1, <2>2
    <3> QED BY <1>0, <1>1, <2>1, <3>1, StartCarries
  <2>4. IsSequence(ms)
    BY ShortSequences
  <2>5. NoReset(ms)
    BY ShortNoReset, MessageIds DEF Welcomed
  <2>6. Broadcast(ms)
    BY <2>1
  <2> HIDE DEF ms
  <2> QED BY <2>3, <2>4, <2>5, <2>6, PushedFollows
<1>3. CASE /\ players' = Joined(name) /\ Broadcast(<<Welcomed(name)>>)
           /\ UNCHANGED game_state
  <2> DEFINE ms == <<Welcomed(name)>>
  <2>1. Carries(ms)
    BY <1>0, <1>1, <1>3, JoinCarries
  <2>2. IsSequence(ms)
    BY ShortSequences
  <2>3. NoReset(ms)
    BY ShortNoReset, MessageIds DEF Welcomed
  <2>4. Broadcast(ms)
    BY <1>3
  <2> HIDE DEF ms
  <2> QED BY <2>1, <2>2, <2>3, <2>4, PushedFollows
<1> QED BY <1>1, <1>2, <1>3

LEMMA TurnFollows ==
  ASSUME SInv, FollowInv, make_turn, UNCHANGED <<slot, client>>
  PROVE  FollowInv'
<1>0. IInv /\ clock = "sleeping"
  BY DEF SInv, make_turn
<1>1. PICK respawn \in [DestroyedRobots(World) -> Cells] :
        \/ /\ players' = Played(World, respawn).players
           /\ blocks' = Played(World, respawn).blocks
           /\ bombs' = Played(World, respawn).bombs
           /\ Broadcast(<<TurnMessage(TurnEvents(World, respawn, current_turn))>>)
           /\ UNCHANGED game_state
        \/ /\ Broadcast(<<TurnMessage(TurnEvents(World, respawn, current_turn)),
                          GameEnded(Played(World, respawn).players)>>)
           /\ clear_game_state
  BY DEF make_turn
<1> DEFINE m == TurnMessage(TurnEvents(World, respawn, current_turn))
           o == GameEnded(Played(World, respawn).players)
<1>2. NoReset(<<m>>) /\ NoReset(<<m, o>>) /\ IsSequence(<<m>>) /\ IsSequence(<<m, o>>)
  <2>1. m.id # "RESET_SERVER" /\ o.id # "RESET_SERVER"
    BY MessageIds
  <2> HIDE DEF m, o
  <2> QED BY <2>1, ShortNoReset, ShortSequences
<1>3. CASE /\ players' = Played(World, respawn).players
           /\ blocks' = Played(World, respawn).blocks
           /\ bombs' = Played(World, respawn).bombs
           /\ Broadcast(<<m>>)
           /\ UNCHANGED game_state
  <2>1. Carries(<<m>>)
    BY <1>0, <1>3, PlayCarries
  <2> HIDE DEF m
  <2> QED BY <1>2, <1>3, <2>1, PushedFollows
<1>4. CASE Broadcast(<<m, o>>) /\ clear_game_state
  <2>1. Carries(<<m, o>>)
    BY <1>0, <1>4, EndCarries DEF clear_game_state
  <2> HIDE DEF m, o
  <2> QED BY <1>2, <1>4, <2>1, PushedFollows
<1> QED BY <1>1, <1>3, <1>4

\* Nobody sees an action before the turn it is carried out in.
LEMMA ActionFollows ==
  ASSUME SInv, FollowInv, NEW s \in Servers, NEW action \in Action, handle_action(s, action),
         UNCHANGED <<slot, client>>
  PROVE  FollowInv'
<1> DEFINE seat == playing_servers[s]
           p == [players[seat] EXCEPT !.action = action]
<1>1. /\ players' = [players EXCEPT ![seat] = p]
      /\ UNCHANGED <<game_state, blocks, bombs, server_queues>>
      /\ seat \in DOMAIN players
  BY DEF handle_action, is_playing, gameVars, SInv, IInv, SeatsDistinct
<1>2. players[seat] \in PlayerType
  BY <1>1, LenProperties, ElementOfSeq DEF SInv, IInv, TypeOK
<1>3. /\ p.name = players[seat].name /\ p.position = players[seat].position
      /\ p.score = players[seat].score
  BY <1>2 DEF PlayerType
<1> HIDE DEF seat, p
<1>4. DOMAIN players' = DOMAIN players
      /\ \A i \in DOMAIN players : /\ players'[i].name = players[i].name
                                   /\ players'[i].position = players[i].position
                                   /\ players'[i].score = players[i].score
  BY <1>1, <1>3
<1>5. UNCHANGED Shown
  <2>1. /\ [i \in DOMAIN players' |-> players'[i].name] = [i \in DOMAIN players |-> players[i].name]
        /\ [i \in DOMAIN players' |-> players'[i].position]
             = [i \in DOMAIN players |-> players[i].position]
        /\ [i \in DOMAIN players' |-> players'[i].score]
             = [i \in DOMAIN players |-> players[i].score]
    BY <1>4
  <2> QED BY <1>1, <2>1 DEF Shown
<1> QED BY <1>1, <1>5, FollowsKept DEF FollowInv

-----------------------------------------------------------------------------
(* What a new client is told *)

LEMMA WelcomeIndices ==
  ASSUME IInv
  PROVE  \E n \in Nat :
           /\ n = IF game_state = "LOBBY" THEN Len(players) ELSE Len(game_turns)
           /\ IsSequence(Welcome) /\ Len(Welcome) = n + 2
           /\ Welcome[1] = Reset /\ Welcome[2] = Hello
           /\ \A i \in 1 .. n :
                Welcome[i + 2] = IF game_state = "LOBBY" THEN Accepted(i, players[i])
                                 ELSE TurnMessage(game_turns[i])
<1> DEFINE n == IF game_state = "LOBBY" THEN Len(players) ELSE Len(game_turns)
           rest == IF game_state = "LOBBY"
                   THEN [i \in DOMAIN players |-> Accepted(i, players[i])]
                   ELSE [i \in DOMAIN game_turns |-> TurnMessage(game_turns[i])]
           two == <<Reset, Hello>>
           T == {rest[i] : i \in DOMAIN rest}
<1>1. /\ DOMAIN players = 1 .. Len(players) /\ Len(players) \in Nat
      /\ DOMAIN game_turns = 1 .. Len(game_turns) /\ Len(game_turns) \in Nat
  BY LenProperties, SequenceLen DEF IInv, TypeOK
<1>2. /\ n \in Nat /\ DOMAIN rest = 1 .. n
      /\ \A i \in 1 .. n : rest[i] = IF game_state = "LOBBY" THEN Accepted(i, players[i])
                                     ELSE TurnMessage(game_turns[i])
      /\ rest \in [1 .. n -> T]
  BY <1>1
<1>3. Welcome = two \o rest
  BY DEF Welcome
<1>4. IsSequence(two) /\ Len(two) = 2 /\ two[1] = Reset /\ two[2] = Hello
  BY ShortSequences
<1> HIDE DEF rest, two, T
<1>5. n = IF game_state = "LOBBY" THEN Len(players) ELSE Len(game_turns)
  OBVIOUS
<1> HIDE DEF n
<1>6. IsSequence(rest) /\ Len(rest) = n
  BY <1>2, FunctionSequence
<1> DEFINE w == two \o rest
<1>7. /\ IsSequence(w) /\ DOMAIN w = 1 .. 2 + n
      /\ \A i \in 1 .. 2 + n : w[i] = IF i <= 2 THEN two[i] ELSE rest[i - 2]
  <2>1. /\ IsSequence(w) /\ DOMAIN w = 1 .. Len(two) + Len(rest)
        /\ \A i \in 1 .. Len(two) + Len(rest) :
             w[i] = IF i <= Len(two) THEN two[i] ELSE rest[i - Len(two)]
    BY <1>4, <1>6, ConcatIndices
  <2> HIDE DEF w
  <2> QED BY <1>4, <1>6, <2>1
<1> HIDE DEF w
<1>8. Len(w) = n + 2
  <2>1. Len(w) \in Nat /\ 1 .. Len(w) = 1 .. 2 + n
    BY <1>7, SequenceLen
  <2> QED BY <1>2, <2>1
<1>9. w[1] = Reset /\ w[2] = Hello
  <2>1. 1 \in 1 .. 2 + n /\ 2 \in 1 .. 2 + n
    BY <1>2
  <2> QED BY <1>4, <1>7, <2>1
<1>10. ASSUME NEW i \in 1 .. n PROVE w[i + 2] = rest[i]
  <2> DEFINE j == i + 2
  <2>1. j \in 1 .. 2 + n /\ ~ j <= 2 /\ j - 2 = i
    BY <1>2
  <2> HIDE DEF j
  <2>2. w[j] = rest[j - 2]
    BY <1>7, <2>1
  <2> QED BY <2>1, <2>2 DEF j
<1> QED BY <1>2, <1>3, <1>5, <1>7, <1>8, <1>9, <1>10, ZenonT(40) DEF w

\* From the answer on, a new client is told who is in the lobby, or is sent away
\* by the first turn of the game.
LEMMA WelcomeFaces ==
  ASSUME IInv
  PROVE  \E e, g : Faces(e, Fresh, g, 1, Welcome) /\ Lasting(g)
<1>1. PICK n \in Nat :
        /\ n = IF game_state = "LOBBY" THEN Len(players) ELSE Len(game_turns)
        /\ IsSequence(Welcome) /\ Len(Welcome) = n + 2
        /\ Welcome[1] = Reset /\ Welcome[2] = Hello
        /\ \A i \in 1 .. n :
             Welcome[i + 2] = IF game_state = "LOBBY" THEN Accepted(i, players[i])
                              ELSE TurnMessage(game_turns[i])
  BY WelcomeIndices
<1> DEFINE roster(i) == [j \in 1 .. i |-> players[j].name]
           later(i) == IF game_state = "LOBBY"
                       THEN [state |-> "IN_LOBBY", roster |-> roster(i), view |-> NewView]
                       ELSE [state |-> IF i = 0 THEN "IN_LOBBY" ELSE "EXITED",
                             roster |-> <<>>, view |-> NewView]
<1>2. IsFace(Fresh) /\ \A i : IsFace(later(i))
  BY DEF IsFace, Face, Fresh
<1>3. Handled(Fresh, Hello, later(0))
  <2>1. <<>> = roster(0)
    BY EmptySequence
  <2>2. later(0) = [state |-> "IN_LOBBY", roster |-> <<>>, view |-> NewView]
    BY <2>1
  <2> DEFINE l == later(0)
  <2> HIDE DEF l
  <2>3. Fresh.state = "IDLE" /\ Fresh.roster = <<>> /\ Fresh.view = NewView
    BY DEF Fresh
  <2>4. handle_message(Fresh, Hello) = l
    BY <1>2, <2>2, <2>3, FaceHandled, MessageIds DEF l
  <2>5. l.state # "EXITED"
    BY <2>2 DEF l
  <2>6. Handled(Fresh, Hello, l)
    BY <1>2, <2>4, <2>5, FittingHandled, MessageIds
  <2> QED BY <2>6 DEF l
<1>4. ASSUME NEW i \in 1 .. n PROVE Handled(later(i - 1), Welcome[i + 2], later(i))
  <2>1. CASE game_state = "LOBBY"
    <3> DEFINE f == later(i - 1)
               m == Accepted(i, players[i])
    <3>1. f.state = "IN_LOBBY" /\ f.roster = roster(i - 1) /\ f.view = NewView /\ IsFace(f)
      BY <1>2, <2>1
    <3>2. m.id = "SC_ACCEPTED_PLAYER" /\ m.player = [id |-> i, name |-> players[i].name]
          /\ Welcome[i + 2] = m
      BY <1>1, <2>1 DEF Accepted
    <3> HIDE DEF f, m
    <3>3. add_player(f.roster, m.player) = roster(i)
      <4>1. DOMAIN roster(i - 1) \cup {i} = 1 .. i
        OBVIOUS
      <4>2. add_player(roster(i - 1), m.player)
              = [j \in 1 .. i |-> IF j = i THEN players[i].name ELSE roster(i - 1)[j]]
        BY <3>2, <4>1 DEF add_player
      <4>3. ASSUME NEW j \in 1 .. i
            PROVE  (IF j = i THEN players[i].name ELSE roster(i - 1)[j]) = players[j].name
        <5>1. j # i => j \in 1 .. i - 1
          OBVIOUS
        <5> QED BY <5>1
      <4> QED BY <3>1, <4>2, <4>3
    <3> DEFINE g == later(i)
               r == roster(i)
    <3>4. g = [state |-> "IN_LOBBY", roster |-> r, view |-> NewView]
          /\ add_player(f.roster, m.player) = r
      BY <2>1, <3>3
    <3> HIDE DEF g, r
    <3>5. handle_message(f, m) =
            [state |-> "IN_LOBBY", roster |-> add_player(f.roster, m.player), view |-> f.view]
      BY <3>1, <3>2, FaceHandled
    <3>6. handle_message(f, m) = g
      BY <3>1, <3>4, <3>5
    <3>7. g.state # "EXITED"
      BY <3>4
    <3>8. Handled(f, m, g)
      BY <3>1, <3>2, <3>6, <3>7, FittingHandled
    <3> QED BY <3>2, <3>8 DEF f, g
  <2>2. CASE game_state # "LOBBY"
    <3>1. Welcome[i + 2] = TurnMessage(game_turns[i])
      BY <1>1, <2>2
    <3>2. CASE i = 1
      <4> DEFINE f == later(0)
                 g == later(1)
                 m == TurnMessage(game_turns[1])
      <4>1. m.id = "SC_TURN" /\ m.turn = game_turns[1]
        BY DEF TurnMessage
      <4>2. game_turns[1].turn = 0
        <5>1. 1 \in DOMAIN game_turns
          BY <1>1, <2>2, <3>2, SequenceLen DEF IInv, TypeOK
        <5>2. game_turns[1].turn = (1 - 1) % TurnMod
          BY <5>1 DEF IInv, TurnsNumbered
        <5> QED BY <5>2, GameMasterAssumption
      <4>3. f = [state |-> "IN_LOBBY", roster |-> <<>>, view |-> NewView]
            /\ g = [state |-> "EXITED", roster |-> <<>>, view |-> NewView]
            /\ IsFace(f)
        BY <1>2, <2>2
      <4> HIDE DEF f, g, m
      <4>4. handle_message(f, m) = g
        <5>1. f.state = "IN_LOBBY" /\ f.roster = <<>> /\ f.view = NewView
          BY <4>3
        <5>2. handle_message(f, m) = [state |-> "EXITED", roster |-> f.roster, view |-> f.view]
          BY <4>1, <4>3, <5>1, FaceHandled
        <5> QED BY <4>3, <5>1, <5>2
      <4>5. Handled(f, m, g)
        BY <4>1, <4>2, <4>3, <4>4, FaceHandled DEF Handled
      <4>6. i - 1 = 0
        BY <3>2
      <4> QED BY <3>1, <3>2, <4>5, <4>6 DEF f, g, m
    <3>3. CASE i # 1
      <4>1. later(i) = [state |-> "EXITED", roster |-> <<>>, view |-> NewView]
            /\ later(i - 1) = [state |-> "EXITED", roster |-> <<>>, view |-> NewView]
        BY <2>2, <3>3
      <4> DEFINE g == later(i)
      <4>2. IsFace(g) /\ g.state = "EXITED" /\ later(i - 1) = g
        BY <1>2, <4>1
      <4> HIDE DEF g
      <4>3. Handled(g, Welcome[i + 2], g)
        BY <4>2, ExitedHandles
      <4> QED BY <4>2, <4>3 DEF g
    <3> QED BY <3>2, <3>3
  <2> QED BY <2>1, <2>2
<1>5. Lasting(later(n))
  <2>1. CASE game_state = "LOBBY"
    <3>1. DOMAIN players = 1 .. n
      BY <1>1, <2>1, LenProperties DEF IInv, TypeOK
    <3>2. roster(n) = [i \in DOMAIN players |-> players[i].name]
      BY <3>1
    <3> QED BY <2>1, <3>2 DEF Lasting, UpToDate
  <2>2. CASE game_state # "LOBBY"
    <3>1. n # 0
      <4>1. game_turns # <<>> /\ IsSequence(game_turns)
        BY <2>2 DEF IInv, TypeOK, TurnsNumbered
      <4> QED BY <1>1, <2>2, <4>1, TailIndices
    <3> QED BY <2>2, <3>1 DEF Lasting
  <2> QED BY <2>1, <2>2
<1> DEFINE e == [k \in 1 .. n + 2 |-> IF k = 1 THEN Fresh ELSE later(k - 2)]
<1>6. e[1] = Fresh /\ \A i \in 0 .. n : e[i + 2] = later(i)
  <2>1. 1 \in 1 .. n + 2
    OBVIOUS
  <2>2. ASSUME NEW i \in 0 .. n PROVE e[i + 2] = later(i)
    <3>1. i + 2 \in 1 .. n + 2 /\ i + 2 # 1 /\ i + 2 - 2 = i
      OBVIOUS
    <3> HIDE DEF later
    <3> QED BY <3>1
  <2> QED BY <2>1, <2>2
<1> HIDE DEF e, later
<1>7. ASSUME NEW k \in 1 + 1 .. n + 2 PROVE Handled(e[k - 1], Welcome[k], e[k])
  <2>1. CASE k = 2
    <3>1. k - 1 = 1 /\ 0 \in 0 .. n /\ k = 0 + 2
      BY <2>1
    <3>2. e[k] = later(0) /\ e[k - 1] = Fresh
      BY <1>6, <3>1
    <3> QED BY <1>1, <1>3, <2>1, <3>2
  <2>2. CASE k # 2
    <3> DEFINE i == k - 2
               j == k - 3
    <3>1. i \in 1 .. n /\ i \in 0 .. n /\ j \in 0 .. n /\ k = i + 2 /\ k - 1 = j + 2 /\ i - 1 = j
      BY <2>2
    <3> HIDE DEF i, j
    <3>2. e[k] = later(i) /\ e[k - 1] = later(j)
      BY <1>6, <3>1
    <3>3. Handled(later(i - 1), Welcome[i + 2], later(i))
      BY <1>4, <3>1
    <3> QED BY <3>1, <3>2, <3>3
  <2> QED BY <2>1, <2>2
<1>8. e[n + 2] = later(n)
  <2>1. n \in 0 .. n
    OBVIOUS
  <2> QED BY <1>6, <2>1
<1>9. Faces(e, Fresh, later(n), 1, Welcome)
  BY <1>1, <1>6, <1>7, <1>8 DEF Faces
<1> QED BY <1>5, <1>9

\* The faces a sequence of messages gives, when it comes behind another one.
LEMMA FacesBehind ==
  ASSUME NEW q, NEW w, IsSequence(q), IsSequence(w), NEW a \in 0 .. Len(w),
         NEW e, NEW f, NEW g, Faces(e, f, g, a, w)
  PROVE  \E h : Faces(h, f, g, Len(q) + a, q \o w)
<1> DEFINE n == Len(q)
           l == Len(w)
           r == q \o w
           h == [k \in n .. n + l |-> e[k - n]]
<1>1. /\ n \in Nat /\ l \in Nat
      /\ IsSequence(r) /\ DOMAIN r = 1 .. n + l
      /\ \A i \in 1 .. n + l : r[i] = IF i <= n THEN q[i] ELSE w[i - n]
  BY ConcatIndices
<1>2. Len(r) \in Nat /\ 1 .. Len(r) = 1 .. n + l
  BY <1>1, SequenceLen
<1>3. /\ e[a] = f /\ e[l] = g
      /\ \A k \in a + 1 .. l : Handled(e[k - 1], w[k], e[k])
  BY DEF Faces
<1>4. a \in 0 .. l
  OBVIOUS
<1> HIDE DEF n, l, r
<1>5. Len(r) = n + l
  BY <1>1, <1>2
<1>6. \A k \in n .. n + l : h[k] = e[k - n]
  OBVIOUS
<1> HIDE DEF h
<1>7. ASSUME NEW k \in 0 .. l PROVE h[n + k] = e[k]
  <2> DEFINE j == n + k
  <2>1. j \in n .. n + l /\ j - n = k
    BY <1>1
  <2> HIDE DEF j
  <2>2. h[j] = e[k]
    BY <1>6, <2>1
  <2> QED BY <2>2 DEF j
<1>8. h[n + a] = f /\ h[n + l] = g
  <2>1. l \in 0 .. l
    BY <1>1
  <2> QED BY <1>3, <1>4, <1>7, <2>1
<1>9. ASSUME NEW k \in n + a + 1 .. n + l PROVE Handled(h[k - 1], r[k], h[k])
  <2> DEFINE i == k - n
             j == k - n - 1
  <2>1. /\ i \in a + 1 .. l /\ i - 1 = j
        /\ k \in n .. n + l /\ k - 1 \in n .. n + l /\ k - 1 - n = j
        /\ k \in 1 .. n + l /\ ~ k <= n
    BY <1>1, <1>4
  <2>2. r[k] = w[i] /\ h[k] = e[i]
    BY <1>1, <1>6, <2>1
  <2>3. h[k - 1] = e[j]
    <3> DEFINE k1 == k - 1
    <3>1. k1 \in n .. n + l /\ k1 - n = j
      BY <2>1
    <3> HIDE DEF k1, j
    <3>2. h[k1] = e[j]
      BY <1>6, <3>1
    <3> QED BY <3>2 DEF k1
  <2> HIDE DEF i, j
  <2>4. Handled(e[i - 1], w[i], e[i])
    BY <1>3, <2>1
  <2> QED BY <2>1, <2>2, <2>3, <2>4
<1>10. Faces(h, f, g, n + a, r)
  BY <1>5, <1>8, <1>9 DEF Faces
<1> QED BY <1>10 DEF n, r

LEMMA ResetFollows ==
  ASSUME SInv, FollowInv, NEW s \in Servers, reset_server(s), slot[s] = "resetting",
         Answers(s) = {}, UNCHANGED <<slot, client>>
  PROVE  FollowInv'
<1> DEFINE q == server_queues[s]
           n == Len(q)
<1>1. /\ UNCHANGED Shown
      /\ server_queues'[s] = q \o Welcome
      /\ \A t \in Servers \ {s} : server_queues'[t] = server_queues[t]
      /\ IsSequence(q)
  BY DEF reset_server, gameVars, Shown, SInv, IInv, TypeOK
<1>2. ASSUME NEW t \in Servers \ {s} PROVE FollowsOK(t)'
  BY <1>1, FollowsKept DEF FollowInv
<1>3. IsSequence(Welcome) /\ 1 \in 1 .. Len(Welcome) /\ 1 \in 0 .. Len(Welcome)
      /\ Welcome[1] = Reset
  <2>1. PICK k \in Nat : IsSequence(Welcome) /\ Len(Welcome) = k + 2 /\ Welcome[1] = Reset
    BY WelcomeIndices DEF SInv
  <2> QED BY <2>1
<1>4. n + 1 \in Answers(s)'
  <2> DEFINE r == q \o Welcome
  <2>1. /\ n \in Nat /\ Len(Welcome) \in Nat /\ DOMAIN r = 1 .. n + Len(Welcome)
        /\ \A i \in 1 .. n + Len(Welcome) : r[i] = IF i <= n THEN q[i] ELSE Welcome[i - n]
    BY <1>1, <1>3, ConcatIndices
  <2> HIDE DEF r, n
  <2> DEFINE j == n + 1
  <2>2. j \in 1 .. n + Len(Welcome) /\ ~ j <= n /\ j - n = 1
    BY <1>3, <2>1
  <2> HIDE DEF j
  <2>3. j \in DOMAIN r /\ r[j].id = "RESET_SERVER"
    BY <1>3, <2>1, <2>2, MessageIds
  <2>4. server_queues'[s] = r
    BY <1>1 DEF r
  <2> QED BY <2>3, <2>4 DEF Answers, j
<1>5. \A a \in Answers(s)' : a = n + 1
  BY <1>4, ResetSeats DEF SInv
<1>6. PICK a : a = n + 1
  OBVIOUS
<1>7. Announces(s, a, Fresh)'
  <2>1. PICK e, g : Faces(e, Fresh, g, 1, Welcome) /\ Lasting(g)
    BY WelcomeFaces DEF SInv
  <2>2. PICK h : Faces(h, Fresh, g, n + 1, q \o Welcome)
    BY <1>1, <1>3, <2>1, FacesBehind
  <2>3. (Lasting(g))'
    BY <1>1, <2>1, LastingKept
  <2>4. Faces(h, Fresh, g, a, server_queues'[s])
    BY <1>1, <1>6, <2>2
  <2> QED BY <2>3, <2>4 DEF Announces
<1>8. FollowsOK(s)'
  <2> SUFFICES ASSUME NEW f, f = Face(client[s]), Alive(f) PROVE Owed(s, f)'
    BY DEF FollowsOK
  <2>1. f = Fresh
    BY DEF FollowInv, FollowsOK, Owed
  <2>2. \A b \in Answers(s)' : b = a
    BY <1>5, <1>6
  <2> QED BY <1>7, <2>1, <2>2 DEF Owed
<1> QED BY <1>2, <1>8 DEF FollowInv

LEMMA MainLoopFollows ==
  ASSUME SInv, FollowInv, MainLoop
  PROVE  FollowInv'
<1> DEFINE m == Head(game_master_queue)
<1>1. /\ game_master_queue # <<>> /\ game_master_queue' = Tail(game_master_queue)
      /\ slot' = slot /\ client' = client
      /\ handle_server_message(m.server, m.message)
  BY DEF MainLoop, threads
<1>2. m = game_master_queue[1] /\ 1 \in DOMAIN game_master_queue
  BY <1>1, TailIndices DEF SInv, SessionTypes
<1>3. PICK s \in Servers, msg \in {m.message} :
        /\ s = m.server
        /\ msg.id = "RESET_SERVER" \/ SentMessage(msg)
  BY <1>2 DEF SInv, SessionTypes
<1>4. handle_server_message(s, msg)
  BY <1>1, <1>3
<1>5. CASE msg.id = "RESET_SERVER"
  <2>1. reset_server(s)
    BY <1>4, <1>5 DEF handle_server_message
  <2>2. 1 \in Requests(s)
    BY <1>2, <1>3, <1>5 DEF From, Requests
  <2>3. slot[s] = "resetting" /\ Answers(s) = {}
    <3>1. slot[s] \in {"accepting", "resetting", "serving"}
      BY DEF SInv, SessionTypes
    <3> QED BY <2>2, <3>1 DEF SInv, SlotOK, AcceptingOK, ResettingOK, ServingOK
  <2> QED BY <1>1, <2>1, <2>3, ResetFollows
<1>6. CASE msg.id = "CS_JOIN" /\ handle_join(s, msg.name)
  <2>1. msg.name \in Names
    BY <1>3, <1>6 DEF SentMessage
  <2> QED BY <1>1, <1>6, <2>1, JoinFollows
<1>7. CASE msg.id = "CS_ACTION" /\ handle_action(s, msg.action)
  <2>1. msg.action \in Action
    BY <1>3, <1>7, GameMasterAssumption DEF SentMessage
  <2> QED BY <1>1, <1>7, <2>1, ActionFollows
<1>8. CASE UNCHANGED vars
  <2>1. UNCHANGED Shown /\ server_queues' = server_queues
    BY <1>8 DEF vars, Shown
  <2> QED BY <1>1, <2>1, FollowsKept DEF FollowInv
<1> HIDE DEF m
<1> QED BY <1>4, <1>5, <1>6, <1>7, <1>8 DEF handle_server_message

LEMMA ClockFollows ==
  ASSUME SInv, FollowInv, Clock
  PROVE  FollowInv'
<1>1. UNCHANGED <<game_master_queue, slot, client>>
      /\ (ClockCheck \/ SpuriousWakeup \/ make_turn)
  BY DEF Clock, threads
<1>2. CASE ClockCheck \/ SpuriousWakeup
  <2>1. UNCHANGED Shown /\ server_queues' = server_queues
    BY <1>2 DEF ClockCheck, SpuriousWakeup, gameVars, Shown
  <2> QED BY <1>1, <2>1, FollowsKept DEF FollowInv
<1>3. CASE make_turn
  BY <1>1, <1>3, TurnFollows
<1> QED BY <1>1, <1>2, <1>3

LEMMA NextFollows == SInv /\ FollowInv /\ [SessionNext]_sessionVars => FollowInv'
<1>1. ASSUME SInv, FollowInv, UNCHANGED sessionVars PROVE FollowInv'
  <2>1. UNCHANGED Shown /\ UNCHANGED <<server_queues, slot, client>>
    BY <1>1 DEF sessionVars, threads, vars, Shown
  <2> QED BY <1>1, <2>1, FollowsKept DEF FollowInv
<1>2. ASSUME SInv, FollowInv, SessionNext PROVE FollowInv'
  <2>1. ASSUME NEW s \in Servers,
               \/ receive_from_client(s) \/ OutlivedReceiver(s)
               \/ \E action \in Inputs : GuiInput(s, action)
               \/ GuiForward(s) \/ MisledInput(s)
               \/ Close(s)
        PROVE  FollowInv'
    BY <1>2, <2>1, ClientFollows
  <2> QED BY <1>2, <2>1, AcceptFollows, ConnectFollows, SendFollows, DisconnectFollows,
             OutlivedSenderFollows, MainLoopFollows, ClockFollows DEF SessionNext
<1> QED BY <1>1, <1>2

LEMMA FollowInvariance == SessionSpec => [](SInv /\ FollowInv)
<1>1. SessionInit => FollowInv
  <2> SUFFICES ASSUME SessionInit, NEW s \in Servers, Alive(client[s]) PROVE FALSE
    BY FaceAlive DEF FollowInv, FollowsOK
  <2>1. PICK name \in Names : client[s] = NoClient(name)
    BY DEF SessionInit
  <2>2. client[s].state = "CLOSED"
    BY <2>1 DEF NoClient, NewClient
  <2> QED BY <2>2 DEF Alive
<1> QED BY <1>1, InitSession, NextSession, NextFollows, PTL DEF SessionSpec

-----------------------------------------------------------------------------
(* A client that handles its whole queue *)

Fed(c, q) == FoldLeft(handle_message, c, q)

\* What FoldLeft looks up in: the client after some of the messages.
MessagesFold(g, c, q, n) ==
  g = [s \in SUBSET (1 .. n) |->
         IF s = {} THEN c ELSE handle_message(g[s \ {Max(s)}], q[Max(s)])]

LEMMA MessagesFoldExists ==
  ASSUME NEW c, NEW q
  PROVE  \A n \in Nat : \E g : MessagesFold(g, c, q, n)
<1> DEFINE S == {n \in Nat : \E g : MessagesFold(g, c, q, n)}
<1>1. 0 \in S
  <2> DEFINE g == [s \in SUBSET (1 .. 0) |-> c]
  <2>1. MessagesFold(g, c, q, 0)
    BY DEF MessagesFold
  <2> QED BY <2>1
<1>2. ASSUME NEW n \in Nat, n \in S PROVE n + 1 \in S
  <2>1. PICK g : MessagesFold(g, c, q, n)
    BY <1>2
  <2> DEFINE f == [s \in SUBSET (1 .. n + 1) |->
                     IF n + 1 \in s THEN handle_message(g[s \ {n + 1}], q[n + 1]) ELSE g[s]]
             F(s) == IF s = {} THEN c ELSE handle_message(f[s \ {Max(s)}], q[Max(s)])
  <2>2. \A s \in SUBSET (1 .. n + 1) : n + 1 \notin s => s \in SUBSET (1 .. n)
    OBVIOUS
  <2>3. \A s \in SUBSET (1 .. n + 1) : n + 1 \notin s => f[s] = g[s]
    OBVIOUS
  <2>4. ASSUME NEW s \in SUBSET (1 .. n + 1) PROVE f[s] = F(s)
    <3>1. CASE n + 1 \in s
      <4>1. Max(s) = n + 1
        BY <3>1, MaxIsLast
      <4>2. f[s \ {n + 1}] = g[s \ {n + 1}]
        BY <2>3
      <4>3. f[s] = handle_message(g[s \ {n + 1}], q[n + 1])
        BY <3>1
      <4> HIDE DEF f
      <4> QED BY <3>1, <4>1, <4>2, <4>3
    <3>2. CASE n + 1 \notin s
      <4>1. s \in SUBSET (1 .. n) /\ f[s] = g[s]
        BY <2>2, <2>3, <3>2
      <4>2. f[s \ {Max(s)}] = g[s \ {Max(s)}]
        BY <2>3, <3>2
      <4>3. g[s] = IF s = {} THEN c ELSE handle_message(g[s \ {Max(s)}], q[Max(s)])
        BY <2>1, <4>1 DEF MessagesFold
      <4> HIDE DEF f
      <4> QED BY <4>1, <4>2, <4>3
    <3> QED BY <3>1, <3>2
  <2>5. f = [s \in SUBSET (1 .. n + 1) |-> F(s)]
    <3>1. f = [s \in SUBSET (1 .. n + 1) |-> f[s]]
      OBVIOUS
    <3> HIDE DEF f
    <3> QED BY <2>4, <3>1
  <2>6. MessagesFold(f, c, q, n + 1)
    <3> HIDE DEF f
    <3> QED BY <2>5 DEF MessagesFold
  <2> HIDE DEF f
  <2> QED BY <2>6
<1> HIDE DEF S
<1>3. Nat \subseteq S
  BY <1>1, <1>2, SetInduction
<1> QED BY <1>3 DEF S

\* The face of a fed client is the last of the faces its messages give it.
LEMMA MessagesFolded ==
  ASSUME NEW c, DOMAIN c = ClientFields, NEW q, NEW n \in Nat, DOMAIN q = 1 .. n,
         NEW h, h[0] = Face(c), \A k \in 1 .. n : h[k] = handle_message(h[k - 1], q[k])
  PROVE  Face(Fed(c, q)) = h[n]
<1> DEFINE g == CHOOSE g : MessagesFold(g, c, q, n)
<1>1. MessagesFold(g, c, q, n)
  BY MessagesFoldExists
<1>2. Fed(c, q) = g[1 .. n]
  BY DEF Fed, FoldLeft, MapThenFoldSet, MessagesFold
<1> HIDE DEF g
<1> DEFINE P(k) == Face(g[1 .. k]) = h[k] /\ DOMAIN g[1 .. k] = ClientFields
           S == {k \in Nat : k <= n => P(k)}
<1>3. \A s \in SUBSET (1 .. n) :
        g[s] = IF s = {} THEN c ELSE handle_message(g[s \ {Max(s)}], q[Max(s)])
  BY <1>1 DEF MessagesFold
<1>4. 0 \in S
  <2>1. 1 .. 0 = {}
    OBVIOUS
  <2> QED BY <1>3, <2>1
<1>5. ASSUME NEW k \in Nat, k <= n => P(k), k + 1 <= n PROVE P(k + 1)
  <2>1. k <= n /\ k + 1 \in 1 .. n /\ k + 1 - 1 = k
    BY <1>5
  <2>2. (1 .. k + 1) \ {k + 1} = 1 .. k
    OBVIOUS
  <2>3. 1 .. k + 1 \in SUBSET (1 .. n) /\ 1 .. k + 1 # {}
    <3>1. \A x \in 1 .. k + 1 : x \in 1 .. n
      BY <1>5
    <3>2. 1 \in 1 .. k + 1
      OBVIOUS
    <3> QED BY <3>1, <3>2
  <2>4. Max(1 .. k + 1) = k + 1
    BY MaxIsLast
  <2>5. Face(g[1 .. k]) = h[k] /\ DOMAIN g[1 .. k] = ClientFields
    BY <1>5, <2>1
  <2>6. g[1 .. k + 1] = handle_message(g[1 .. k], q[k + 1])
    BY <1>3, <2>2, <2>3, <2>4
  <2>7. {"state", "roster", "view"} \subseteq ClientFields
    BY DEF ClientFields
  <2>8. /\ Face(handle_message(g[1 .. k], q[k + 1])) = handle_message(h[k], q[k + 1])
        /\ DOMAIN handle_message(g[1 .. k], q[k + 1]) = ClientFields
    BY <2>5, <2>7, FaceOfHandled
  <2>9. h[k + 1] = handle_message(h[k], q[k + 1])
    BY <2>1
  <2> QED BY <2>6, <2>8, <2>9
<1>6. \A k \in Nat : k \in S => k + 1 \in S
  <2> HIDE DEF P
  <2> QED BY <1>5
<1> HIDE DEF S
<1>7. n \in S
  BY <1>4, <1>6, SetInduction
<1> QED BY <1>2, <1>7 DEF S

\* Every client, in whatever state of the lobby or game it is and however many
\* messages are on their way to it, ends up with what the server has, for any
\* number of clients, players and turns.
THEOREM ClientsAreKept == SessionSpec => []ClientsFollow
<1>1. SInv /\ FollowInv => ClientsFollow
  <2> SUFFICES ASSUME SInv, FollowInv, NEW s \in Servers, slot[s] = "serving", Alive(client[s]),
                      Fed(client[s], server_queues[s]).state # "EXITED"
               PROVE  UpToDate(Fed(client[s], server_queues[s]))
    BY DEF ClientsFollow, Fed
  <2> DEFINE q == server_queues[s]
             c == client[s]
             n == Len(q)
             d == Fed(c, q)
  <2>1. n \in Nat /\ DOMAIN q = 1 .. n /\ DOMAIN c = ClientFields
    BY SequenceLen DEF SInv, IInv, TypeOK, SessionTypes, ClientOK
  <2>2. PICK f : f = Face(c) /\ Alive(f)
    BY FaceAlive
  <2>3. PICK h, g : Faces(h, f, g, 0, q) /\ Lasting(g)
    BY <2>2 DEF FollowInv, FollowsOK, Owed, Announces
  <2>4. d.state # "EXITED"
    OBVIOUS
  <2> SUFFICES UpToDate(d)
    OBVIOUS
  <2> HIDE DEF q, c, d
  <2>5. h[0] = f /\ h[n] = g /\ \A k \in 1 .. n : h[k] = handle_message(h[k - 1], q[k])
    <3>1. \A k \in 1 .. n : k \in 0 + 1 .. n
      OBVIOUS
    <3> QED BY <2>3, <3>1 DEF Faces, Handled
  <2> HIDE DEF n
  <2>6. Face(d) = g
    <3>1. h[0] = Face(c) /\ \A k \in 1 .. n : h[k] = handle_message(h[k - 1], q[k])
      BY <2>2, <2>5
    <3>2. Face(Fed(c, q)) = h[n]
      BY <2>1, <3>1, MessagesFolded, Z3T(40)
    <3> QED BY <2>5, <3>2 DEF d
  <2>7. g.state = d.state /\ g.roster = d.roster /\ g.view = d.view
    BY <2>6 DEF Face
  <2> QED BY <2>3, <2>4, <2>7 DEF Lasting, UpToDate
<1> QED BY <1>1, FollowInvariance, PTL

\* The scores every client is told at the end of a game, however long the game
\* and whatever it joined before, are those it has counted.
THEOREM ScoresAgreeAlways == SessionSpec => []ScoresAgree
<1>1. SInv /\ FollowInv => ScoresAgree
  <2> SUFFICES ASSUME SInv, FollowInv, NEW s \in Servers, slot[s] = "serving",
                      client[s].state = "IN_GAME", server_queues[s] # <<>>,
                      Head(server_queues[s]).id = "SC_GAME_ENDED"
               PROVE  Head(server_queues[s]).scores = client[s].view.scores
    BY DEF ScoresAgree
  <2> DEFINE q == server_queues[s]
  <2>1. Len(q) \in Nat \ {0} /\ Head(q) = q[1]
    BY TailIndices DEF SInv, IInv, TypeOK
  <2>2. PICK f : f = Face(client[s]) /\ Alive(f)
    BY FaceAlive DEF Alive
  <2>3. Announces(s, 0, f)
    BY <2>2 DEF FollowInv, FollowsOK, Owed
  <2>4. Handled(f, q[0 + 1], handle_message(f, q[0 + 1]))
    <3>1. 0 < Len(q) /\ 0 \in Nat
      BY <2>1
    <3> QED BY <2>1, <2>3, <3>1, ToldNext
  <2>5. f.state = "IN_GAME" /\ f.view = client[s].view
    BY <2>2 DEF Face
  <2>6. q[1].id = "SC_GAME_ENDED" /\ 0 + 1 = 1
    BY <2>1
  <2> HIDE DEF q
  <2>7. q[1].scores = f.view.scores
    BY <2>4, <2>5, <2>6 DEF Handled
  <2> QED BY <2>1, <2>5, <2>7 DEF q
<1> QED BY <1>1, FollowInvariance, PTL

\* Nothing the server sends makes a client exit, but for the first turn of a game
\* that was on before the client connected.
THEOREM OnlyLateExit == SessionSpec => OnlyLateClientsExit
<1> DEFINE Exits(s) ==
             Alive(client[s]) /\ client'[s].state = "EXITED" =>
               /\ client[s].state = "IN_LOBBY" /\ client[s].roster = <<>>
               /\ Head(server_queues[s]).id = "SC_TURN"
               /\ Head(server_queues[s]).turn.turn = 0
<1>1. ASSUME SInv, FollowInv, [SessionNext]_sessionVars, NEW s \in Servers PROVE Exits(s)
  <2> DEFINE c == client[s]
  <2> SUFFICES ASSUME Alive(c), client'[s].state = "EXITED"
               PROVE  /\ c.state = "IN_LOBBY" /\ c.roster = <<>>
                      /\ Head(server_queues[s]).id = "SC_TURN"
                      /\ Head(server_queues[s]).turn.turn = 0
    OBVIOUS
  <2>1. DOMAIN client = Servers /\ \A t \in Servers : DOMAIN client[t] = ClientFields
    BY <1>1 DEF SInv, SessionTypes, ClientOK
  <2>2. c.state # "EXITED"
    BY DEF Alive
  <2>3. send_to_client(s)
    <3>1. CASE client' = client
      BY <2>2, <3>1
    <3>2. ASSUME NEW t \in Servers, NEW d, client' = [client EXCEPT ![t] = d],
                 d.state \in {client[t].state, "IDLE", "CLOSED", "MISLED"}
          PROVE  FALSE
      <4>1. client'[s] = IF t = s THEN d ELSE c
        BY <2>1, <3>2
      <4> QED BY <2>2, <3>2, <4>1
    <3>3. ASSUME NEW t \in Servers, t # s, send_to_client(t) PROVE FALSE
      <4>1. client'[s] = client[s]
        BY <2>1, <3>3 DEF send_to_client
      <4> QED BY <2>2, <4>1
    <3>4. ASSUME NEW t \in Servers, NEW name \in Names, Accept(t, name) PROVE FALSE
      <4>1. client' = [client EXCEPT ![t] = NewClient(name)] /\ NewClient(name).state = "IDLE"
        BY <3>4 DEF Accept, NewClient
      <4> QED BY <3>2, <4>1
    <3>5. ASSUME NEW t \in Servers,
                 \/ receive_from_client(t)
                 \/ Disconnect(t)
                 \/ OutlivedSender(t) \/ OutlivedReceiver(t)
                 \/ \E action \in Inputs : GuiInput(t, action)
                 \/ GuiForward(t) \/ MisledInput(t)
                 \/ Close(t)
          PROVE  FALSE
      <4> DEFINE b == client[t]
      <4>1. CASE receive_from_client(t)
        <5> DEFINE d == [b EXCEPT !.sent = Tail(b.sent)]
        <5>1. client' = [client EXCEPT ![t] = d]
          BY <2>1, <4>1 DEF receive_from_client
        <5>2. d.state = b.state
          BY <2>1 DEF ClientFields
        <5> HIDE DEF d
        <5> QED BY <3>2, <5>1, <5>2
      <4>2. CASE Disconnect(t)
        <5> DEFINE d == Cut(b)
        <5>1. client' = [client EXCEPT ![t] = d]
          BY <4>2 DEF Disconnect
        <5>2. d.state \in {b.state, "CLOSED"}
          BY <2>1 DEF ClientFields, Cut
        <5> HIDE DEF d
        <5> QED BY <3>2, <5>1, <5>2
      <4>3. CASE \E action \in Inputs : GuiInput(t, action)
        <5>1. PICK action \in Inputs : GuiInput(t, action)
          BY <4>3
        <5> DEFINE sent == Append(b.sent, [id |-> "CS_JOIN", name |-> b.name])
                   d == IF b.state = "IN_LOBBY" THEN [b EXCEPT !.sent = sent]
                        ELSE [b EXCEPT !.input = action]
        <5>2. client' = [client EXCEPT ![t] = d]
          BY <5>1 DEF GuiInput
        <5> HIDE DEF sent
        <5>3. d.state = b.state
          BY <2>1 DEF ClientFields
        <5> HIDE DEF d
        <5> QED BY <3>2, <5>2, <5>3
      <4>4. CASE GuiForward(t)
        <5> DEFINE sent == IF b.state = "IN_GAME"
                           THEN Append(b.sent, [id |-> "CS_ACTION", action |-> b.input])
                           ELSE b.sent
                   d == [b EXCEPT !.input = None, !.sent = sent]
        <5>1. client' = [client EXCEPT ![t] = d]
          BY <4>4 DEF GuiForward
        <5> HIDE DEF sent
        <5>2. d.state = b.state
          BY <2>1 DEF ClientFields
        <5> HIDE DEF d
        <5> QED BY <3>2, <5>1, <5>2
      <4>5. CASE Close(t)
        <5> DEFINE d == [b EXCEPT !.state = "CLOSED", !.input = None]
        <5>1. client' = [client EXCEPT ![t] = d]
          BY <2>1, <4>5 DEF Close
        <5>2. d.state = "CLOSED"
          BY <2>1 DEF ClientFields
        <5> HIDE DEF d
        <5> QED BY <3>2, <5>1, <5>2
      <4>6. CASE MisledInput(t)
        <5>1. PICK m \in ClientMessages : client' = [client EXCEPT ![t].sent = Append(b.sent, m)]
          BY <4>6 DEF MisledInput
        <5> DEFINE sent == Append(b.sent, m)
                   d == [b EXCEPT !.sent = sent]
        <5>2. client' = [client EXCEPT ![t] = d]
          BY <2>1, <5>1
        <5> HIDE DEF sent
        <5>3. d.state = b.state
          BY <2>1 DEF ClientFields
        <5> HIDE DEF d
        <5> QED BY <3>2, <5>2, <5>3
      <4>7. CASE OutlivedSender(t)
        <5> DEFINE d == Mislead(b)
        <5>1. client' = [client EXCEPT ![t] = d]
          BY <4>7 DEF OutlivedSender
        <5>2. d.state \in {b.state, "MISLED"}
          BY <2>1 DEF ClientFields, Mislead
        <5> HIDE DEF d
        <5> QED BY <3>2, <5>1, <5>2
      <4>8. CASE OutlivedReceiver(t)
        <5>1. CASE client' = [client EXCEPT ![t].sent = Tail(b.sent)]
          <6> DEFINE d == [b EXCEPT !.sent = Tail(b.sent)]
          <6>1. client' = [client EXCEPT ![t] = d]
            BY <2>1, <5>1
          <6>2. d.state = b.state
            BY <2>1 DEF ClientFields
          <6> HIDE DEF d
          <6> QED BY <3>2, <6>1, <6>2
        <5>2. CASE client' = client
          BY <2>2, <5>2
        <5> QED BY <4>8, <5>1, <5>2 DEF OutlivedReceiver
      <4> QED BY <3>5, <4>1, <4>2, <4>3, <4>4, <4>5, <4>6, <4>7, <4>8
    <3>6. MainLoop \/ Clock \/ UNCHANGED sessionVars => client' = client
      BY DEF MainLoop, Clock, sessionVars, threads
    <3>7. ASSUME NEW t \in Servers, client_connect(t) PROVE client' = client
      BY <3>7 DEF client_connect
    <3> QED BY <1>1, <3>1, <3>3, <3>4, <3>5, <3>6, <3>7 DEF SessionNext
  <2> DEFINE m == Head(server_queues[s])
             f == Face(c)
             g == Face(handle_message(c, m))
  <2>4. slot[s] = "serving" /\ ServerPop(s) /\ client'[s] = handle_message(c, m)
    BY <2>1, <2>3 DEF send_to_client
  <2>5. Handled(f, m, g)
    BY <1>1, <2>4, SentHandled
  <2>6. f.state = c.state /\ f.roster = c.roster /\ Alive(f)
    BY FaceAlive DEF Face
  <2>7. g.state = "EXITED"
    BY <2>4 DEF Face
  <2> HIDE DEF f, g, m
  <2>8. /\ f.state = "IN_LOBBY" /\ f.roster = <<>>
        /\ m.id = "SC_TURN" /\ m.turn.turn = 0
    BY <2>5, <2>6, <2>7 DEF Handled
  <2> QED BY <2>6, <2>8 DEF m
<1>2. SInv /\ FollowInv /\ [SessionNext]_sessionVars
        => [\A s \in Servers : Exits(s)]_sessionVars
  BY <1>1
<1> QED BY <1>2, FollowInvariance, PTL DEF SessionSpec, OnlyLateClientsExit
=============================================================================
