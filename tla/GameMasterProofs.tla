-------------------------- MODULE GameMasterProofs --------------------------
(***************************************************************************)
(* The invariants of GameMaster for every number of servers and players,   *)
(* every board and every length of a game, and that games go on one player *)
(* and one turn at a time: GameMaster implements GameCycle.                *)
(***************************************************************************)
EXTENDS LateJoin, TurnProofs, SequenceTheorems

-----------------------------------------------------------------------------
(* Sequences *)

\* IsSequence says no more than that q is a sequence of something.
LEMMA SequenceOf ==
  ASSUME NEW S, NEW q \in Seq(S)
  PROVE  /\ IsSequence(q)
         /\ Len(q) \in Nat
         /\ DOMAIN q = 1 .. Len(q)
<1>1. Len(q) \in Nat /\ q \in [1 .. Len(q) -> S] /\ DOMAIN q = 1 .. Len(q)
  BY LenProperties
<1>2. q \in [1 .. Len(q) -> {q[i] : i \in DOMAIN q}]
  BY <1>1
<1>3. q \in Seq({q[i] : i \in DOMAIN q})
  BY <1>1, <1>2, SeqDef
<1> QED BY <1>1, <1>3 DEF IsSequence

LEMMA EmptySequence ==
  /\ IsSequence(<<>>) /\ Len(<<>>) = 0 /\ DOMAIN <<>> = {}
  /\ <<>> \in Seq(PlayerType)
<1>1. <<>> \in Seq({}) /\ Len(<<>>) = 0 /\ DOMAIN <<>> = {}
      /\ <<>> \in Seq(PlayerType)
  BY EmptySeq
<1>2. IsSequence(<<>>)
  BY <1>1, SequenceOf
<1> QED BY <1>1, <1>2

LEMMA SequenceLen ==
  ASSUME NEW q, IsSequence(q)
  PROVE  Len(q) \in Nat /\ DOMAIN q = 1 .. Len(q)
BY LenProperties DEF IsSequence

LEMMA FunctionSequence ==
  ASSUME NEW n \in Nat, NEW S, NEW f \in [1 .. n -> S]
  PROVE  /\ f \in Seq(S)
         /\ IsSequence(f)
         /\ Len(f) = n
<1>1. f \in Seq(S)
  BY SeqDef
<1>2. Len(f) \in Nat /\ DOMAIN f = 1 .. Len(f) /\ IsSequence(f)
  BY <1>1, SequenceOf
<1>3. 1 .. Len(f) = 1 .. n
  BY <1>2
<1> QED BY <1>1, <1>2, <1>3

LEMMA ConcatSequence ==
  ASSUME NEW q, NEW r, IsSequence(q), IsSequence(r)
  PROVE  IsSequence(q \o r)
<1> DEFINE T == {q[i] : i \in DOMAIN q} \cup {r[i] : i \in DOMAIN r}
<1>1. q \in Seq(T) /\ r \in Seq(T)
  BY SeqMonotonic DEF IsSequence
<1>2. q \o r \in Seq(T)
  BY <1>1, ConcatProperties
<1> QED BY <1>2, SequenceOf

LEMMA AppendSequence ==
  ASSUME NEW q, NEW e, IsSequence(q)
  PROVE  /\ IsSequence(Append(q, e))
         /\ Len(Append(q, e)) = Len(q) + 1
         /\ \A i \in 1 .. Len(q) : Append(q, e)[i] = q[i]
         /\ Append(q, e)[Len(q) + 1] = e
<1> DEFINE T == {q[i] : i \in DOMAIN q} \cup {e}
<1>1. q \in Seq(T) /\ e \in T
  BY SeqMonotonic DEF IsSequence
<1>2. /\ Append(q, e) \in Seq(T)
      /\ Len(Append(q, e)) = Len(q) + 1
      /\ \A i \in 1 .. Len(q) : Append(q, e)[i] = q[i]
      /\ Append(q, e)[Len(q) + 1] = e
  BY <1>1, AppendProperties
<1> QED BY <1>2, SequenceOf

LEMMA TailSequence ==
  ASSUME NEW q, IsSequence(q), q # <<>>
  PROVE  IsSequence(Tail(q))
<1>1. Tail(q) \in Seq({q[i] : i \in DOMAIN q})
  BY HeadTailProperties DEF IsSequence
<1> QED BY <1>1, SequenceOf

LEMMA TailIndices ==
  ASSUME NEW q, IsSequence(q), q # <<>>
  PROVE  /\ Head(q) = q[1] /\ 1 \in DOMAIN q
         /\ Len(q) \in Nat \ {0} /\ DOMAIN q = 1 .. Len(q)
         /\ IsSequence(Tail(q)) /\ DOMAIN Tail(q) = 1 .. Len(q) - 1
         /\ \A i \in 1 .. Len(q) - 1 : Tail(q)[i] = q[i + 1]
<1> DEFINE S == {q[i] : i \in DOMAIN q}
<1>1. q \in Seq(S)
  BY DEF IsSequence
<1> HIDE DEF S
<1>2. Len(q) \in Nat \ {0} /\ DOMAIN q = 1 .. Len(q)
  BY <1>1, EmptySeq, LenProperties
<1>3. /\ Tail(q) \in Seq(S) /\ Len(Tail(q)) = Len(q) - 1
      /\ \A i \in 1 .. Len(Tail(q)) : Tail(q)[i] = q[i + 1]
  BY <1>1, HeadTailProperties
<1>4. IsSequence(Tail(q)) /\ DOMAIN Tail(q) = 1 .. Len(Tail(q))
  BY <1>3, SequenceOf
<1>5. Head(q) = q[1]
  BY <1>1, <1>2
<1> QED BY <1>2, <1>3, <1>4, <1>5

LEMMA ConcatIndices ==
  ASSUME NEW q, NEW r, IsSequence(q), IsSequence(r)
  PROVE  /\ Len(q) \in Nat /\ DOMAIN q = 1 .. Len(q)
         /\ Len(r) \in Nat /\ DOMAIN r = 1 .. Len(r)
         /\ IsSequence(q \o r) /\ DOMAIN (q \o r) = 1 .. Len(q) + Len(r)
         /\ \A i \in 1 .. Len(q) + Len(r) :
              (q \o r)[i] = IF i <= Len(q) THEN q[i] ELSE r[i - Len(q)]
<1> DEFINE T == {q[i] : i \in DOMAIN q} \cup {r[i] : i \in DOMAIN r}
<1>1. q \in Seq(T) /\ r \in Seq(T)
  BY SeqMonotonic DEF IsSequence
<1> HIDE DEF T
<1>2. /\ q \o r \in Seq(T) /\ Len(q \o r) = Len(q) + Len(r)
      /\ \A i \in 1 .. Len(q) + Len(r) :
           (q \o r)[i] = IF i <= Len(q) THEN q[i] ELSE r[i - Len(q)]
  BY <1>1, ConcatProperties
<1>3. IsSequence(q \o r) /\ DOMAIN (q \o r) = 1 .. Len(q \o r)
  BY <1>2, SequenceOf
<1> QED BY <1>1, <1>2, <1>3, SequenceOf

LEMMA Remainder ==
  ASSUME NEW m \in Nat \ {0}, NEW q \in Int, NEW r \in 0 .. m - 1,
         NEW n \in Int, n = m * q + r
  PROVE  n % m = r
OBVIOUS

\* Counting on from a counter that has wrapped.
LEMMA ModSuccessor ==
  ASSUME NEW m \in Nat \ {0}, NEW n \in Nat
  PROVE  ((n % m) + 1) % m = (n + 1) % m
<1> DEFINE r == n % m
           q == n \div m
<1>1. n = m * q + r /\ r \in 0 .. m - 1 /\ q \in Int
  OBVIOUS
<1>2. CASE r + 1 < m
  <2>1. r + 1 \in 0 .. m - 1 /\ r + 1 \in Int /\ n + 1 \in Int
    BY <1>1, <1>2
  <2>2. n + 1 = m * q + (r + 1) /\ r + 1 = m * 0 + (r + 1)
    BY <1>1
  <2> HIDE DEF r, q
  <2>3. (n + 1) % m = r + 1
    BY <1>1, <2>1, <2>2, Remainder
  <2>4. (r + 1) % m = r + 1
    BY <2>1, <2>2, Remainder
  <2> QED BY <2>3, <2>4 DEF r
<1>3. CASE r + 1 = m
  <2>1. n + 1 = m * (q + 1) + 0 /\ m = m * 1 + 0 /\ 0 \in 0 .. m - 1
    BY <1>1, <1>3
  <2> HIDE DEF r, q
  <2>2. (n + 1) % m = 0
    BY <1>1, <2>1, Remainder
  <2>3. (r + 1) % m = 0
    BY <1>3, <2>1, Remainder
  <2> QED BY <2>2, <2>3 DEF r
<1> QED BY <1>1, <1>2, <1>3

-----------------------------------------------------------------------------
(* The inductive invariant *)

\* The safety invariants support each other: a turn keeps the players typed
\* because it is never played in the lobby, where a robot has no position.
IInv ==
  /\ TypeOK
  /\ SeatsDistinct
  /\ GameIsFull
  /\ NoTurnInLobby
  /\ TurnsNumbered

\* In a game the world of GameMaster is one a turn can be played in.
LEMMA WorldInGame ==
  ASSUME TypeOK, GameIsFull, game_state = "GAME"
  PROVE  WorldOK(World, Len(players)) /\ World.players = players
<1>1. Len(players) \in Nat /\ DOMAIN players = 1 .. Len(players)
  BY LenProperties DEF TypeOK
<1> QED BY <1>1 DEF WorldOK, World, TypeOK, GameIsFull, BombType

\* Pushing a sequence to every queue leaves queues.
LEMMA BroadcastType ==
  ASSUME TypeOK, NEW ms, IsSequence(ms), Broadcast(ms)
  PROVE  /\ DOMAIN server_queues' = Servers
         /\ \A s \in Servers : IsSequence(server_queues'[s])
BY ConcatSequence DEF TypeOK, Broadcast

LEMMA ShortSequences ==
  ASSUME NEW a, NEW b, NEW c
  PROVE  IsSequence(<<a>>) /\ IsSequence(<<a, b>>) /\ IsSequence(<<a, b, c>>)
<1>1. <<a>> \in Seq({a, b, c}) /\ <<a, b>> \in Seq({a, b, c})
      /\ <<a, b, c>> \in Seq({a, b, c})
  OBVIOUS
<1> QED BY <1>1, SequenceOf

LEMMA InitInv == Init => IInv
<1> SUFFICES ASSUME Init PROVE IInv
  OBVIOUS
<1>1. Len(<<>>) = 0 /\ DOMAIN <<>> = {} /\ <<>> \in Seq(PlayerType)
  BY EmptySequence
<1>2. IsSequence(<<>>)
  BY EmptySequence
<1>3. 0 % TurnMod = 0 /\ 0 \in 0 .. TurnMod - 1
  BY GameMasterAssumption
<1>4. TypeOK
  BY <1>1, <1>2, <1>3 DEF Init, TypeOK, NotPlaying
<1>5. SeatsDistinct
  BY DEF Init, SeatsDistinct
<1>6. GameIsFull
  BY <1>1, GameMasterAssumption DEF Init, GameIsFull
<1>7. NoTurnInLobby
  BY DEF Init, NoTurnInLobby
<1>8. TurnsNumbered
  BY <1>1, <1>3 DEF Init, TurnsNumbered
<1> QED BY <1>4, <1>5, <1>6, <1>7, <1>8 DEF IInv

-----------------------------------------------------------------------------
(* The steps that leave the game as it is *)

LEMMA ClockInv ==
  ASSUME IInv, ClockCheck \/ SpuriousWakeup
  PROVE  IInv'
<1>1. /\ clock' \in {"checking", "parked", "sleeping"}
      /\ clock' = "sleeping" => game_state = "GAME"
  BY DEF ClockCheck, SpuriousWakeup
<1>2. UNCHANGED <<game_state, gameVars, playing_servers, players, server_queues>>
  BY DEF ClockCheck, SpuriousWakeup
<1> QED BY <1>1, <1>2 DEF IInv, TypeOK, SeatsDistinct, GameIsFull,
           NoTurnInLobby, TurnsNumbered, gameVars

LEMMA ServerPopInv ==
  ASSUME IInv, NEW s \in Servers, ServerPop(s)
  PROVE  IInv'
<1>1. UNCHANGED <<game_state, gameVars, playing_servers, players, clock>>
  BY DEF ServerPop
<1>2. \A t \in Servers : IsSequence(server_queues'[t])
  BY TailSequence DEF ServerPop, IInv, TypeOK
<1>3. DOMAIN server_queues' = Servers
  BY DEF ServerPop, IInv, TypeOK
<1> QED BY <1>1, <1>2, <1>3 DEF IInv, TypeOK, SeatsDistinct, GameIsFull,
           NoTurnInLobby, TurnsNumbered, gameVars

LEMMA ResetInv ==
  ASSUME IInv, NEW s \in Servers, reset_server(s)
  PROVE  IInv'
<1>1. UNCHANGED <<game_state, gameVars, players, clock>>
  BY DEF reset_server
<1>2. IsSequence(Welcome)
  <2>1. IsSequence(<<Reset, Hello>>)
    BY ShortSequences
  <2>2. IsSequence([i \in DOMAIN players |-> Accepted(i, players[i])])
    <3>1. Len(players) \in Nat /\ DOMAIN players = 1 .. Len(players)
      BY LenProperties DEF IInv, TypeOK
    <3>2. [i \in DOMAIN players |-> Accepted(i, players[i])]
            \in [1 .. Len(players) -> {Accepted(i, players[i]) : i \in DOMAIN players}]
      BY <3>1
    <3> QED BY <3>1, <3>2, FunctionSequence
  <2>3. IsSequence([i \in DOMAIN game_turns |-> TurnMessage(game_turns[i])])
    <3>1. Len(game_turns) \in Nat /\ DOMAIN game_turns = 1 .. Len(game_turns)
      BY SequenceLen DEF IInv, TypeOK
    <3>2. [i \in DOMAIN game_turns |-> TurnMessage(game_turns[i])]
            \in [1 .. Len(game_turns) -> {TurnMessage(game_turns[i]) : i \in DOMAIN game_turns}]
      BY <3>1
    <3> QED BY <3>1, <3>2, FunctionSequence
  <2> QED BY <2>1, <2>2, <2>3, ConcatSequence DEF Welcome
<1>3. /\ DOMAIN server_queues' = Servers
      /\ \A t \in Servers : IsSequence(server_queues'[t])
  BY <1>2, ConcatSequence DEF reset_server, IInv, TypeOK
<1>4. /\ playing_servers' \in [Servers -> Nat]
      /\ playing_servers' = [playing_servers EXCEPT ![s] = NotPlaying]
  BY DEF reset_server, IInv, TypeOK, NotPlaying
<1>5. SeatsDistinct'
  BY <1>1, <1>4 DEF IInv, TypeOK, SeatsDistinct
<1> QED BY <1>1, <1>3, <1>4, <1>5 DEF IInv, TypeOK, GameIsFull,
           NoTurnInLobby, TurnsNumbered, gameVars

LEMMA ActionInv ==
  ASSUME IInv, NEW s \in Servers, NEW action \in Action, handle_action(s, action)
  PROVE  IInv'
<1> DEFINE i == playing_servers[s]
<1>1. UNCHANGED <<game_state, gameVars, playing_servers, clock, server_queues>>
  BY DEF handle_action
<1>2. game_state = "GAME" /\ i \in DOMAIN players
  BY DEF handle_action, is_playing, IInv, SeatsDistinct
<1>3. Len(players) \in Nat /\ DOMAIN players = 1 .. Len(players)
  BY LenProperties DEF IInv, TypeOK
<1>4. [players[i] EXCEPT !.action = action] \in PlayerType
  <2>1. players[i] \in PlayerType
    BY <1>2, <1>3, ElementOfSeq DEF IInv, TypeOK
  <2> QED BY <2>1 DEF PlayerType
<1>5. players' = [players EXCEPT ![i] = [players[i] EXCEPT !.action = action]]
  BY DEF handle_action
<1>6. players' \in Seq(PlayerType) /\ Len(players') = Len(players)
  BY <1>2, <1>3, <1>4, <1>5, ExceptSeq DEF IInv, TypeOK
<1>7. DOMAIN players' = DOMAIN players
      /\ \A j \in DOMAIN players : players'[j].position = players[j].position
  <2>1. players[i] \in PlayerType
    BY <1>2, <1>3, ElementOfSeq DEF IInv, TypeOK
  <2> QED BY <1>5, <2>1 DEF PlayerType
<1>8. TypeOK'
  BY <1>1, <1>6 DEF IInv, TypeOK, gameVars
<1>9. SeatsDistinct' /\ GameIsFull'
  BY <1>1, <1>2, <1>6, <1>7 DEF IInv, SeatsDistinct, GameIsFull
<1> QED BY <1>1, <1>8, <1>9 DEF IInv, NoTurnInLobby, TurnsNumbered, gameVars

-----------------------------------------------------------------------------
(* Joining, and the start of a game *)

Joined(name) == Append(players, NewPlayer(name))

Welcomed(name) == Accepted(Len(Joined(name)), NewPlayer(name))

Seated(s, name) ==
  /\ may_join(s)
  /\ playing_servers' = [playing_servers EXCEPT ![s] = Len(Joined(name))]

\* The vector of players after one more has Joined(name), and the new seat.
LEMMA JoinedPlayers ==
  ASSUME IInv, NEW s \in Servers, NEW name \in Names, Seated(s, name)
  PROVE  /\ Len(Joined(name)) \in 1 .. PlayersCount
         /\ Joined(name) \in Seq(PlayerType)
         /\ DOMAIN Joined(name) = 1 .. Len(Joined(name))
         /\ \A i \in DOMAIN Joined(name) : Joined(name)[i].action = None /\ Joined(name)[i].score = 0
         /\ playing_servers' \in [Servers -> Nat]
         /\ \A t \in Servers : playing_servers'[t] # NotPlaying =>
              /\ playing_servers'[t] \in DOMAIN Joined(name)
              /\ \A u \in Servers \ {t} : playing_servers'[u] # playing_servers'[t]
<1>1. /\ game_state = "LOBBY" /\ playing_servers[s] = NotPlaying
      /\ Len(players) < PlayersCount /\ PlayersCount \in Nat
  BY GameMasterAssumption DEF Seated, may_join, IInv, GameIsFull
<1>2. /\ Len(players) \in Nat /\ DOMAIN players = 1 .. Len(players)
      /\ players \in Seq(PlayerType)
  BY LenProperties DEF IInv, TypeOK
<1>3. NewPlayer(name) \in PlayerType
  BY DEF NewPlayer, PlayerType
<1>4. /\ Joined(name) \in Seq(PlayerType)
      /\ Len(Joined(name)) = Len(players) + 1
      /\ \A i \in 1 .. Len(players) : Joined(name)[i] = players[i]
      /\ Joined(name)[Len(players) + 1] = NewPlayer(name)
  BY <1>2, <1>3, AppendProperties DEF Joined
<1>5. DOMAIN Joined(name) = 1 .. Len(Joined(name))
  BY <1>4, LenProperties
<1>6. ASSUME NEW i \in DOMAIN Joined(name)
      PROVE  Joined(name)[i].action = None /\ Joined(name)[i].score = 0
  <2>1. CASE i \in 1 .. Len(players)
    BY <2>1, <1>1, <1>2, <1>4 DEF IInv, GameIsFull
  <2>2. CASE i = Len(players) + 1
    BY <2>2, <1>4 DEF NewPlayer
  <2> QED BY <2>1, <2>2, <1>2, <1>4, <1>5
<1>7. playing_servers' \in [Servers -> Nat]
  BY <1>2, <1>4 DEF Seated, IInv, TypeOK
<1>8. ASSUME NEW t \in Servers, playing_servers'[t] # NotPlaying
      PROVE  /\ playing_servers'[t] \in DOMAIN Joined(name)
             /\ \A u \in Servers \ {t} : playing_servers'[u] # playing_servers'[t]
  <2>1. \A u \in Servers : playing_servers[u] = NotPlaying
                           \/ playing_servers[u] \in 1 .. Len(players)
    BY <1>2 DEF IInv, SeatsDistinct
  <2>2. \A u \in Servers : playing_servers'[u] =
          IF u = s THEN Len(players) + 1 ELSE playing_servers[u]
    BY <1>4 DEF Seated, IInv, TypeOK
  <2> QED BY <1>2, <1>4, <1>5, <1>8, <2>1, <2>2 DEF IInv, SeatsDistinct, NotPlaying
<1> QED BY <1>1, <1>2, <1>4, <1>5, <1>6, <1>7, <1>8

LEMMA JoinLobbyInv ==
  ASSUME IInv, NEW s \in Servers, NEW name \in Names, Seated(s, name),
         Len(Joined(name)) # PlayersCount, players' = Joined(name),
         Broadcast(<<Welcomed(name)>>),
         UNCHANGED <<game_state, gameVars, clock>>
  PROVE  IInv'
<1>1. /\ DOMAIN server_queues' = Servers
      /\ \A t \in Servers : IsSequence(server_queues'[t])
  BY ShortSequences, BroadcastType DEF IInv
<1>2. /\ Len(Joined(name)) \in 1 .. PlayersCount
      /\ Joined(name) \in Seq(PlayerType)
      /\ DOMAIN Joined(name) = 1 .. Len(Joined(name))
      /\ \A i \in DOMAIN Joined(name) : Joined(name)[i].action = None /\ Joined(name)[i].score = 0
      /\ playing_servers' \in [Servers -> Nat]
  BY JoinedPlayers
<1>3. SeatsDistinct'
  BY JoinedPlayers DEF SeatsDistinct
<1>4. TypeOK'
  BY <1>1, <1>2 DEF IInv, TypeOK, gameVars
<1>5. game_state = "LOBBY" /\ Len(Joined(name)) < PlayersCount
  <2>1. game_state = "LOBBY"
    BY DEF Seated, may_join
  <2>2. PlayersCount \in Nat
    BY GameMasterAssumption
  <2>3. Len(Joined(name)) \in 1 .. PlayersCount
    BY JoinedPlayers
  <2>4. Len(Joined(name)) < PlayersCount
    BY <2>2, <2>3
  <2> QED BY <2>1, <2>4
<1>6. GameIsFull'
  BY <1>2, <1>5 DEF IInv, GameIsFull, gameVars
<1> QED BY <1>3, <1>4, <1>6 DEF IInv, NoTurnInLobby, TurnsNumbered, gameVars

LEMMA StartGameInv ==
  ASSUME IInv, NEW s \in Servers, NEW name \in Names, Seated(s, name),
         Len(Joined(name)) = PlayersCount,
         start_game(Joined(name), Welcomed(name))
  PROVE  IInv'
<1>1. /\ Joined(name) \in Seq(PlayerType)
      /\ Len(Joined(name)) \in Nat
      /\ DOMAIN Joined(name) = 1 .. Len(Joined(name))
      /\ \A i \in DOMAIN Joined(name) : Joined(name)[i] \in PlayerType
      /\ playing_servers' \in [Servers -> Nat]
  BY JoinedPlayers, ElementOfSeq, GameMasterAssumption
<1>2. PICK positions \in [DOMAIN Joined(name) -> Cells], initial \in InitialBlockSets :
        /\ players' = [i \in DOMAIN Joined(name) |-> [Joined(name)[i] EXCEPT !.position = positions[i]]]
        /\ blocks' = blocks \cup initial
        /\ game_state' = "GAME"
        /\ current_turn' = (current_turn + 1) % TurnMod
        /\ game_turns' = Append(game_turns, Turn0(positions, initial))
        /\ Broadcast(<<Welcomed(name), GameStarted(Joined(name)), TurnMessage(Turn0(positions, initial))>>)
        /\ notify_for_game
        /\ UNCHANGED <<bombs, bomb_count>>
  BY DEF start_game
<1>3. /\ DOMAIN server_queues' = Servers
      /\ \A t \in Servers : IsSequence(server_queues'[t])
  BY <1>2, ShortSequences, BroadcastType DEF IInv
<1>4. ASSUME NEW i \in DOMAIN Joined(name)
      PROVE  /\ [Joined(name)[i] EXCEPT !.position = positions[i]] \in PlayerType
             /\ [Joined(name)[i] EXCEPT !.position = positions[i]].position \in Cells
  BY <1>1, <1>2, <1>4 DEF PlayerType
<1>5. players' \in [1 .. Len(Joined(name)) -> PlayerType]
  BY <1>1, <1>2, <1>4
<1>6. players' \in Seq(PlayerType) /\ Len(players') = PlayersCount
      /\ DOMAIN players' = DOMAIN Joined(name)
  BY <1>1, <1>5, FunctionSequence
<1>7. \A i \in DOMAIN players' : players'[i].position \in Cells
  BY <1>2, <1>4, <1>6
<1>8. game_turns = <<>> /\ current_turn = 0 /\ 1 % TurnMod = 1 /\ 0 % TurnMod = 0
  <2>1. game_turns = <<>>
    BY DEF Seated, may_join, IInv, TurnsNumbered
  <2>2. Len(<<>>) = 0
    BY EmptySeq
  <2>3. 1 % TurnMod = 1 /\ 0 % TurnMod = 0
    BY GameMasterAssumption
  <2> QED BY <2>1, <2>2, <2>3 DEF IInv, TurnsNumbered
<1>9. /\ IsSequence(game_turns') /\ Len(game_turns') = 1 /\ game_turns' # <<>>
      /\ game_turns'[1].turn = 0
  <2>1. Len(game_turns) = 0 /\ IsSequence(game_turns)
    BY <1>8, EmptySeq DEF IInv, TypeOK
  <2> DEFINE t == Turn0(positions, initial)
  <2>2. t.turn = 0
    BY <1>8 DEF Turn0
  <2> HIDE DEF t
  <2>3. game_turns' = Append(game_turns, t)
    BY <1>2 DEF t
  <2>4. /\ IsSequence(game_turns')
        /\ Len(game_turns') = Len(game_turns) + 1
        /\ game_turns'[Len(game_turns) + 1] = t
    BY <2>1, <2>3, AppendSequence
  <2> QED BY <2>1, <2>2, <2>4, EmptySeq
<1>10. current_turn' = 1 /\ 1 \in 0 .. TurnMod - 1
  BY <1>2, <1>8, GameMasterAssumption
<1>11. blocks' \subseteq Cells
  BY <1>2 DEF InitialBlockSets, IInv, TypeOK
<1>12. clock' \in {"checking", "parked", "sleeping"}
  BY <1>2 DEF notify_for_game, IInv, TypeOK
<1>13. TypeOK'
  BY <1>1, <1>2, <1>3, <1>6, <1>9, <1>10, <1>11, <1>12 DEF IInv, TypeOK
<1>14. SeatsDistinct'
  BY <1>6, JoinedPlayers DEF SeatsDistinct
<1>15. GameIsFull'
  BY <1>2, <1>6, <1>7 DEF GameIsFull
<1>16. TurnsNumbered'
  <2>1. DOMAIN game_turns' = 1 .. 1
    BY <1>9, SequenceLen
  <2> QED BY <1>2, <1>8, <1>9, <1>10, <2>1 DEF TurnsNumbered
<1>17. NoTurnInLobby'
  BY <1>2 DEF NoTurnInLobby
<1> QED BY <1>13, <1>14, <1>15, <1>16, <1>17 DEF IInv

LEMMA JoinInv ==
  ASSUME IInv, NEW s \in Servers, NEW name \in Names, handle_join(s, name)
  PROVE  IInv'
<1>1. /\ Seated(s, name)
      /\ \/ Len(Joined(name)) = PlayersCount /\ start_game(Joined(name), Welcomed(name))
         \/ /\ Len(Joined(name)) # PlayersCount
            /\ players' = Joined(name)
            /\ Broadcast(<<Welcomed(name)>>)
            /\ UNCHANGED <<game_state, gameVars, clock>>
  BY DEF handle_join, Seated, Joined, Welcomed
<1>2. CASE Len(Joined(name)) = PlayersCount /\ start_game(Joined(name), Welcomed(name))
  BY <1>1, <1>2, StartGameInv
<1>3. CASE /\ Len(Joined(name)) # PlayersCount
           /\ players' = Joined(name)
           /\ Broadcast(<<Welcomed(name)>>)
           /\ UNCHANGED <<game_state, gameVars, clock>>
  BY <1>1, <1>3, JoinLobbyInv
<1> QED BY <1>1, <1>2, <1>3

-----------------------------------------------------------------------------
(* A turn *)

\* What a turn makes of the state before the end of the game is considered.
LEMMA TurnPlayed ==
  ASSUME IInv, clock = "sleeping",
         NEW respawn \in [DestroyedRobots(World) -> Cells]
  PROVE  LET after == Played(World, respawn)
         IN /\ after.players \in Seq(PlayerType)
            /\ Len(after.players) = Len(players)
            /\ DOMAIN after.players = DOMAIN players
            /\ \A i \in DOMAIN players : after.players[i].position \in Cells
            /\ after.blocks \subseteq Cells
            /\ after.bomb_count \in Nat
            /\ \A b \in DOMAIN after.bombs : after.bombs[b] \in BombType
<1> DEFINE after == Played(World, respawn)
           n == Len(players)
<1>1. n \in Nat /\ DOMAIN players = 1 .. n /\ players \in Seq(PlayerType)
  BY LenProperties DEF IInv, TypeOK
<1>2. WorldOK(World, n) /\ World.players = players
  BY WorldInGame DEF IInv, NoTurnInLobby
<1> HIDE DEF n
<1>3. /\ DOMAIN after.players = 1 .. n
      /\ \A i \in 1 .. n : after.players[i] = PlayedPlayer(World, respawn, i)
      /\ after.blocks \subseteq Cells
      /\ after.bomb_count \in Nat
      /\ \A b \in DOMAIN after.bombs : after.bombs[b] \in BombType
  BY <1>2, PlayedWorld DEF BombType
<1>4. ASSUME NEW i \in 1 .. n
      PROVE  after.players[i] \in PlayerType /\ after.players[i].position \in Cells
  <2>1. \A j \in 1 .. n : World.players[j] \in PlayerType
    BY <1>1, <1>2, ElementOfSeq DEF n
  <2>2. \A j \in 1 .. n : World.players[j].score \in Nat
    BY <2>1 DEF PlayerType
  <2>3. PICK pos \in Cells, point \in {0, 1} :
          PlayedPlayer(World, respawn, i) =
            PlayerAfter(World.players[i], pos, World.players[i].score + point)
    BY <1>2, <2>2, PlayedPlayerType
  <2> DEFINE q == World.players[i]
  <2>4. q \in PlayerType /\ q.score + point \in Nat
    BY <2>1, <2>2
  <2>5. PlayedPlayer(World, respawn, i) = PlayerAfter(q, pos, q.score + point)
    BY <2>3
  <2> HIDE DEF q
  <2>6. /\ PlayedPlayer(World, respawn, i) \in PlayerType
        /\ PlayedPlayer(World, respawn, i).position = pos
    BY <2>4, <2>5 DEF PlayerType, PlayerAfter
  <2> QED BY <1>3, <2>6
<1>5. after.players = [i \in 1 .. n |-> after.players[i]]
  BY <1>2, <1>3 DEF Played, WorldOK
<1>6. after.players \in [1 .. n -> PlayerType]
  BY <1>4, <1>5
<1>7. after.players \in Seq(PlayerType) /\ Len(after.players) = n
  BY <1>1, <1>6, FunctionSequence
<1> HIDE DEF after
<1> QED BY <1>1, <1>3, <1>4, <1>7 DEF n, after

LEMMA MakeTurnInv ==
  ASSUME IInv, make_turn
  PROVE  IInv'
<1> DEFINE turn(respawn) == TurnEvents(World, respawn, current_turn)
           after(respawn) == Played(World, respawn)
           next == (current_turn + 1) % TurnMod
<1>1. clock = "sleeping" /\ clock' = "checking"
  BY DEF make_turn
<1>2. game_state = "GAME"
  BY <1>1 DEF IInv, NoTurnInLobby
<1>3. PICK respawn \in [DestroyedRobots(World) -> Cells] :
        \/ /\ ~is_over(next)
           /\ players' = after(respawn).players
           /\ blocks' = after(respawn).blocks
           /\ bombs' = after(respawn).bombs
           /\ bomb_count' = after(respawn).bomb_count
           /\ current_turn' = next
           /\ game_turns' = Append(game_turns, turn(respawn))
           /\ Broadcast(<<TurnMessage(turn(respawn))>>)
           /\ UNCHANGED <<game_state, playing_servers>>
        \/ /\ is_over(next)
           /\ Broadcast(<<TurnMessage(turn(respawn)), GameEnded(after(respawn).players)>>)
           /\ clear_game_state
  BY DEF make_turn
<1>4. /\ after(respawn).players \in Seq(PlayerType)
      /\ Len(after(respawn).players) = Len(players)
      /\ DOMAIN after(respawn).players = DOMAIN players
      /\ \A i \in DOMAIN players : after(respawn).players[i].position \in Cells
      /\ after(respawn).blocks \subseteq Cells
      /\ after(respawn).bomb_count \in Nat
      /\ \A b \in DOMAIN after(respawn).bombs : after(respawn).bombs[b] \in BombType
  BY <1>1, TurnPlayed
<1>5. turn(respawn).turn = current_turn
  BY DEF TurnEvents
<1>6. Len(game_turns) \in Nat /\ DOMAIN game_turns = 1 .. Len(game_turns)
  BY SequenceLen DEF IInv, TypeOK
<1>7. next \in 0 .. TurnMod - 1 /\ next = (Len(game_turns) + 1) % TurnMod
  <2>1. TurnMod \in Nat \ {0}
    BY GameMasterAssumption
  <2>2. current_turn = Len(game_turns) % TurnMod /\ current_turn \in Int
    BY <2>1, <1>6 DEF IInv, TurnsNumbered
  <2>3. next = (Len(game_turns) + 1) % TurnMod
    BY <2>1, <2>2, <1>6, ModSuccessor
  <2>4. next \in 0 .. TurnMod - 1
    BY <2>1, <2>2
  <2> QED BY <2>3, <2>4
<1> HIDE DEF turn, after, next
<1>8. CASE /\ players' = after(respawn).players
           /\ blocks' = after(respawn).blocks
           /\ bombs' = after(respawn).bombs
           /\ bomb_count' = after(respawn).bomb_count
           /\ current_turn' = next
           /\ game_turns' = Append(game_turns, turn(respawn))
           /\ Broadcast(<<TurnMessage(turn(respawn))>>)
           /\ UNCHANGED <<game_state, playing_servers>>
  <2>1. /\ DOMAIN server_queues' = Servers
        /\ \A s \in Servers : IsSequence(server_queues'[s])
    BY <1>8, ShortSequences, BroadcastType DEF IInv
  <2>2. /\ IsSequence(game_turns')
        /\ Len(game_turns') = Len(game_turns) + 1
        /\ \A i \in 1 .. Len(game_turns) : game_turns'[i] = game_turns[i]
        /\ game_turns'[Len(game_turns) + 1] = turn(respawn)
    BY <1>8, AppendSequence DEF IInv, TypeOK
  <2>3. TypeOK'
    BY <1>1, <1>4, <1>7, <1>8, <2>1, <2>2 DEF IInv, TypeOK
  <2>4. SeatsDistinct' /\ GameIsFull'
    BY <1>2, <1>4, <1>8 DEF IInv, SeatsDistinct, GameIsFull
  <2>5. TurnsNumbered'
    <3>1. DOMAIN game_turns' = 1 .. Len(game_turns) + 1
      BY <2>2, SequenceLen
    <3>2. ASSUME NEW k \in DOMAIN game_turns'
          PROVE  game_turns'[k].turn = (k - 1) % TurnMod
      <4>1. CASE k \in 1 .. Len(game_turns)
        BY <4>1, <1>6, <2>2 DEF IInv, TurnsNumbered
      <4>2. CASE k = Len(game_turns) + 1
        <5>1. game_turns'[k] = turn(respawn) /\ k - 1 = Len(game_turns)
          BY <4>2, <1>6, <2>2
        <5> QED BY <5>1, <1>5 DEF IInv, TurnsNumbered
      <4> QED BY <1>6, <3>1, <3>2, <4>1, <4>2
    <3>3. game_turns' # <<>>
      BY <1>6, <2>2, EmptySeq
    <3> QED BY <1>2, <1>7, <1>8, <2>2, <3>2, <3>3 DEF TurnsNumbered
  <2> QED BY <1>1, <2>3, <2>4, <2>5 DEF IInv, NoTurnInLobby
<1>9. CASE /\ Broadcast(<<TurnMessage(turn(respawn)), GameEnded(after(respawn).players)>>)
           /\ clear_game_state
  <2>1. /\ DOMAIN server_queues' = Servers
        /\ \A s \in Servers : IsSequence(server_queues'[s])
    BY <1>9, ShortSequences, BroadcastType DEF IInv
  <2>2. /\ game_state' = "LOBBY" /\ game_turns' = <<>> /\ players' = <<>>
        /\ playing_servers' = [s \in Servers |-> NotPlaying]
        /\ blocks' = {} /\ bombs' = <<>> /\ bomb_count' = 0 /\ current_turn' = 0
    BY <1>9 DEF clear_game_state
  <2>3. /\ <<>> \in Seq(PlayerType) /\ Len(<<>>) = 0 /\ DOMAIN <<>> = {}
        /\ IsSequence(<<>>)
    BY EmptySequence
  <2>4. 0 % TurnMod = 0 /\ 0 \in 0 .. TurnMod - 1
    BY GameMasterAssumption
  <2>5. TypeOK'
    BY <1>1, <2>1, <2>2, <2>3, <2>4 DEF TypeOK, NotPlaying
  <2>6. SeatsDistinct'
    BY <2>2 DEF SeatsDistinct
  <2>7. GameIsFull'
    BY <2>2, <2>3, GameMasterAssumption DEF GameIsFull
  <2>8. TurnsNumbered'
    BY <2>2, <2>3, <2>4 DEF TurnsNumbered
  <2>9. NoTurnInLobby'
    BY <1>1 DEF NoTurnInLobby
  <2> QED BY <2>5, <2>6, <2>7, <2>8, <2>9 DEF IInv
<1> QED BY <1>3, <1>8, <1>9

-----------------------------------------------------------------------------
(* The theorems *)

LEMMA NextInv == IInv /\ [Next]_vars => IInv'
<1> SUFFICES ASSUME IInv, [Next]_vars PROVE IInv'
  OBVIOUS
<1>1. ASSUME NEW s \in Servers, Join(s) PROVE IInv'
  BY <1>1, JoinInv DEF Join
<1>2. ASSUME NEW s \in Servers, Act(s) PROVE IInv'
  BY <1>2, ActionInv, GameMasterAssumption DEF Act
<1>3. ASSUME NEW s \in Servers, ResetServer(s) PROVE IInv'
  BY <1>3, ResetInv DEF ResetServer
<1>4. ASSUME NEW s \in Servers, ServerPop(s) PROVE IInv'
  BY <1>4, ServerPopInv
<1>5. CASE ClockCheck \/ SpuriousWakeup
  BY <1>5, ClockInv
<1>6. CASE make_turn
  BY <1>6, MakeTurnInv
<1>7. CASE UNCHANGED vars
  BY <1>7 DEF vars, IInv, TypeOK, SeatsDistinct, GameIsFull, NoTurnInLobby,
              TurnsNumbered
<1> QED BY <1>1, <1>2, <1>3, <1>4, <1>5, <1>6, <1>7 DEF Next

\* The invariant holds in every reachable state.
THEOREM Invariance == Spec => []IInv
BY InitInv, NextInv, PTL DEF Spec

\* The fields of GameMaster keep their types: vectors stay vectors, bombs,
\* blocks and robots stay on the board.
THEOREM TypeCorrect == Spec => []TypeOK
<1>1. IInv => TypeOK
  BY DEF IInv
<1> QED BY <1>1, Invariance, PTL

\* No two servers ever control the same player, and each controls one that
\* exists, whatever joins, resets and games came before.
THEOREM SeatsStayDistinct == Spec => []SeatsDistinct
<1>1. IInv => SeatsDistinct
  BY DEF IInv
<1> QED BY <1>1, Invariance, PTL

\* A game is on exactly while the lobby is full, all its robots are placed,
\* and a lobby holds nothing of the game before.
THEOREM GamesAreFull == Spec => []GameIsFull
<1>1. IInv => GameIsFull
  BY DEF IInv
<1> QED BY <1>1, Invariance, PTL

\* The clock never plays a turn in the lobby, although it gives up the mutex
\* between its test of game_state and the turn.
THEOREM TurnsOnlyInGames == Spec => []NoTurnInLobby
<1>1. IInv => NoTurnInLobby
  BY DEF IInv
<1> QED BY <1>1, Invariance, PTL

\* The history is that of this game, numbered without a gap.
THEOREM HistoryNumbered == Spec => []TurnsNumbered
<1>1. IInv => TurnsNumbered
  BY DEF IInv
<1> QED BY <1>1, Invariance, PTL

-----------------------------------------------------------------------------
(* How a game ends *)

\* A step of ScoresSent.
ScoresAreSent ==
  game_state = "GAME" /\ game_state' = "LOBBY" =>
    \A s \in Servers :
      LET m == server_queues'[s][Len(server_queues'[s])]
      IN /\ m.id = "SC_GAME_ENDED"
         /\ DOMAIN m.scores = DOMAIN players
         /\ \A i \in DOMAIN players :
              m.scores[i] = players[i].score
                + (IF i \in DestroyedRobots(World) THEN 1 ELSE 0)

LEMMA LastOfTwo ==
  ASSUME NEW q, IsSequence(q), NEW a, NEW b
  PROVE  (q \o <<a, b>>)[Len(q \o <<a, b>>)] = b
<1> DEFINE T == {q[i] : i \in DOMAIN q} \cup {a, b}
           r == <<a, b>>
<1>1. q \in Seq(T) /\ Len(q) \in Nat
  BY SeqMonotonic, LenProperties DEF IsSequence
<1>2. r \in Seq(T) /\ Len(r) = 2 /\ r[2] = b
  OBVIOUS
<1> HIDE DEF T, r
<1>3. /\ Len(q \o r) = Len(q) + Len(r)
      /\ \A i \in 1 .. Len(q) + Len(r) :
           (q \o r)[i] = IF i <= Len(q) THEN q[i] ELSE r[i - Len(q)]
  BY <1>1, <1>2, ConcatProperties
<1>4. Len(q) + 2 \in 1 .. Len(q) + Len(r) /\ ~(Len(q) + 2 <= Len(q))
      /\ (Len(q) + 2) - Len(q) = 2
  BY <1>1, <1>2
<1>5. (q \o r)[Len(q) + 2] = r[2]
  BY <1>3, <1>4
<1> QED BY <1>2, <1>3, <1>5 DEF r

\* The scores a turn leaves: one more for each robot it destroys.
LEMMA TurnScores ==
  ASSUME IInv, clock = "sleeping",
         NEW respawn \in [DestroyedRobots(World) -> Cells],
         NEW i \in DOMAIN players
  PROVE  /\ DOMAIN Played(World, respawn).players = DOMAIN players
         /\ Played(World, respawn).players[i].score =
              players[i].score + (IF i \in DestroyedRobots(World) THEN 1 ELSE 0)
<1>1. World.players = players
  BY WorldInGame DEF IInv, NoTurnInLobby
<1>2. players[i] \in PlayerType
  BY LenProperties, ElementOfSeq DEF IInv, TypeOK
<1>3. players[i].score \in Nat
  BY <1>2 DEF PlayerType
<1>4. players[i].score + 0 = players[i].score
  BY <1>3
<1>5. PlayedPlayer(World, respawn, i).score =
        IF i \in DestroyedRobots(World) THEN players[i].score + 1 ELSE players[i].score
  BY <1>1, <1>2 DEF PlayedPlayer, PlayerType
<1>6. /\ DOMAIN Played(World, respawn).players = DOMAIN players
      /\ Played(World, respawn).players[i] = PlayedPlayer(World, respawn, i)
  BY <1>1 DEF Played
<1>7. CASE i \in DestroyedRobots(World)
  BY <1>5, <1>6, <1>7
<1>8. CASE i \notin DestroyedRobots(World)
  BY <1>4, <1>5, <1>6, <1>8
<1> QED BY <1>7, <1>8

\* Only the turn that ends a game leads from the game to the lobby.
LEMMA GameEndedScores ==
  ASSUME IInv, make_turn
  PROVE  ScoresAreSent
<1> SUFFICES ASSUME game_state = "GAME", game_state' = "LOBBY", NEW s \in Servers
             PROVE  LET m == server_queues'[s][Len(server_queues'[s])]
                    IN /\ m.id = "SC_GAME_ENDED"
                       /\ DOMAIN m.scores = DOMAIN players
                       /\ \A i \in DOMAIN players :
                            m.scores[i] = players[i].score
                              + (IF i \in DestroyedRobots(World) THEN 1 ELSE 0)
  BY DEF ScoresAreSent
<1> DEFINE after(respawn) == Played(World, respawn).players
<1>1. PICK respawn \in [DestroyedRobots(World) -> Cells] :
        \E t : Broadcast(<<t, GameEnded(after(respawn))>>)
  BY DEF make_turn
<1>2. PICK t : Broadcast(<<t, GameEnded(after(respawn))>>)
  BY <1>1
<1> DEFINE m == server_queues'[s][Len(server_queues'[s])]
<1>3. IsSequence(server_queues[s])
  BY DEF IInv, TypeOK
<1>4. server_queues'[s] = server_queues[s] \o <<t, GameEnded(after(respawn))>>
  BY <1>2 DEF Broadcast
<1>5. m = GameEnded(after(respawn))
  BY <1>3, <1>4, LastOfTwo
<1> HIDE DEF m
<1>6. /\ m.id = "SC_GAME_ENDED"
      /\ m.scores = [i \in DOMAIN after(respawn) |-> after(respawn)[i].score]
  BY <1>5 DEF GameEnded
<1>7. clock = "sleeping"
  BY DEF make_turn
<1>8. \A i \in DOMAIN players :
        after(respawn)[i].score =
          players[i].score + (IF i \in DestroyedRobots(World) THEN 1 ELSE 0)
  BY <1>7, TurnScores
<1>9. DOMAIN after(respawn) = DOMAIN players
  <2>1. World.players = players
    BY <1>7, WorldInGame DEF IInv, NoTurnInLobby
  <2> QED BY <2>1 DEF Played
<1> HIDE DEF after
<1>10. DOMAIN m.scores = DOMAIN players
  BY <1>6, <1>9
<1>11. ASSUME NEW i \in DOMAIN players
       PROVE  m.scores[i] = players[i].score
                + (IF i \in DestroyedRobots(World) THEN 1 ELSE 0)
  BY <1>6, <1>8, <1>9
<1> QED BY <1>6, <1>10, <1>11 DEF m

\* Whoever was connected when a game ended is told its scores, each one the
\* score before the last turn and one more if that turn destroyed the robot.
THEOREM ScoresReachAll == Spec => ScoresSent
<1>1. ASSUME IInv, Next PROVE ScoresAreSent
  <2>1. ASSUME NEW s \in Servers, Join(s) PROVE ScoresAreSent
    BY <2>1 DEF Join, handle_join, start_game, ScoresAreSent
  <2>2. ASSUME NEW s \in Servers, Act(s) \/ ResetServer(s) \/ ServerPop(s)
        PROVE  ScoresAreSent
    BY <2>2 DEF Act, handle_action, ResetServer, reset_server, ServerPop,
                ScoresAreSent
  <2>3. CASE ClockCheck \/ SpuriousWakeup
    BY <2>3 DEF ClockCheck, SpuriousWakeup, ScoresAreSent
  <2>4. CASE make_turn
    BY <1>1, <2>4, GameEndedScores
  <2> QED BY <1>1, <2>1, <2>2, <2>3, <2>4 DEF Next
<1>2. IInv /\ [Next]_vars =>
        [game_state = "GAME" /\ game_state' = "LOBBY" =>
           \A s \in Servers :
             LET m == server_queues'[s][Len(server_queues'[s])]
             IN /\ m.id = "SC_GAME_ENDED"
                /\ DOMAIN m.scores = DOMAIN players
                /\ \A i \in DOMAIN players :
                     m.scores[i] = players[i].score
                       + (IF i \in DestroyedRobots(World) THEN 1 ELSE 0)]_vars
  BY <1>1 DEF ScoresAreSent
<1> QED BY <1>2, Invariance, PTL DEF Spec, ScoresSent

-----------------------------------------------------------------------------
(* When bombs explode *)

\* The bombs placed in turn k are still there.
Burning(k) == Len(game_turns) - k < Fuse

\* Every bomb comes from a turn of this game, and its timer tells how many
\* turns ago that was. Ids below bomb_count are not given out again.
FuseInv ==
  /\ \A b \in DOMAIN bombs : \E k \in DOMAIN game_turns :
       Burning(k) /\ b \in DOMAIN game_turns[k].bombs_placed
  /\ \A k \in DOMAIN game_turns : \A b \in DOMAIN game_turns[k].bombs_placed :
       /\ b \in Nat /\ b < bomb_count
       /\ Burning(k) =>
            /\ b \in DOMAIN bombs
            /\ bombs[b].timer = (BombTimer - (Len(game_turns) - k)) % TimeMod
  /\ FuseExact

LEMMA FuseType ==
  /\ Fuse \in Nat \ {0} /\ Fuse <= TimeMod
  /\ TimeMod \in Nat \ {0} /\ BombTimer \in 0 .. TimeMod - 1
BY BoardAssumption DEF Fuse

\* The timer of a bomb a turns old, and when the next tick takes it to 0.
LEMMA FuseTicks ==
  ASSUME NEW a \in Nat, a < Fuse
  PROVE  /\ (((BombTimer - a) % TimeMod) - 1) % TimeMod = (BombTimer - (a + 1)) % TimeMod
         /\ (BombTimer - (a + 1)) % TimeMod = 0 <=> a + 1 = Fuse
<1> DEFINE m == TimeMod
           c == BombTimer - (a + 1)
<1>1. /\ m \in Nat \ {0} /\ BombTimer \in 0 .. m - 1 /\ c \in Int
      /\ BombTimer - a = c + 1 /\ c + 1 \in Int
  BY FuseType
<1>2. CASE BombTimer = 0
  <2>1. Fuse = m /\ c = m * (0 - 1) + (m - (a + 1)) /\ m - (a + 1) \in 0 .. m - 1
    BY <1>1, <1>2 DEF Fuse
  <2>2. c % m = m - (a + 1)
    BY <1>1, <2>1, Remainder
  <2>3. CASE a = 0
    <3>1. c + 1 = m * 0 + 0 /\ 0 \in 0 .. m - 1 /\ 0 - 1 = c
      BY <1>1, <1>2, <2>3
    <3>2. (c + 1) % m = 0
      BY <1>1, <3>1, Remainder
    <3> QED BY <1>1, <2>1, <2>2, <3>1, <3>2
  <2>4. CASE a # 0
    <3>1. c + 1 = m * (0 - 1) + (m - a) /\ m - a \in 0 .. m - 1
      BY <1>1, <1>2, <2>1, <2>4
    <3>2. (c + 1) % m = m - a
      BY <1>1, <3>1, Remainder
    <3>3. m - a - 1 = m * 0 + (m - (a + 1)) /\ m - a - 1 \in Int
      BY <1>1, <2>1
    <3>4. (m - a - 1) % m = m - (a + 1)
      BY <1>1, <2>1, <3>3, Remainder
    <3> QED BY <1>1, <2>1, <2>2, <3>2, <3>4
  <2> QED BY <2>3, <2>4
<1>3. CASE BombTimer # 0
  <2>1. Fuse = BombTimer /\ c \in 0 .. m - 1 /\ c + 1 \in 0 .. m - 1
    BY <1>1, <1>3 DEF Fuse
  <2>2. c = m * 0 + c /\ c + 1 = m * 0 + (c + 1) /\ c + 1 - 1 = c
    BY <1>1
  <2> HIDE DEF c, m
  <2>3. c % m = c
    BY <1>1, <2>1, <2>2, Remainder
  <2>4. (c + 1) % m = c + 1
    BY <1>1, <2>1, <2>2, Remainder
  <2> QED BY <1>1, <2>1, <2>2, <2>3, <2>4 DEF c, m
<1> QED BY <1>2, <1>3

LEMMA InitFuse == Init => FuseInv
BY EmptySequence DEF Init, FuseInv, FuseExact

\* Steps that neither record a turn nor touch a bomb.
LEMMA FuseKept ==
  ASSUME FuseInv, UNCHANGED <<game_turns, bombs, bomb_count>>
  PROVE  FuseInv'
BY DEF FuseInv, FuseExact, Burning

\* A game starts without bombs.
LEMMA StartFuse ==
  ASSUME IInv, IInv', NEW ps, NEW accepted, start_game(ps, accepted),
         game_state = "LOBBY"
  PROVE  FuseInv'
<1>1. PICK positions \in [DOMAIN ps -> Cells], initial \in InitialBlockSets :
        /\ game_turns' = Append(game_turns, Turn0(positions, initial))
        /\ UNCHANGED <<bombs, bomb_count>>
  BY DEF start_game
<1> DEFINE t == Turn0(positions, initial)
<1>2. DOMAIN <<>> = {} /\ Len(<<>>) = 0 /\ IsSequence(<<>>)
  BY EmptySequence
<1>3. DOMAIN t.exploded = {} /\ DOMAIN t.bombs_placed = {}
  BY <1>2 DEF Turn0
<1> HIDE DEF t
<1>4. game_turns' = Append(game_turns, t)
  BY <1>1 DEF t
<1>5. game_turns = <<>> /\ bombs' = <<>>
  BY <1>1 DEF IInv, GameIsFull, TurnsNumbered
<1>6. IsSequence(game_turns') /\ Len(game_turns') = 1 /\ game_turns'[1] = t
  <2>1. Len(game_turns) = 0 /\ IsSequence(game_turns)
    BY <1>2, <1>5
  <2>2. Len(game_turns') = 0 + 1 /\ game_turns'[0 + 1] = t
    BY <1>4, <2>1, AppendSequence
  <2>3. IsSequence(game_turns')
    BY <1>4, <2>1, AppendSequence
  <2> QED BY <2>2, <2>3
<1>7. DOMAIN game_turns' = 1 .. 1
  BY <1>6, SequenceLen
<1>8. \A k \in DOMAIN game_turns' : k = 1
  BY <1>7
<1>9. 1 - Fuse \notin DOMAIN game_turns'
  BY <1>7, FuseType
<1>10. FuseExact'
  <2>1. ASSUME NEW k \in DOMAIN game_turns'
        PROVE  DOMAIN game_turns'[k].exploded =
                 IF k - Fuse \in DOMAIN game_turns'
                 THEN DOMAIN game_turns'[k - Fuse].bombs_placed ELSE {}
    BY <1>3, <1>6, <1>8, <1>9
  <2> QED BY <2>1 DEF FuseExact, Fuse
<1>11. \A k \in DOMAIN game_turns' : DOMAIN game_turns'[k].bombs_placed = {}
  BY <1>3, <1>6, <1>8
<1>12. DOMAIN bombs' = {}
  BY <1>2, <1>5
<1> QED BY <1>10, <1>11, <1>12 DEF FuseInv

\* The bombs that explode in a turn are those placed Fuse turns before.
LEMMA ExplodingAre ==
  ASSUME IInv, FuseInv
  PROVE  \A b \in DOMAIN bombs, k \in DOMAIN game_turns :
           Burning(k) /\ b \in DOMAIN game_turns[k].bombs_placed =>
             /\ Tick(bombs[b]).timer
                  = (BombTimer - (Len(game_turns) + 1 - k)) % TimeMod
             /\ b \in Exploding(World) <=> Len(game_turns) + 1 - k = Fuse
<1> SUFFICES ASSUME NEW b \in DOMAIN bombs, NEW k \in DOMAIN game_turns,
                    Burning(k), b \in DOMAIN game_turns[k].bombs_placed
             PROVE  /\ Tick(bombs[b]).timer
                         = (BombTimer - (Len(game_turns) + 1 - k)) % TimeMod
                    /\ b \in Exploding(World) <=> Len(game_turns) + 1 - k = Fuse
  OBVIOUS
<1>1. Len(game_turns) \in Nat /\ k \in 1 .. Len(game_turns)
  BY SequenceLen DEF IInv, TypeOK
<1> DEFINE a == Len(game_turns) - k
<1>2. a \in Nat /\ a < Fuse /\ Len(game_turns) + 1 - k = a + 1
  BY <1>1 DEF Burning
<1>3. bombs[b].timer = (BombTimer - a) % TimeMod
  BY DEF FuseInv
<1> HIDE DEF a
<1>4. Tick(bombs[b]).timer = (BombTimer - (a + 1)) % TimeMod
  BY <1>2, <1>3, FuseTicks DEF Tick
<1>5. b \in Exploding(World) <=> a + 1 = Fuse
  BY <1>2, <1>4, FuseTicks DEF Exploding, World
<1> QED BY <1>2, <1>4, <1>5

LEMMA PlayedFuse ==
  ASSUME IInv, FuseInv, game_state = "GAME",
         NEW respawn \in [DestroyedRobots(World) -> Cells],
         bombs' = Played(World, respawn).bombs,
         bomb_count' = Played(World, respawn).bomb_count,
         game_turns' = Append(game_turns, TurnEvents(World, respawn, current_turn))
  PROVE  FuseInv'
<1> DEFINE L == Len(game_turns)
           t == TurnEvents(World, respawn, current_turn)
           placed == DOMAIN PlacedBombs(World)
<1>1. /\ DOMAIN t.exploded = Exploding(World)
      /\ DOMAIN t.bombs_placed = placed
  BY DEF TurnEvents
<1>2. /\ IsSequence(game_turns) /\ L \in Nat /\ DOMAIN game_turns = 1 .. L
  BY SequenceLen DEF IInv, TypeOK
<1> HIDE DEF t
<1>3. /\ Len(game_turns') = L + 1
      /\ DOMAIN game_turns' = 1 .. L + 1
      /\ \A k \in 1 .. L : game_turns'[k] = game_turns[k]
      /\ game_turns'[L + 1] = t
  <2>1. game_turns' = Append(game_turns, t)
    BY DEF t
  <2>2. /\ IsSequence(game_turns') /\ Len(game_turns') = L + 1
        /\ \A k \in 1 .. L : game_turns'[k] = game_turns[k]
        /\ game_turns'[L + 1] = t
    BY <1>2, <2>1, AppendSequence
  <2> QED BY <2>2, SequenceLen
<1> HIDE DEF L, placed
<1>4. /\ bombs' = PlayedBombs(World)
      /\ bomb_count' = bomb_count + Cardinality(Acting(World, "PLACE_BOMB"))
      /\ World.bombs = bombs /\ World.bomb_count = bomb_count
  BY DEF Played, World
<1>5. /\ DOMAIN bombs' = (DOMAIN bombs \ Exploding(World)) \cup placed
      /\ \A b \in placed : bombs'[b].timer = BombTimer
      /\ \A b \in DOMAIN bombs \ Exploding(World) :
           b \notin placed => bombs'[b] = Tick(bombs[b])
  BY <1>4 DEF PlayedBombs, placed
<1>6. WorldOK(World, Len(players))
  BY WorldInGame DEF IInv
<1>7. \A b \in placed : b \in Nat /\ bomb_count <= b /\ b < bomb_count'
  BY <1>4, <1>6, PlacedIds DEF placed
<1>8. bomb_count \in Nat /\ bomb_count' \in Nat /\ bomb_count <= bomb_count'
  <2>1. Cardinality(Acting(World, "PLACE_BOMB")) \in Nat
    BY <1>6, ActingFinite
  <2> QED BY <1>4, <2>1 DEF IInv, TypeOK
<1>9. Fuse \in Nat \ {0} /\ TimeMod \in Nat \ {0} /\ BombTimer \in 0 .. TimeMod - 1
  BY FuseType
<1>10. \A b \in DOMAIN bombs, k \in 1 .. L :
         Burning(k) /\ b \in DOMAIN game_turns[k].bombs_placed =>
           /\ Tick(bombs[b]).timer = (BombTimer - (L + 1 - k)) % TimeMod
           /\ b \in Exploding(World) <=> L + 1 - k = Fuse
  BY <1>2, ExplodingAre DEF L
<1>11. /\ \A k \in 1 .. L + 1 : Burning(k)' <=> L + 1 - k < Fuse
       /\ \A k \in 1 .. L : Burning(k) <=> L - k < Fuse
  BY <1>3 DEF Burning, Fuse, L
<1>12. ASSUME NEW b \in DOMAIN bombs'
       PROVE  \E k \in DOMAIN game_turns' :
                Burning(k)' /\ b \in DOMAIN game_turns'[k].bombs_placed
  <2>1. CASE b \in placed
    <3>1. L + 1 \in 1 .. L + 1 /\ L + 1 - (L + 1) < Fuse
      BY <1>2, <1>9 DEF L
    <3> QED BY <1>1, <1>3, <1>11, <2>1, <3>1
  <2>2. CASE b \in DOMAIN bombs \ Exploding(World)
    <3>1. PICK k \in 1 .. L : Burning(k) /\ b \in DOMAIN game_turns[k].bombs_placed
      BY <1>2, <2>2 DEF FuseInv
    <3>2. L + 1 - k # Fuse /\ L - k < Fuse
      BY <1>10, <1>11, <2>2, <3>1
    <3>3. L + 1 - k < Fuse /\ k \in 1 .. L + 1
      BY <1>2, <1>9, <3>2 DEF L
    <3> QED BY <1>3, <1>11, <3>1, <3>3
  <2> QED BY <1>5, <2>1, <2>2
<1>13. ASSUME NEW k \in DOMAIN game_turns',
              NEW b \in DOMAIN game_turns'[k].bombs_placed
       PROVE  /\ b \in Nat /\ b < bomb_count'
              /\ Burning(k)' =>
                   /\ b \in DOMAIN bombs'
                   /\ bombs'[b].timer = (BombTimer - (Len(game_turns') - k)) % TimeMod
  <2>1. CASE k = L + 1
    <3>1. b \in placed
      BY <1>1, <1>3, <2>1
    <3>2. Len(game_turns') - k = 0 /\ BombTimer - 0 = BombTimer
      BY <1>2, <1>3, <1>9, <2>1 DEF L
    <3>3. BombTimer % TimeMod = BombTimer
      BY <1>9
    <3> QED BY <1>5, <1>7, <3>1, <3>2, <3>3
  <2>2. CASE k \in 1 .. L
    <3>1. b \in DOMAIN game_turns[k].bombs_placed
      BY <1>3, <2>2
    <3>2. b \in Nat /\ b < bomb_count
      BY <1>2, <2>2, <3>1 DEF FuseInv
    <3>3. b \in Nat /\ b < bomb_count' /\ b \notin placed
      BY <1>7, <1>8, <3>2
    <3>4. ASSUME Burning(k)'
          PROVE  /\ b \in DOMAIN bombs'
                 /\ bombs'[b].timer = (BombTimer - (Len(game_turns') - k)) % TimeMod
      <4>1. L + 1 - k < Fuse /\ k \in 1 .. L + 1
        BY <1>2, <1>11, <2>2, <3>4 DEF L
      <4>2. Burning(k) /\ L + 1 - k # Fuse
        BY <1>2, <1>9, <1>11, <2>2, <4>1 DEF L
      <4>3. b \in DOMAIN bombs
        BY <1>2, <2>2, <3>1, <4>2 DEF FuseInv
      <4>4. /\ b \notin Exploding(World)
            /\ Tick(bombs[b]).timer = (BombTimer - (L + 1 - k)) % TimeMod
        BY <1>10, <2>2, <3>1, <4>2, <4>3
      <4>5. Len(game_turns') - k = L + 1 - k
        BY <1>2, <1>3, <2>2 DEF L
      <4>6. b \in DOMAIN bombs' /\ bombs'[b] = Tick(bombs[b])
        BY <1>5, <3>3, <4>3, <4>4
      <4> QED BY <4>4, <4>5, <4>6
    <3> QED BY <3>3, <3>4
  <2> QED BY <1>2, <1>3, <2>1, <2>2 DEF L
<1>14. ASSUME NEW k \in DOMAIN game_turns'
       PROVE  DOMAIN game_turns'[k].exploded =
                IF k - Fuse \in DOMAIN game_turns'
                THEN DOMAIN game_turns'[k - Fuse].bombs_placed ELSE {}
  <2>1. /\ k - Fuse \in DOMAIN game_turns' <=> k - Fuse \in 1 .. L
        /\ k - Fuse \in 1 .. L => game_turns'[k - Fuse] = game_turns[k - Fuse]
    BY <1>2, <1>3, <1>9 DEF L
  <2>2. CASE k \in 1 .. L
    BY <1>2, <1>3, <2>1, <2>2 DEF FuseInv, FuseExact
  <2>3. CASE k = L + 1
    <3> DEFINE j == L + 1 - Fuse
    <3>1. DOMAIN game_turns'[k].exploded = Exploding(World)
      BY <1>1, <1>3, <2>3
    <3>2. ASSUME NEW b \in Exploding(World)
          PROVE  j \in 1 .. L /\ b \in DOMAIN game_turns[j].bombs_placed
      <4>1. b \in DOMAIN bombs
        BY <1>4 DEF Exploding
      <4>2. PICK i \in 1 .. L : Burning(i) /\ b \in DOMAIN game_turns[i].bombs_placed
        BY <1>2, <4>1 DEF FuseInv
      <4>3. L + 1 - i = Fuse
        BY <1>10, <3>2, <4>1, <4>2
      <4>4. i = j
        BY <1>2, <1>9, <4>3 DEF L
      <4> QED BY <4>2, <4>4
    <3>3. ASSUME j \in 1 .. L, NEW b \in DOMAIN game_turns[j].bombs_placed
          PROVE  b \in Exploding(World)
      <4>1. L - j < Fuse /\ L + 1 - j = Fuse
        BY <1>2, <1>9 DEF L
      <4>2. Burning(j)
        BY <1>11, <3>3, <4>1
      <4>3. b \in DOMAIN bombs
        BY <1>2, <3>3, <4>2 DEF FuseInv
      <4> QED BY <1>10, <3>3, <4>1, <4>2, <4>3
    <3>4. k - Fuse = j
      BY <1>2, <1>9, <2>3 DEF L
    <3> HIDE DEF j
    <3> QED BY <2>1, <3>1, <3>2, <3>3, <3>4
  <2> QED BY <1>2, <1>3, <2>2, <2>3 DEF L
<1>15. FuseExact'
  BY <1>14 DEF FuseExact, Fuse
<1> QED BY <1>12, <1>13, <1>15 DEF FuseInv

LEMMA TurnFuse ==
  ASSUME IInv, FuseInv, make_turn
  PROVE  FuseInv'
<1>1. game_state = "GAME"
  BY DEF make_turn, IInv, NoTurnInLobby
<1>2. PICK respawn \in [DestroyedRobots(World) -> Cells] :
        \/ /\ bombs' = Played(World, respawn).bombs
           /\ bomb_count' = Played(World, respawn).bomb_count
           /\ game_turns' = Append(game_turns, TurnEvents(World, respawn, current_turn))
        \/ bombs' = <<>> /\ game_turns' = <<>>
  BY DEF make_turn, clear_game_state
<1>3. CASE bombs' = <<>> /\ game_turns' = <<>>
  BY <1>3, EmptySequence DEF FuseInv, FuseExact
<1> QED BY <1>1, <1>2, <1>3, PlayedFuse

LEMMA NextFuse == IInv /\ IInv' /\ FuseInv /\ [Next]_vars => FuseInv'
<1> SUFFICES ASSUME IInv, IInv', FuseInv, [Next]_vars PROVE FuseInv'
  OBVIOUS
<1>1. ASSUME NEW s \in Servers, Join(s) PROVE FuseInv'
  <2>1. PICK name \in Names : handle_join(s, name)
    BY <1>1 DEF Join
  <2>2. /\ game_state = "LOBBY"
        /\ \/ \E ps, accepted : start_game(ps, accepted)
           \/ UNCHANGED gameVars
    BY <2>1 DEF handle_join, may_join
  <2> QED BY <2>2, StartFuse, FuseKept DEF gameVars
<1>2. ASSUME NEW s \in Servers, Act(s) \/ ResetServer(s) \/ ServerPop(s)
      PROVE  FuseInv'
  BY <1>2, FuseKept DEF Act, handle_action, ResetServer, reset_server, ServerPop,
                        gameVars
<1>3. CASE ClockCheck \/ SpuriousWakeup \/ UNCHANGED vars
  BY <1>3, FuseKept DEF ClockCheck, SpuriousWakeup, vars, gameVars
<1>4. CASE make_turn
  BY <1>4, TurnFuse
<1> QED BY <1>1, <1>2, <1>3, <1>4 DEF Next

\* A bomb explodes exactly Fuse turns after it was placed, whatever the
\* players do meanwhile and for every timer and width of game_time_t.
THEOREM FusesAreExact == Spec => []FuseExact
<1>1. FuseInv => FuseExact
  BY DEF FuseInv
<1> QED BY <1>1, InitFuse, NextFuse, Invariance, PTL DEF Spec

-----------------------------------------------------------------------------
(* What a server is still told *)

\* A queue that ends with what is left of the messages c, after a message of
\* marks if that is all of them: what NothingMissed says of each queue.
Follows(q, c, marks) ==
  \E n \in 0 .. Len(q) :
    /\ n <= Len(q) /\ n <= Len(c)
    /\ \A j \in 1 .. n : q[Len(q) - n + j] = c[Len(c) - n + j]
    /\ n < Len(q) => n = Len(c) /\ q[Len(q) - n].id \in marks

\* Who adds the next message to both keeps them in step.
LEMMA FollowsNext ==
  ASSUME NEW q, IsSequence(q), NEW c, NEW marks, Len(c) \in Nat,
         Follows(q, c, marks), NEW m, NEW d, Len(d) = Len(c) + 1,
         \A i \in 1 .. Len(c) : d[i] = c[i], d[Len(c) + 1] = m
  PROVE  Follows(q \o <<m>>, d, marks)
<1> DEFINE r == q \o <<m>>
           L == Len(q)
           C == Len(c)
<1>1. /\ L \in Nat /\ IsSequence(r) /\ DOMAIN r = 1 .. L + 1
      /\ \A i \in 1 .. L + 1 : r[i] = IF i <= L THEN q[i] ELSE m
  <2> DEFINE e == <<m>>
  <2>1. IsSequence(e) /\ Len(e) = 1 /\ e[1] = m
    BY ShortSequences
  <2> HIDE DEF e
  <2>2. /\ L \in Nat /\ IsSequence(q \o e) /\ DOMAIN (q \o e) = 1 .. L + Len(e)
        /\ \A i \in 1 .. L + Len(e) :
             (q \o e)[i] = IF i <= L THEN q[i] ELSE e[i - L]
    BY <2>1, ConcatIndices
  <2>3. \A i \in 1 .. L + 1 : ~(i <= L) => i - L = 1
    BY <2>2
  <2> QED BY <2>1, <2>2, <2>3 DEF e
<1>2. Len(r) = L + 1
  BY <1>1, SequenceLen
<1>3. PICK n \in 0 .. L :
        /\ n <= C
        /\ \A j \in 1 .. n : q[L - n + j] = c[C - n + j]
        /\ n < L => n = C /\ q[L - n].id \in marks
  BY DEF Follows
<1> HIDE DEF r, L
<1>4. n + 1 \in 0 .. L + 1 /\ n + 1 <= C + 1
  BY <1>1, <1>3
<1>5. ASSUME NEW j \in 1 .. n + 1
      PROVE  r[Len(r) - (n + 1) + j] = d[Len(d) - (n + 1) + j]
  <2>1. Len(r) - (n + 1) + j = L - n + j /\ Len(d) - (n + 1) + j = C - n + j
    BY <1>1, <1>2, <1>3, SMTT(40)
  <2>2. CASE j \in 1 .. n
    <3>1. L - n + j \in 1 .. L /\ C - n + j \in 1 .. C
      BY <1>1, <1>3, <2>2, SMTT(40)
    <3>2. r[L - n + j] = q[L - n + j]
      BY <1>1, <3>1
    <3>3. d[C - n + j] = c[C - n + j]
      BY <3>1
    <3> QED BY <1>3, <2>1, <2>2, <3>2, <3>3
  <2>3. CASE j = n + 1
    <3>1. L - n + j = L + 1 /\ C - n + j = C + 1
      BY <1>1, <1>3, <2>3
    <3>2. r[L + 1] = m
      BY <1>1
    <3> QED BY <2>1, <3>1, <3>2
  <2> QED BY <1>1, <1>3, <2>2, <2>3
<1>6. ASSUME n + 1 < L + 1
      PROVE  n + 1 = Len(d) /\ r[Len(r) - (n + 1)].id \in marks
  <2>1. n < L /\ Len(r) - (n + 1) = L - n /\ L - n \in 1 .. L
    BY <1>1, <1>2, <1>3, <1>6
  <2>2. r[L - n] = q[L - n]
    BY <1>1, <2>1
  <2> QED BY <1>3, <2>1, <2>2
<1>7. Follows(r, d, marks)
  <2> DEFINE k == n + 1
  <2>1. k \in 0 .. Len(r) /\ k <= Len(r) /\ k <= Len(d)
    BY <1>1, <1>2, <1>4
  <2>2. \A j \in 1 .. k : r[Len(r) - k + j] = d[Len(d) - k + j]
    BY <1>5
  <2>3. k < Len(r) => k = Len(d) /\ r[Len(r) - k].id \in marks
    BY <1>2, <1>6
  <2> HIDE DEF k
  <2> QED BY <2>1, <2>2, <2>3 DEF Follows
<1> QED BY <1>7 DEF r

\* A fresh start: all of the messages, after a message of marks.
LEMMA FollowsFresh ==
  ASSUME NEW q, IsSequence(q), NEW r, IsSequence(r), NEW c, NEW marks,
         Len(c) \in Nat, Len(c) < Len(r), r[Len(r) - Len(c)].id \in marks,
         \A j \in 1 .. Len(c) : r[Len(r) - Len(c) + j] = c[j]
  PROVE  Follows(q \o r, c, marks)
<1> DEFINE p == q \o r
           L == Len(q)
           R == Len(r)
           C == Len(c)
<1>1. /\ L \in Nat /\ R \in Nat /\ C \in Nat /\ IsSequence(p)
      /\ DOMAIN p = 1 .. L + R
      /\ \A i \in 1 .. L + R : p[i] = IF i <= L THEN q[i] ELSE r[i - L]
  BY ConcatIndices
<1>2. Len(p) = L + R
  BY <1>1, SequenceLen
<1> HIDE DEF p, L, R
<1>3. \A k \in 1 .. R : p[L + k] = r[k]
  <2>1. \A k \in 1 .. R : L + k \in 1 .. L + R /\ ~(L + k <= L) /\ L + k - L = k
    BY <1>1
  <2> QED BY <1>1, <2>1
<1>4. C \in 0 .. L + R /\ C < R
  BY <1>1 DEF R
<1>5. p[Len(p) - C] = r[R - C]
  <2>1. R - C \in 1 .. R /\ L + (R - C) = Len(p) - C
    BY <1>1, <1>2, <1>4
  <2> QED BY <1>1, <1>3, <2>1
<1>6. ASSUME NEW j \in 1 .. C
      PROVE  p[Len(p) - C + j] = c[C - C + j]
  <2>1. R - C + j \in 1 .. R /\ L + (R - C + j) = Len(p) - C + j /\ C - C + j = j
    BY <1>1, <1>2, <1>4
  <2>2. p[Len(p) - C + j] = r[R - C + j]
    BY <1>3, <2>1
  <2> QED BY <2>1, <2>2 DEF R
<1>7. Follows(p, c, marks)
  <2>1. C \in 0 .. Len(p) /\ C <= Len(p) /\ C <= Len(c)
    BY <1>1, <1>2, <1>4
  <2>2. \A j \in 1 .. C : p[Len(p) - C + j] = c[Len(c) - C + j]
    BY <1>6
  <2>3. p[Len(p) - C].id \in marks /\ C = Len(c)
    BY <1>5 DEF R
  <2> HIDE DEF C
  <2> QED BY <2>1, <2>2, <2>3 DEF Follows
<1> QED BY <1>7 DEF p

\* A queue that is popped has less left, but misses nothing.
LEMMA FollowsTail ==
  ASSUME NEW q, IsSequence(q), q # <<>>, NEW c, NEW marks, Len(c) \in Nat,
         Follows(q, c, marks)
  PROVE  Follows(Tail(q), c, marks)
<1> DEFINE r == Tail(q)
           L == Len(q)
           C == Len(c)
<1>1. /\ L \in Nat \ {0} /\ IsSequence(r) /\ DOMAIN r = 1 .. L - 1
      /\ \A i \in 1 .. L - 1 : r[i] = q[i + 1]
  BY TailIndices
<1>2. Len(r) = L - 1
  <2>1. Len(r) \in Nat /\ 1 .. Len(r) = 1 .. L - 1
    BY <1>1, SequenceLen
  <2> QED BY <1>1, <2>1
<1>3. PICK n \in 0 .. L :
        /\ n <= C
        /\ \A j \in 1 .. n : q[L - n + j] = c[C - n + j]
        /\ n < L => n = C /\ q[L - n].id \in marks
  BY DEF Follows
<1> HIDE DEF r, L
<1>4. CASE n < L
  <2>1. n \in 0 .. L - 1 /\ n <= L - 1
    BY <1>1, <1>3, <1>4
  <2>2. ASSUME NEW j \in 1 .. n
        PROVE  r[L - 1 - n + j] = c[C - n + j]
    <3>1. L - 1 - n + j \in 1 .. L - 1 /\ L - 1 - n + j + 1 = L - n + j
      BY <1>1, <1>3, <1>4
    <3> QED BY <1>1, <1>3, <3>1
  <2>3. ASSUME n < L - 1
        PROVE  r[L - 1 - n].id \in marks
    <3>1. L - 1 - n \in 1 .. L - 1 /\ L - 1 - n + 1 = L - n
      BY <1>1, <1>3, <2>3
    <3>2. r[L - 1 - n] = q[L - n]
      BY <1>1, <3>1
    <3> QED BY <1>3, <1>4, <3>2
  <2>4. Follows(r, c, marks)
    BY <1>2, <1>3, <1>4, <2>1, <2>2, <2>3 DEF Follows
  <2> QED BY <2>4 DEF r
<1>5. CASE n = L
  <2>1. L - 1 \in 0 .. L - 1 /\ L - 1 <= L - 1 /\ L - 1 <= C
    BY <1>1, <1>3, <1>5
  <2>2. ASSUME NEW j \in 1 .. L - 1
        PROVE  r[L - 1 - (L - 1) + j] = c[C - (L - 1) + j]
    <3>1. /\ L - 1 - (L - 1) + j = j /\ j + 1 \in 1 .. n
          /\ L - n + (j + 1) = j + 1 /\ C - n + (j + 1) = C - (L - 1) + j
      BY <1>1, <1>5
    <3>2. r[j] = q[j + 1] /\ q[L - n + (j + 1)] = c[C - n + (j + 1)]
      BY <1>1, <1>3, <3>1
    <3> QED BY <3>1, <3>2
  <2>3. ~(L - 1 < L - 1)
    BY <1>1
  <2>4. Follows(r, c, marks)
    BY <1>2, <2>1, <2>2, <2>3 DEF Follows
  <2> QED BY <2>4 DEF r
<1> QED BY <1>1, <1>3, <1>4, <1>5

-----------------------------------------------------------------------------
(* Nothing is missed *)

\* Current and Marks for any state of the game.
CurrentOf(state, turns, ps) ==
  IF state = "GAME"
  THEN [i \in DOMAIN turns |-> TurnMessage(turns[i])]
  ELSE [i \in DOMAIN ps |-> Accepted(i, ps[i])]

MarksOf(state) ==
  {"SC_HELLO", IF state = "GAME" THEN "SC_GAME_STARTED" ELSE "SC_GAME_ENDED"}

Told(queues, state, turns, ps) ==
  \A s \in Servers : Follows(queues[s], CurrentOf(state, turns, ps), MarksOf(state))

LEMMA ToldIs ==
  /\ NothingMissed <=> Told(server_queues, game_state, game_turns, players)
  /\ NothingMissed' <=> Told(server_queues', game_state', game_turns', players')
<1>1. /\ Current = CurrentOf(game_state, game_turns, players)
      /\ Current' = CurrentOf(game_state', game_turns', players')
      /\ Marks = MarksOf(game_state) /\ Marks' = MarksOf(game_state')
  BY DEF Current, CurrentOf, Marks, MarksOf
<1>2. NothingMissed <=> \A s \in Servers : Follows(server_queues[s], Current, Marks)
  BY Zenon DEF NothingMissed, EndsWithCurrent, Follows
<1>3. NothingMissed' <=>
        \A s \in Servers : Follows(server_queues'[s], Current', Marks')
  BY Zenon DEF NothingMissed, EndsWithCurrent, Follows
<1> QED BY <1>1, <1>2, <1>3 DEF Told

LEMMA CurrentType ==
  ASSUME NEW state, NEW turns, IsSequence(turns), NEW ps, IsSequence(ps)
  PROVE  LET c == CurrentOf(state, turns, ps)
             n == IF state = "GAME" THEN Len(turns) ELSE Len(ps)
         IN /\ IsSequence(c) /\ Len(c) = n /\ n \in Nat
            /\ \A i \in 1 .. n :
                 c[i] = IF state = "GAME" THEN TurnMessage(turns[i])
                        ELSE Accepted(i, ps[i])
<1> DEFINE c == CurrentOf(state, turns, ps)
           n == IF state = "GAME" THEN Len(turns) ELSE Len(ps)
           S == {c[i] : i \in 1 .. n}
<1>1. /\ Len(turns) \in Nat /\ DOMAIN turns = 1 .. Len(turns)
      /\ Len(ps) \in Nat /\ DOMAIN ps = 1 .. Len(ps)
  BY SequenceLen
<1>2. n \in Nat
  BY <1>1
<1>3. \A i \in 1 .. n :
        c[i] = IF state = "GAME" THEN TurnMessage(turns[i]) ELSE Accepted(i, ps[i])
  BY <1>1 DEF CurrentOf
<1>4. c \in [1 .. n -> S]
  BY <1>1 DEF CurrentOf
<1> HIDE DEF c, n, S
<1>5. IsSequence(c) /\ Len(c) = n
  BY <1>2, <1>4, FunctionSequence
<1> QED BY <1>2, <1>3, <1>5 DEF c, n

\* The vectors are sequences.
LEMMA GameSequences ==
  ASSUME TypeOK
  PROVE  /\ IsSequence(game_turns) /\ IsSequence(players)
         /\ \A s \in Servers : IsSequence(server_queues[s])
BY SequenceOf DEF TypeOK

LEMMA InitTold == Init => NothingMissed
<1> SUFFICES ASSUME Init, NEW s \in Servers
             PROVE  Follows(<<>>, CurrentOf("LOBBY", <<>>, <<>>), MarksOf("LOBBY"))
  BY ToldIs DEF Init, Told
<1>1. IsSequence(<<>>) /\ Len(<<>>) = 0
  BY EmptySequence
<1>2. Len(CurrentOf("LOBBY", <<>>, <<>>)) = 0
  BY <1>1, CurrentType
<1>3. 0 \in 0 .. 0 /\ 1 .. 0 = {} /\ ~(0 < 0) /\ 0 <= 0
  OBVIOUS
<1> QED BY <1>1, <1>2, <1>3 DEF Follows

\* The lobby grows by one player, and every queue by the message about it.
LEMMA JoinTold ==
  ASSUME IInv, IInv', NothingMissed, game_state = "LOBBY", game_state' = "LOBBY",
         NEW player, players' = Append(players, player),
         Broadcast(<<Accepted(Len(players) + 1, player)>>)
  PROVE  NothingMissed'
<1> DEFINE m == Accepted(Len(players) + 1, player)
           c == CurrentOf("LOBBY", game_turns, players)
           d == CurrentOf("LOBBY", game_turns', players')
<1>1. /\ IsSequence(game_turns) /\ IsSequence(players)
      /\ \A s \in Servers : IsSequence(server_queues[s])
  BY GameSequences DEF IInv
<1>2. /\ IsSequence(players') /\ Len(players') = Len(players) + 1
      /\ \A i \in 1 .. Len(players) : players'[i] = players[i]
      /\ players'[Len(players) + 1] = player
  BY <1>1, AppendSequence
<1>3. /\ Len(c) = Len(players) /\ Len(players) \in Nat
      /\ \A i \in 1 .. Len(players) : c[i] = Accepted(i, players[i])
  BY <1>1, CurrentType
<1>4. IsSequence(game_turns')
  BY DEF IInv, TypeOK
<1>5. /\ Len(d) = Len(players')
      /\ \A i \in 1 .. Len(players') : d[i] = Accepted(i, players'[i])
  <2> DEFINE ps == players'
  <2>1. IsSequence(ps)
    BY <1>2
  <2> HIDE DEF ps
  <2>2. /\ Len(CurrentOf("LOBBY", game_turns', ps)) = Len(ps)
        /\ \A i \in 1 .. Len(ps) :
             CurrentOf("LOBBY", game_turns', ps)[i] = Accepted(i, ps[i])
    BY <1>4, <2>1, CurrentType
  <2> QED BY <2>2 DEF ps
<1> HIDE DEF c, d
<1>6. /\ Len(d) = Len(c) + 1 /\ Len(c) \in Nat
      /\ \A i \in 1 .. Len(c) : d[i] = c[i]
      /\ d[Len(c) + 1] = m
  BY <1>2, <1>3, <1>5
<1> HIDE DEF m
<1>7. ASSUME NEW s \in Servers
      PROVE  Follows(server_queues'[s], d, MarksOf("LOBBY"))
  <2>1. server_queues'[s] = server_queues[s] \o <<m>>
    BY DEF Broadcast, m
  <2>2. Follows(server_queues[s], c, MarksOf("LOBBY"))
    BY ToldIs DEF Told, c
  <2> QED BY <1>1, <1>6, <2>1, <2>2, FollowsNext
<1> QED BY <1>7, ToldIs DEF Told, d

\* GAME_STARTED and turn 0 are a fresh start.
LEMMA StartTold ==
  ASSUME IInv, IInv', game_state = "LOBBY", NEW ps, NEW accepted,
         start_game(ps, accepted)
  PROVE  NothingMissed'
<1>1. PICK positions \in [DOMAIN ps -> Cells], initial \in InitialBlockSets :
        /\ game_state' = "GAME"
        /\ game_turns' = Append(game_turns, Turn0(positions, initial))
        /\ Broadcast(<<accepted, GameStarted(ps),
                       TurnMessage(Turn0(positions, initial))>>)
  BY DEF start_game
<1> DEFINE t == Turn0(positions, initial)
           g == GameStarted(ps)
           r == <<accepted, g, TurnMessage(t)>>
           c == CurrentOf("GAME", game_turns', players')
<1>2. g.id = "SC_GAME_STARTED"
  BY DEF GameStarted
<1> HIDE DEF t, g
<1>3. game_turns' = Append(game_turns, t) /\ Broadcast(r)
  BY <1>1 DEF t, g
<1>4. game_turns = <<>> /\ Len(<<>>) = 0
  BY EmptySequence DEF IInv, TurnsNumbered
<1>5. /\ IsSequence(game_turns) /\ \A s \in Servers : IsSequence(server_queues[s])
  BY GameSequences DEF IInv
<1>6. IsSequence(game_turns') /\ IsSequence(players')
  BY SequenceOf DEF IInv, TypeOK
<1>7. Len(game_turns') = 1 /\ game_turns'[1] = t
  <2>1. Len(game_turns') = 0 + 1 /\ game_turns'[0 + 1] = t
    BY <1>3, <1>4, <1>5, AppendSequence
  <2> QED BY <2>1
<1>8. Len(c) = 1 /\ c[1] = TurnMessage(t)
  <2>1. /\ Len(c) = Len(game_turns')
        /\ \A i \in 1 .. Len(game_turns') : c[i] = TurnMessage(game_turns'[i])
    BY <1>6, CurrentType
  <2> QED BY <1>7, <2>1
<1>9. IsSequence(r) /\ Len(r) = 3 /\ r[2] = g /\ r[3] = TurnMessage(t)
  BY ShortSequences
<1> HIDE DEF c, r
<1>10. ASSUME NEW s \in Servers
       PROVE  Follows(server_queues'[s], c, MarksOf("GAME"))
  <2>1. server_queues'[s] = server_queues[s] \o r
    BY <1>3 DEF Broadcast
  <2>2. r[Len(r) - Len(c)].id \in MarksOf("GAME") /\ Len(c) < Len(r)
    BY <1>2, <1>8, <1>9 DEF MarksOf
  <2>3. \A j \in 1 .. Len(c) : r[Len(r) - Len(c) + j] = c[j]
    BY <1>8, <1>9
  <2>4. Len(c) \in Nat /\ IsSequence(server_queues[s])
    BY <1>5, <1>8
  <2>5. Follows(server_queues[s] \o r, c, MarksOf("GAME"))
    BY <1>9, <2>2, <2>3, <2>4, FollowsFresh
  <2> QED BY <2>1, <2>5
<1> QED BY <1>1, <1>10, ToldIs DEF Told, c

\* The game grows by one turn, and every queue by the message about it.
LEMMA RecordTold ==
  ASSUME IInv, IInv', NothingMissed, game_state = "GAME", game_state' = "GAME",
         NEW turn, game_turns' = Append(game_turns, turn),
         Broadcast(<<TurnMessage(turn)>>)
  PROVE  NothingMissed'
<1> DEFINE m == TurnMessage(turn)
           c == CurrentOf("GAME", game_turns, players)
           d == CurrentOf("GAME", game_turns', players')
<1>1. /\ IsSequence(game_turns) /\ IsSequence(players)
      /\ \A s \in Servers : IsSequence(server_queues[s])
  BY GameSequences DEF IInv
<1>2. IsSequence(players')
  BY SequenceOf DEF IInv, TypeOK
<1>3. /\ IsSequence(game_turns') /\ Len(game_turns') = Len(game_turns) + 1
      /\ \A i \in 1 .. Len(game_turns) : game_turns'[i] = game_turns[i]
      /\ game_turns'[Len(game_turns) + 1] = turn
  BY <1>1, AppendSequence
<1>4. /\ Len(c) = Len(game_turns) /\ Len(game_turns) \in Nat
      /\ \A i \in 1 .. Len(game_turns) : c[i] = TurnMessage(game_turns[i])
  BY <1>1, CurrentType
<1>5. /\ Len(d) = Len(game_turns')
      /\ \A i \in 1 .. Len(game_turns') : d[i] = TurnMessage(game_turns'[i])
  BY <1>2, <1>3, CurrentType
<1> HIDE DEF c, d
<1>6. /\ Len(d) = Len(c) + 1 /\ Len(c) \in Nat
      /\ \A i \in 1 .. Len(c) : d[i] = c[i]
      /\ d[Len(c) + 1] = m
  BY <1>3, <1>4, <1>5
<1> HIDE DEF m
<1>7. ASSUME NEW s \in Servers
      PROVE  Follows(server_queues'[s], d, MarksOf("GAME"))
  <2>1. server_queues'[s] = server_queues[s] \o <<m>>
    BY DEF Broadcast, m
  <2>2. Follows(server_queues[s], c, MarksOf("GAME"))
    BY ToldIs DEF Told, c
  <2> QED BY <1>1, <1>6, <2>1, <2>2, FollowsNext
<1> QED BY <1>7, ToldIs DEF Told, d

\* GAME_ENDED is a fresh start in an empty lobby.
LEMMA EndTold ==
  ASSUME IInv, NEW m, NEW ps, Broadcast(<<m, GameEnded(ps)>>), clear_game_state
  PROVE  NothingMissed'
<1> DEFINE e == GameEnded(ps)
           r == <<m, e>>
           c == CurrentOf("LOBBY", <<>>, <<>>)
<1>1. e.id = "SC_GAME_ENDED" /\ Broadcast(r)
  BY DEF GameEnded
<1> HIDE DEF e
<1>2. IsSequence(r) /\ Len(r) = 2 /\ r[2] = e
  BY ShortSequences
<1>3. Len(c) = 0
  BY EmptySequence, CurrentType
<1> HIDE DEF r, c
<1>4. ASSUME NEW s \in Servers
      PROVE  Follows(server_queues'[s], c, MarksOf("LOBBY"))
  <2>1. server_queues'[s] = server_queues[s] \o r /\ IsSequence(server_queues[s])
    BY <1>1 DEF Broadcast, IInv, TypeOK
  <2>2. r[Len(r) - Len(c)].id \in MarksOf("LOBBY") /\ Len(c) < Len(r)
    BY <1>1, <1>2, <1>3 DEF MarksOf
  <2>3. \A j \in 1 .. Len(c) : r[Len(r) - Len(c) + j] = c[j]
    BY <1>3
  <2>4. Len(c) \in Nat
    BY <1>3
  <2>5. Follows(server_queues[s] \o r, c, MarksOf("LOBBY"))
    BY <1>2, <2>1, <2>2, <2>3, <2>4, FollowsFresh
  <2> QED BY <2>1, <2>5
<1> QED BY <1>4, ToldIs DEF Told, c, clear_game_state

\* HELLO is a fresh start for the server that was reset.
LEMMA ResetTold ==
  ASSUME IInv, NothingMissed, NEW s \in Servers, reset_server(s)
  PROVE  NothingMissed'
<1> DEFINE c == CurrentOf(game_state, game_turns, players)
           w == <<Reset, Hello>>
           r == w \o c
<1>1. /\ IsSequence(game_turns) /\ IsSequence(players)
      /\ \A t \in Servers : IsSequence(server_queues[t])
  BY GameSequences DEF IInv
<1>2. IsSequence(c) /\ Len(c) \in Nat
  BY <1>1, CurrentType
<1>3. IsSequence(w) /\ Len(w) = 2 /\ w[2].id \in MarksOf(game_state)
  BY ShortSequences DEF Hello, MarksOf
<1>4. Welcome = r
  BY DEF Welcome, CurrentOf, IInv, TypeOK
<1> HIDE DEF c, w
<1>5. /\ IsSequence(r) /\ DOMAIN r = 1 .. 2 + Len(c)
      /\ \A i \in 1 .. 2 + Len(c) : r[i] = IF i <= 2 THEN w[i] ELSE c[i - 2]
  <2>1. /\ IsSequence(r) /\ DOMAIN r = 1 .. Len(w) + Len(c)
        /\ \A i \in 1 .. Len(w) + Len(c) :
             r[i] = IF i <= Len(w) THEN w[i] ELSE c[i - Len(w)]
    BY <1>2, <1>3, ConcatIndices
  <2> HIDE DEF r
  <2> QED BY <1>2, <1>3, <2>1
<1> HIDE DEF r
<1>6. Len(r) = 2 + Len(c)
  BY <1>2, <1>5, SequenceLen
<1>7. /\ Len(r) - Len(c) = 2 /\ Len(c) < Len(r)
      /\ r[2] = w[2]
      /\ \A j \in 1 .. Len(c) : r[2 + j] = c[j]
  <2>1. \A j \in 1 .. Len(c) : 2 + j \in 1 .. 2 + Len(c) /\ ~(2 + j <= 2) /\ 2 + j - 2 = j
    BY <1>2
  <2> QED BY <1>2, <1>5, <1>6, <2>1
<1>8. ASSUME NEW t \in Servers
      PROVE  Follows(server_queues'[t], c, MarksOf(game_state))
  <2>1. CASE t = s
    <3>1. server_queues'[t] = server_queues[t] \o r
      BY <1>4, <2>1 DEF reset_server, IInv, TypeOK
    <3> QED BY <1>1, <1>2, <1>3, <1>5, <1>7, <3>1, FollowsFresh
  <2>2. CASE t # s
    <3>1. server_queues'[t] = server_queues[t]
      BY <2>2 DEF reset_server, IInv, TypeOK
    <3> QED BY <3>1, ToldIs DEF Told, c
  <2> QED BY <2>1, <2>2
<1>9. UNCHANGED <<game_state, game_turns, players>>
  BY DEF reset_server, gameVars
<1> QED BY <1>8, <1>9, ToldIs DEF Told, c

LEMMA PopTold ==
  ASSUME IInv, NothingMissed, NEW s \in Servers, ServerPop(s)
  PROVE  NothingMissed'
<1> DEFINE c == CurrentOf(game_state, game_turns, players)
<1>1. /\ IsSequence(game_turns) /\ IsSequence(players)
      /\ \A t \in Servers : IsSequence(server_queues[t])
  BY GameSequences DEF IInv
<1>2. Len(c) \in Nat
  BY <1>1, CurrentType
<1> HIDE DEF c
<1>3. ASSUME NEW t \in Servers
      PROVE  Follows(server_queues'[t], c, MarksOf(game_state))
  <2>1. Follows(server_queues[t], c, MarksOf(game_state))
    BY ToldIs DEF Told, c
  <2>2. /\ server_queues[s] # <<>>
        /\ server_queues'[t] =
             IF t = s THEN Tail(server_queues[t]) ELSE server_queues[t]
    BY DEF ServerPop, IInv, TypeOK
  <2> QED BY <1>1, <1>2, <2>1, <2>2, FollowsTail
<1>4. UNCHANGED <<game_state, game_turns, players>>
  BY DEF ServerPop, gameVars
<1> QED BY <1>3, <1>4, ToldIs DEF Told, c

\* During a game the players are not among the current messages.
LEMMA ActionTold ==
  ASSUME NothingMissed, NEW s \in Servers, NEW action, handle_action(s, action)
  PROVE  NothingMissed'
<1>1. game_state = "GAME" /\ UNCHANGED <<game_state, game_turns, server_queues>>
  BY DEF handle_action, is_playing, gameVars
<1>2. CurrentOf(game_state', game_turns', players')
        = CurrentOf(game_state, game_turns, players)
  BY <1>1 DEF CurrentOf
<1> QED BY <1>1, <1>2, ToldIs DEF Told

LEMMA TurnTold ==
  ASSUME IInv, IInv', NothingMissed, make_turn
  PROVE  NothingMissed'
<1>1. game_state = "GAME"
  BY DEF make_turn, IInv, NoTurnInLobby
<1>2. \/ /\ game_state' = game_state
         /\ \E turn : /\ game_turns' = Append(game_turns, turn)
                      /\ Broadcast(<<TurnMessage(turn)>>)
      \/ clear_game_state /\ \E m, ps : Broadcast(<<m, GameEnded(ps)>>)
  BY DEF make_turn
<1> QED BY <1>1, <1>2, RecordTold, EndTold

LEMMA NextTold == IInv /\ IInv' /\ NothingMissed /\ [Next]_vars => NothingMissed'
<1> SUFFICES ASSUME IInv, IInv', NothingMissed, [Next]_vars PROVE NothingMissed'
  OBVIOUS
<1>1. ASSUME NEW s \in Servers, Join(s) PROVE NothingMissed'
  <2>1. PICK name \in Names : handle_join(s, name)
    BY <1>1 DEF Join
  <2>2. IsSequence(players) /\ Len(Joined(name)) = Len(players) + 1
    BY GameSequences, AppendSequence DEF IInv, Joined
  <2>3. /\ game_state = "LOBBY"
        /\ \/ \E ps, accepted : start_game(ps, accepted)
           \/ /\ players' = Append(players, NewPlayer(name))
              /\ Broadcast(<<Accepted(Len(players) + 1, NewPlayer(name))>>)
              /\ game_state' = game_state
    BY <2>1, <2>2 DEF handle_join, may_join, Joined
  <2> QED BY <2>3, StartTold, JoinTold
<1>2. ASSUME NEW s \in Servers, Act(s) PROVE NothingMissed'
  BY <1>2, ActionTold DEF Act
<1>3. ASSUME NEW s \in Servers, ResetServer(s) PROVE NothingMissed'
  BY <1>3, ResetTold DEF ResetServer
<1>4. ASSUME NEW s \in Servers, ServerPop(s) PROVE NothingMissed'
  BY <1>4, PopTold
<1>5. CASE ClockCheck \/ SpuriousWakeup \/ UNCHANGED vars
  <2>1. UNCHANGED <<server_queues, game_state, game_turns, players>>
    BY <1>5 DEF ClockCheck, SpuriousWakeup, vars, gameVars
  <2> QED BY <2>1, ToldIs
<1>6. CASE make_turn
  BY <1>6, TurnTold
<1> QED BY <1>1, <1>2, <1>3, <1>4, <1>5, <1>6 DEF Next

\* Every server is told of each player and each turn, in their order and once,
\* from the message that last gave its client a fresh start.
THEOREM NobodyMisses == Spec => []NothingMissed
BY InitTold, NextTold, Invariance, PTL DEF Spec

-----------------------------------------------------------------------------
(* Folding turns: what Replayed computes, by induction on the turns *)

\* The largest number of a set that ends with it.
LEMMA MaxIsLast ==
  ASSUME NEW n \in Nat, NEW S \in SUBSET (1 .. n + 1), n + 1 \in S
  PROVE  Max(S) = n + 1
<1>1. n + 1 \in S /\ \A y \in S : n + 1 >= y
  OBVIOUS
<1>2. \A x \in S : (\A y \in S : x >= y) => x = n + 1
  OBVIOUS
<1> QED BY <1>1, <1>2 DEF Max

\* The view after all of the turns.
Followed(v, turns) == FoldLeft(handle_turn, v, turns)

\* What FoldLeft looks up in: the views after some of the turns.
TurnsFold(g, v, turns, n) ==
  g = [s \in SUBSET (1 .. n) |->
         IF s = {} THEN v ELSE handle_turn(g[s \ {Max(s)}], turns[Max(s)])]

LEMMA TurnsFoldExists ==
  ASSUME NEW v, NEW turns
  PROVE  \A n \in Nat : \E g : TurnsFold(g, v, turns, n)
<1> DEFINE S == {n \in Nat : \E g : TurnsFold(g, v, turns, n)}
<1>1. 0 \in S
  <2> DEFINE g == [s \in SUBSET (1 .. 0) |-> v]
  <2>1. TurnsFold(g, v, turns, 0)
    BY DEF TurnsFold
  <2> QED BY <2>1
<1>2. ASSUME NEW n \in Nat, n \in S PROVE n + 1 \in S
  <2>1. PICK g : TurnsFold(g, v, turns, n)
    BY <1>2
  <2> DEFINE f == [s \in SUBSET (1 .. n + 1) |->
                     IF n + 1 \in s THEN handle_turn(g[s \ {n + 1}], turns[n + 1]) ELSE g[s]]
             F(s) == IF s = {} THEN v ELSE handle_turn(f[s \ {Max(s)}], turns[Max(s)])
  <2>2. \A s \in SUBSET (1 .. n + 1) : n + 1 \notin s => s \in SUBSET (1 .. n)
    OBVIOUS
  <2>3. \A s \in SUBSET (1 .. n + 1) : n + 1 \notin s => f[s] = g[s]
    OBVIOUS
  <2>4. ASSUME NEW s \in SUBSET (1 .. n + 1) PROVE f[s] = F(s)
    <3>1. CASE n + 1 \in s
      <4>1. Max(s) = n + 1
        BY <3>1, MaxIsLast
      <4>2. f[s \ {n + 1}] = g[s \ {n + 1}]
        BY <2>3
      <4>3. f[s] = handle_turn(g[s \ {n + 1}], turns[n + 1])
        BY <3>1
      <4> HIDE DEF f
      <4> QED BY <3>1, <4>1, <4>2, <4>3
    <3>2. CASE n + 1 \notin s
      <4>1. s \in SUBSET (1 .. n) /\ f[s] = g[s]
        BY <2>2, <2>3, <3>2
      <4>2. f[s \ {Max(s)}] = g[s \ {Max(s)}]
        BY <2>3, <3>2
      <4>3. g[s] = IF s = {} THEN v ELSE handle_turn(g[s \ {Max(s)}], turns[Max(s)])
        BY <2>1, <4>1 DEF TurnsFold
      <4> HIDE DEF f
      <4> QED BY <4>1, <4>2, <4>3
    <3> QED BY <3>1, <3>2
  <2>5. f = [s \in SUBSET (1 .. n + 1) |-> F(s)]
    <3>1. f = [s \in SUBSET (1 .. n + 1) |-> f[s]]
      OBVIOUS
    <3> HIDE DEF f
    <3> QED BY <2>4, <3>1
  <2>6. TurnsFold(f, v, turns, n + 1)
    <3> HIDE DEF f
    <3> QED BY <2>5 DEF TurnsFold
  <2> HIDE DEF f
  <2> QED BY <2>6
<1> HIDE DEF S
<1>3. Nat \subseteq S
  BY <1>1, <1>2, SetInduction
<1> QED BY <1>3 DEF S

\* FoldLeft is the last view of any chain of views that starts with v and
\* handles the turns one by one.
LEMMA TurnsFolded ==
  ASSUME NEW v, NEW turns, NEW n \in Nat, DOMAIN turns = 1 .. n, NEW h, h[0] = v,
         \A k \in 1 .. n : h[k] = handle_turn(h[k - 1], turns[k])
  PROVE  Followed(v, turns) = h[n]
<1> DEFINE g == CHOOSE g : TurnsFold(g, v, turns, n)
<1>1. TurnsFold(g, v, turns, n)
  BY TurnsFoldExists
<1>2. Followed(v, turns) = g[1 .. n]
  BY DEF Followed, FoldLeft, MapThenFoldSet, TurnsFold
<1> HIDE DEF g
<1> DEFINE S == {k \in Nat : k <= n => g[1 .. k] = h[k]}
<1>3. \A s \in SUBSET (1 .. n) :
        g[s] = IF s = {} THEN v ELSE handle_turn(g[s \ {Max(s)}], turns[Max(s)])
  BY <1>1 DEF TurnsFold
<1>4. 0 \in S
  <2>1. 1 .. 0 = {}
    OBVIOUS
  <2> QED BY <1>3, <2>1
<1>5. ASSUME NEW k \in Nat, k <= n => g[1 .. k] = h[k], k + 1 <= n
      PROVE  g[1 .. k + 1] = h[k + 1]
  <2>1. k <= n /\ k + 1 \in 1 .. n /\ k + 1 - 1 = k
    BY <1>5
  <2>5. (1 .. k + 1) \ {k + 1} = 1 .. k
    OBVIOUS
  <2>6. 1 .. k + 1 \in SUBSET (1 .. n) /\ 1 .. k + 1 # {}
    <3>1. \A x \in 1 .. k + 1 : x \in 1 .. n
      BY <1>5
    <3>2. 1 \in 1 .. k + 1
      OBVIOUS
    <3> QED BY <3>1, <3>2
  <2>2. Max(1 .. k + 1) = k + 1
    BY MaxIsLast
  <2>3. g[1 .. k] = h[k]
    BY <1>5, <2>1
  <2>4. g[1 .. k + 1] = handle_turn(g[1 .. k], turns[k + 1])
    BY <1>3, <2>2, <2>5, <2>6
  <2> QED BY <2>1, <2>3, <2>4
<1>6. \A k \in Nat : k \in S => k + 1 \in S
  BY <1>5
<1> HIDE DEF S
<1>7. n \in S
  BY <1>4, <1>6, SetInduction
<1> QED BY <1>2, <1>7 DEF S

LEMMA TurnFolds ==
  ASSUME NEW v, NEW turns, IsSequence(turns), NEW t
  PROVE  /\ Followed(v, <<>>) = v
         /\ Followed(v, Append(turns, t)) = handle_turn(Followed(v, turns), t)
<1> DEFINE n == Len(turns)
           more == Append(turns, t)
<1>1. /\ n \in Nat /\ DOMAIN turns = 1 .. n /\ n + 1 \in Nat
      /\ DOMAIN more = 1 .. n + 1 /\ more[n + 1] = t
      /\ \A k \in 1 .. n : more[k] = turns[k]
  <2>1. IsSequence(more) /\ Len(more) = n + 1
    BY AppendSequence
  <2> HIDE DEF n, more
  <2> QED BY <2>1, AppendSequence, SequenceLen DEF n, more
<1> HIDE DEF n, more
<1>2. Followed(v, <<>>) = v
  <2> DEFINE h == [k \in {0} |-> v]
  <2>1. DOMAIN <<>> = 1 .. 0 /\ h[0] = v
        /\ \A k \in 1 .. 0 : h[k] = handle_turn(h[k - 1], <<>>[k])
    OBVIOUS
  <2> HIDE DEF h
  <2> QED BY <2>1, TurnsFolded
<1>3. PICK g : TurnsFold(g, v, more, n + 1)
  BY <1>1, TurnsFoldExists
<1> DEFINE h == [k \in 0 .. n + 1 |-> g[1 .. k]]
<1>4. ASSUME NEW k \in 0 .. n + 1
      PROVE  /\ k = 0 => h[k] = v
             /\ k # 0 => h[k] = handle_turn(h[k - 1], more[k])
  <2>1. h[k] = IF 1 .. k = {} THEN v
               ELSE handle_turn(g[(1 .. k) \ {Max(1 .. k)}], more[Max(1 .. k)])
    <3>1. 1 .. k \in SUBSET (1 .. n + 1)
      <4>1. \A x \in 1 .. k : x \in 1 .. n + 1
        BY <1>1
      <4> QED BY <4>1
    <3> QED BY <1>3, <3>1 DEF TurnsFold
  <2>2. CASE k = 0
    BY <2>1, <2>2
  <2>3. CASE k # 0
    <3>1. k - 1 \in Nat /\ k - 1 \in 0 .. n + 1 /\ k = k - 1 + 1 /\ 1 \in 1 .. k
      BY <1>1, <2>3
    <3>2. Max(1 .. k) = k
      <4> DEFINE j == k - 1
      <4>1. j \in Nat /\ j + 1 = k
        BY <3>1
      <4> HIDE DEF j
      <4>2. Max(1 .. j + 1) = j + 1
        BY <4>1, MaxIsLast
      <4> QED BY <4>1, <4>2
    <3>3. (1 .. k) \ {k} = 1 .. k - 1
      BY <3>1
    <3>4. h[k - 1] = g[1 .. k - 1]
      BY <3>1
    <3> HIDE DEF h
    <3> QED BY <2>1, <2>3, <3>1, <3>2, <3>3, <3>4
  <2> QED BY <2>2, <2>3
<1>5. h[0] = v /\ \A k \in 1 .. n + 1 : h[k] = handle_turn(h[k - 1], more[k])
  <2> HIDE DEF h
  <2>1. 0 \in 0 .. n + 1 /\ \A k \in 1 .. n + 1 : k \in 0 .. n + 1 /\ k # 0
    BY <1>1
  <2> QED BY <1>4, <2>1
<1> HIDE DEF h
<1>6. Followed(v, more) = h[n + 1]
  BY <1>1, <1>5, TurnsFolded
<1>7. Followed(v, turns) = h[n]
  <2>1. \A k \in 1 .. n : h[k] = handle_turn(h[k - 1], turns[k])
    BY <1>1, <1>5
  <2> QED BY <1>1, <1>5, <2>1, TurnsFolded
<1>8. h[n + 1] = handle_turn(h[n], t)
  <2>1. n + 1 \in 1 .. n + 1 /\ n + 1 - 1 = n
    BY <1>1
  <2> QED BY <1>1, <1>5, <2>1
<1> QED BY <1>2, <1>6, <1>7, <1>8 DEF more

-----------------------------------------------------------------------------
(* What a view shows after the first turn of a game, and after any other *)

LEMMA StartAgrees ==
  ASSUME NEW n \in Nat, NEW gamers, DOMAIN gamers = 1 .. n,
         NEW positions \in [1 .. n -> Cells], NEW initial
  PROVE  LET v == handle_turn(set_gamers(NewView, gamers), Turn0(positions, initial))
         IN /\ v.players = gamers
            /\ v.player_positions = positions
            /\ v.blocks = initial
            /\ v.bombs = <<>>
            /\ v.scores = [i \in 1 .. n |-> 0]
<1> DEFINE u == set_gamers(NewView, gamers)
           t == Turn0(positions, initial)
           v == handle_turn(u, t)
<1>1. /\ u.players = gamers /\ u.player_positions = <<>> /\ u.blocks = {}
      /\ u.bombs = <<>> /\ u.scores = [i \in 1 .. n |-> 0]
  BY DEF set_gamers, NewView
<1>2. DOMAIN <<>> = {}
  OBVIOUS
<1>3. /\ t.exploded = <<>> /\ t.moved = positions /\ t.bombs_placed = <<>>
      /\ t.blocks_placed = initial /\ Robots(t) = {}
  BY <1>2 DEF Turn0, Robots
<1> HIDE DEF u, t
<1>4. v.players = gamers
  BY <1>1 DEF handle_turn
<1>5. v.player_positions = positions
  BY <1>1, <1>2, <1>3 DEF handle_turn
<1>6. v.blocks = initial
  BY <1>1, <1>2, <1>3 DEF handle_turn
<1>7. v.bombs = <<>>
  <2>1. v.bombs = [b \in {} |-> Tick(u.bombs[b])]
    BY <1>1, <1>2, <1>3 DEF handle_turn
  <2> QED BY <1>2, <2>1
<1>8. v.scores = [i \in 1 .. n |-> 0]
  BY <1>1, <1>3 DEF handle_turn
<1> QED BY <1>4, <1>5, <1>6, <1>7, <1>8 DEF u, t

\* The game start_game sets up for the players who have joined.
LEMMA GameStarts ==
  ASSUME IInv, NEW s \in Servers, NEW name \in Names, Seated(s, name),
         start_game(Joined(name), Welcomed(name))
  PROVE  \E positions \in [DOMAIN players' -> Cells], initial \in InitialBlockSets :
           /\ DOMAIN players' = DOMAIN Joined(name)
           /\ DOMAIN players' = 1 .. Len(players') /\ Len(players') \in Nat
           /\ \A i \in DOMAIN players' : /\ players'[i].position = positions[i]
                                         /\ players'[i].score = 0
                                         /\ players'[i].name = Joined(name)[i].name
           /\ blocks' = initial /\ bombs' = <<>>
           /\ game_state' = "GAME"
           /\ game_turns = <<>> /\ game_turns' = Append(<<>>, Turn0(positions, initial))
           /\ Broadcast(<<Welcomed(name), GameStarted(Joined(name)),
                          TurnMessage(Turn0(positions, initial))>>)
<1> DEFINE ps == Joined(name)
<1>1. /\ ps \in Seq(PlayerType) /\ Len(ps) \in Nat /\ DOMAIN ps = 1 .. Len(ps)
      /\ \A i \in DOMAIN ps : ps[i] \in PlayerType
      /\ \A i \in DOMAIN ps : ps[i].score = 0
  BY JoinedPlayers, ElementOfSeq, GameMasterAssumption
<1>2. PICK positions \in [DOMAIN ps -> Cells], initial \in InitialBlockSets :
        /\ players' = [i \in DOMAIN ps |-> [ps[i] EXCEPT !.position = positions[i]]]
        /\ blocks' = blocks \cup initial
        /\ game_state' = "GAME"
        /\ game_turns' = Append(game_turns, Turn0(positions, initial))
        /\ Broadcast(<<Welcomed(name), GameStarted(ps), TurnMessage(Turn0(positions, initial))>>)
        /\ UNCHANGED <<bombs, bomb_count>>
  BY DEF start_game
<1>3. game_turns = <<>> /\ blocks = {} /\ bombs = <<>>
  BY DEF Seated, may_join, IInv, TurnsNumbered, GameIsFull
<1>4. \A i \in DOMAIN ps :
        LET p == [ps[i] EXCEPT !.position = positions[i]]
        IN p.position = positions[i] /\ p.score = 0 /\ p.name = ps[i].name /\ p \in PlayerType
  BY <1>1, <1>2 DEF PlayerType
<1> HIDE DEF ps
<1>5. DOMAIN players' = DOMAIN ps /\ players' \in [1 .. Len(ps) -> PlayerType]
  BY <1>1, <1>2, <1>4
<1>6. Len(players') \in Nat /\ DOMAIN players' = 1 .. Len(players')
  BY <1>1, <1>5, FunctionSequence
<1>7. \A i \in DOMAIN players' : /\ players'[i].position = positions[i]
                                 /\ players'[i].score = 0
                                 /\ players'[i].name = ps[i].name
  BY <1>2, <1>4, <1>5
<1>8. blocks' = initial /\ bombs' = <<>>
  BY <1>2, <1>3
<1>9. positions \in [DOMAIN players' -> Cells]
  BY <1>2, <1>5
<1> QED BY <1>2, <1>3, <1>5, <1>6, <1>7, <1>8, <1>9 DEF ps

\* A view that agrees with the game agrees with it after the turn, as far as the
\* turn that ends the game, and the players keep their names.
LEMMA TurnFollowed ==
  ASSUME IInv, clock = "sleeping", NEW respawn \in [DestroyedRobots(World) -> Cells],
         NEW v, Agree(v, World, Len(players))
  PROVE  /\ Agree(handle_turn(v, TurnEvents(World, respawn, current_turn)),
                  Played(World, respawn), Len(players))
         /\ \A i \in DOMAIN players : Played(World, respawn).players[i].name = players[i].name
         /\ DOMAIN Played(World, respawn).players = DOMAIN players
<1> DEFINE n == Len(players)
           after == Played(World, respawn)
<1>1. n \in Nat /\ DOMAIN players = 1 .. n /\ \A i \in 1 .. n : players[i] \in PlayerType
  BY LenProperties, ElementOfSeq DEF IInv, TypeOK
<1>2. WorldOK(World, n) /\ World.players = players
  BY WorldInGame DEF IInv, NoTurnInLobby
<1>3. \A i \in 1 .. n : /\ World.players[i].score \in Nat
                        /\ {"position", "score"} \subseteq DOMAIN World.players[i]
  BY <1>1, <1>2 DEF PlayerType
<1>4. Agree(handle_turn(v, TurnEvents(World, respawn, current_turn)), after, n)
  BY <1>2, <1>3, TurnAgrees
<1>5. ASSUME NEW i \in DOMAIN players PROVE after.players[i].name = players[i].name
  <2>1. PICK pos \in Cells, point \in {0, 1} :
          PlayedPlayer(World, respawn, i) =
            PlayerAfter(World.players[i], pos, World.players[i].score + point)
    BY <1>1, <1>2, <1>3, PlayedPlayerType
  <2>2. after.players[i] = PlayedPlayer(World, respawn, i)
    BY <1>1, <1>2, PlayedWorld
  <2> DEFINE p == players[i]
             points == players[i].score + point
  <2>3. PlayedPlayer(World, respawn, i) = PlayerAfter(p, pos, points)
    BY <1>2, <2>1
  <2>4. p \in PlayerType
    BY <1>1
  <2> HIDE DEF p, points
  <2>5. PlayerAfter(p, pos, points).name = p.name
    BY <2>4 DEF PlayerAfter, PlayerType
  <2> QED BY <2>2, <2>3, <2>5 DEF p
<1>6. DOMAIN after.players = DOMAIN players
  BY <1>1, <1>2, PlayedWorld
<1> QED BY <1>4, <1>5, <1>6

-----------------------------------------------------------------------------
(* The history of a game rebuilds it *)

FirstView(ps) == set_gamers(NewView, GameStarted(ps).players)

\* HistoryReplays, with the fold named.
HistoryInv ==
  game_state = "GAME" =>
    Agree(Followed(FirstView(players), game_turns), World, Len(players))

LEMMA FirstViewNames ==
  ASSUME NEW ps, NEW qs, DOMAIN ps = DOMAIN qs, \A i \in DOMAIN ps : ps[i].name = qs[i].name
  PROVE  FirstView(ps) = FirstView(qs)
<1>1. [i \in DOMAIN ps |-> ps[i].name] = [i \in DOMAIN qs |-> qs[i].name]
  OBVIOUS
<1> QED BY <1>1 DEF FirstView, GameStarted

\* What nobody but the clock changes of a game that is on.
LEMMA HistoryKept ==
  ASSUME HistoryInv, UNCHANGED <<game_state, game_turns, blocks, bombs>>,
         Len(players') = Len(players), DOMAIN players' = 1 .. Len(players),
         DOMAIN players = 1 .. Len(players),
         \A i \in DOMAIN players : /\ players'[i].name = players[i].name
                                   /\ players'[i].position = players[i].position
                                   /\ players'[i].score = players[i].score
  PROVE  HistoryInv'
<1>1. FirstView(players') = FirstView(players)
  BY FirstViewNames
<1> DEFINE v == Followed(FirstView(players), game_turns)
<1>2. (Followed(FirstView(players), game_turns))' = v
  BY <1>1
<1> SUFFICES ASSUME game_state = "GAME" PROVE Agree(v, World', Len(players))
  BY <1>2 DEF HistoryInv
<1>3. Agree(v, World, Len(players))
  BY DEF HistoryInv
<1> HIDE DEF v
<1>4. /\ World'.players = players' /\ World'.blocks = blocks /\ World'.bombs = bombs
      /\ World.players = players /\ World.blocks = blocks /\ World.bombs = bombs
  BY DEF World
<1>5. /\ [i \in 1 .. Len(players) |-> players'[i].position]
           = [i \in 1 .. Len(players) |-> players[i].position]
      /\ [i \in 1 .. Len(players) |-> players'[i].score]
           = [i \in 1 .. Len(players) |-> players[i].score]
  OBVIOUS
<1> QED BY <1>3, <1>4, <1>5 DEF Agree

LEMMA StartHistory ==
  ASSUME IInv, NEW s \in Servers, NEW name \in Names, Seated(s, name),
         start_game(Joined(name), Welcomed(name))
  PROVE  HistoryInv'
<1>1. PICK positions \in [DOMAIN players' -> Cells], initial \in InitialBlockSets :
        /\ DOMAIN players' = 1 .. Len(players') /\ Len(players') \in Nat
        /\ \A i \in DOMAIN players' : /\ players'[i].position = positions[i]
                                      /\ players'[i].score = 0
        /\ blocks' = initial /\ bombs' = <<>>
        /\ game_turns' = Append(<<>>, Turn0(positions, initial))
  BY GameStarts
<1> DEFINE n == Len(players')
           u == FirstView(players')
           v == handle_turn(u, Turn0(positions, initial))
           gamers == GameStarted(players').players
<1>2. DOMAIN gamers = 1 .. n /\ n \in Nat /\ positions \in [1 .. n -> Cells]
  BY <1>1 DEF GameStarted
<1>3. u = set_gamers(NewView, gamers)
  BY DEF FirstView
<1> HIDE DEF n, u, gamers
<1>4. Followed(u, game_turns') = v
  <2> DEFINE t == Turn0(positions, initial)
             none == <<>>
  <2>1. IsSequence(none)
    BY EmptySequence
  <2>2. Followed(u, none) = u
    BY <2>1, TurnFolds
  <2>3. game_turns' = Append(none, t)
    BY <1>1
  <2> HIDE DEF t, none
  <2>4. Followed(u, Append(none, t)) = handle_turn(Followed(u, none), t)
    BY <2>1, TurnFolds
  <2>5. Followed(u, game_turns') = handle_turn(u, t)
    BY <2>2, <2>3, <2>4
  <2> QED BY <2>5 DEF t
<1>5. /\ v.player_positions = positions /\ v.blocks = initial /\ v.bombs = <<>>
      /\ v.scores = [i \in 1 .. n |-> 0]
  BY <1>2, <1>3, StartAgrees
<1> HIDE DEF v
<1>6. World'.players = players' /\ World'.blocks = initial /\ World'.bombs = <<>>
  BY <1>1 DEF World
<1>7. /\ positions = [i \in 1 .. n |-> players'[i].position]
      /\ [i \in 1 .. n |-> 0] = [i \in 1 .. n |-> players'[i].score]
  <2>1. 1 .. n = DOMAIN players'
    BY <1>1 DEF n
  <2> QED BY <1>1, <1>2, <2>1
<1>8. Agree(v, World', n)
  BY <1>5, <1>6, <1>7 DEF Agree
<1> QED BY <1>4, <1>8 DEF HistoryInv, u, n

LEMMA TurnHistory ==
  ASSUME IInv, HistoryInv, make_turn
  PROVE  HistoryInv'
<1>1. clock = "sleeping" /\ game_state = "GAME"
  BY DEF make_turn, IInv, NoTurnInLobby
<1>2. PICK respawn \in [DestroyedRobots(World) -> Cells] :
        \/ /\ players' = Played(World, respawn).players
           /\ blocks' = Played(World, respawn).blocks
           /\ bombs' = Played(World, respawn).bombs
           /\ game_turns' = Append(game_turns, TurnEvents(World, respawn, current_turn))
        \/ clear_game_state
  BY DEF make_turn
<1>3. CASE clear_game_state
  BY <1>3 DEF clear_game_state, HistoryInv
<1> DEFINE after == Played(World, respawn)
           t == TurnEvents(World, respawn, current_turn)
           n == Len(players)
           u == FirstView(players)
           v == Followed(u, game_turns)
<1>4. CASE /\ players' = after.players /\ blocks' = after.blocks /\ bombs' = after.bombs
           /\ game_turns' = Append(game_turns, t)
  <2>1. Agree(v, World, n)
    BY <1>1 DEF HistoryInv
  <2>2. /\ Agree(handle_turn(v, t), after, n)
        /\ \A i \in DOMAIN players : after.players[i].name = players[i].name
        /\ DOMAIN after.players = DOMAIN players
    <3> HIDE DEF v
    <3> QED BY <1>1, <2>1, TurnFollowed
  <2>3. Len(after.players) = n
    BY <1>1, TurnPlayed
  <2>4. FirstView(players') = u
    BY <1>4, <2>2, FirstViewNames
  <2>5. Followed(u, game_turns') = handle_turn(v, t)
    <3>1. IsSequence(game_turns)
      BY DEF IInv, TypeOK
    <3> HIDE DEF u, t
    <3> QED BY <1>4, <3>1, TurnFolds
  <2>6. World'.players = after.players /\ World'.blocks = after.blocks
        /\ World'.bombs = after.bombs /\ Len(players') = n
    BY <1>4, <2>3 DEF World
  <2> HIDE DEF u, v, t, after, n
  <2>7. Agree(handle_turn(v, t), World', n)
    BY <2>2, <2>6 DEF Agree
  <2>8. (Followed(FirstView(players), game_turns))' = handle_turn(v, t)
    BY <2>4, <2>5
  <2>9. (Agree(Followed(FirstView(players), game_turns), World, Len(players)))'
    BY <2>6, <2>7, <2>8
  <2> QED BY <2>9 DEF HistoryInv
<1> QED BY <1>2, <1>3, <1>4

LEMMA ActionHistory ==
  ASSUME IInv, HistoryInv, NEW s \in Servers, NEW action \in Action, handle_action(s, action)
  PROVE  HistoryInv'
<1> DEFINE seat == playing_servers[s]
           p == [players[seat] EXCEPT !.action = action]
<1>1. /\ players' = [players EXCEPT ![seat] = p]
      /\ UNCHANGED <<game_state, game_turns, blocks, bombs>>
      /\ seat \in DOMAIN players
  BY DEF handle_action, is_playing, gameVars, IInv, SeatsDistinct
<1>2. /\ DOMAIN players = 1 .. Len(players) /\ Len(players) \in Nat
      /\ players[seat] \in PlayerType
  BY <1>1, LenProperties, ElementOfSeq DEF IInv, TypeOK
<1>3. /\ p.name = players[seat].name /\ p.position = players[seat].position
      /\ p.score = players[seat].score /\ p \in PlayerType
  BY <1>2 DEF PlayerType
<1>4. \A i \in DOMAIN players : players[i] \in PlayerType
  BY <1>2, ElementOfSeq DEF IInv, TypeOK
<1> HIDE DEF seat, p
<1>5. players' \in [1 .. Len(players) -> PlayerType] /\ DOMAIN players' = 1 .. Len(players)
  BY <1>1, <1>2, <1>3, <1>4
<1>6. Len(players') = Len(players)
  BY <1>2, <1>5, FunctionSequence
<1>7. \A i \in DOMAIN players : /\ players'[i].name = players[i].name
                                /\ players'[i].position = players[i].position
                                /\ players'[i].score = players[i].score
  BY <1>1, <1>3
<1> QED BY <1>1, <1>2, <1>5, <1>6, <1>7, HistoryKept

LEMMA NextHistory == IInv /\ HistoryInv /\ [Next]_vars => HistoryInv'
<1> SUFFICES ASSUME IInv, HistoryInv, [Next]_vars PROVE HistoryInv'
  OBVIOUS
<1>1. ASSUME NEW s \in Servers, Join(s) PROVE HistoryInv'
  <2>1. PICK name \in Names : handle_join(s, name)
    BY <1>1 DEF Join
  <2>2. /\ Seated(s, name)
        /\ \/ start_game(Joined(name), Welcomed(name))
           \/ game_state = "LOBBY" /\ UNCHANGED game_state
    BY <2>1 DEF handle_join, Seated, may_join, Joined, Welcomed
  <2> QED BY <2>2, StartHistory DEF HistoryInv
<1>2. ASSUME NEW s \in Servers, Act(s) PROVE HistoryInv'
  BY <1>2, ActionHistory, GameMasterAssumption DEF Act
<1>3. ASSUME UNCHANGED <<game_state, game_turns, blocks, bombs, players>> PROVE HistoryInv'
  <2>1. UNCHANGED <<Followed(FirstView(players), game_turns), Len(players)>>
    BY <1>3
  <2>2. World'.players = players /\ World'.blocks = blocks /\ World'.bombs = bombs
        /\ World.players = players /\ World.blocks = blocks /\ World.bombs = bombs
    BY <1>3 DEF World
  <2> DEFINE v == Followed(FirstView(players), game_turns)
  <2>3. v' = v /\ (game_state = "GAME" => Agree(v, World, Len(players)))
    BY <2>1 DEF HistoryInv
  <2> HIDE DEF v
  <2>4. game_state = "GAME" => Agree(v', World', Len(players'))
    BY <2>1, <2>2, <2>3 DEF Agree
  <2> QED BY <1>3, <2>4 DEF HistoryInv, v
<1>4. CASE \E s \in Servers : ResetServer(s) \/ ServerPop(s)
  BY <1>3, <1>4 DEF ResetServer, reset_server, ServerPop, gameVars
<1>5. CASE ClockCheck \/ SpuriousWakeup
  BY <1>3, <1>5 DEF ClockCheck, SpuriousWakeup, gameVars
<1>6. CASE make_turn
  BY <1>6, TurnHistory
<1>7. CASE UNCHANGED vars
  BY <1>3, <1>7 DEF vars
<1> QED BY <1>1, <1>2, <1>4, <1>5, <1>6, <1>7 DEF Next

\* A client fed with the recorded turns of a game would show the game as it is,
\* at every moment of every game of every length.
THEOREM HistoriesReplay == Spec => []HistoryReplays
<1>1. Init => HistoryInv
  BY DEF Init, HistoryInv
<1>2. IInv /\ HistoryInv => HistoryReplays
  <2> SUFFICES ASSUME IInv, HistoryInv, game_state = "GAME" PROVE HistoryReplays
    BY DEF HistoryReplays
  <2> DEFINE v == Followed(FirstView(players), game_turns)
  <2>1. Agree(v, World, Len(players))
    BY DEF HistoryInv
  <2>2. v = Replayed(game_turns)
    BY DEF Followed, FirstView, Replayed
  <2>3. DOMAIN players = 1 .. Len(players)
    BY LenProperties DEF IInv, TypeOK
  <2> HIDE DEF v
  <2> QED BY <2>1, <2>2, <2>3 DEF HistoryReplays, Agree, World
<1> QED BY <1>1, <1>2, NextHistory, Invariance, PTL DEF Spec

-----------------------------------------------------------------------------
(* Games go through their cycle *)

\* current_turn can exceed the number of the last turn. (A game length of 65535
\* is the one the code does not end.)
LengthFits == Cycle!LastTurn + 1 < TurnMod

\* No game has more turns than it should.
TurnsBounded == Len(game_turns) <= Cycle!LastTurn

CInv == IInv /\ TurnsBounded

LEMMA LastTurnType ==
  /\ Cycle!LastTurn \in Nat \ {0}
  /\ GameLength <= Cycle!LastTurn
  /\ GameLength \in Nat
BY GameMasterAssumption DEF Cycle!LastTurn

LEMMA MappedLen ==
  ASSUME NEW n \in Nat, NEW e(_)
  PROVE  Len([i \in 1 .. n |-> e(i)]) = n
<1> DEFINE f == [i \in 1 .. n |-> e(i)]
<1>1. f \in [1 .. n -> {e(i) : i \in 1 .. n}]
  OBVIOUS
<1> HIDE DEF f
<1>2. Len(f) = n
  BY <1>1, FunctionSequence
<1> QED BY <1>2 DEF f

\* What IInv says about lengths.
LEMMA Lengths ==
  ASSUME CInv
  PROVE  /\ Len(players) \in Nat /\ Len(game_turns) \in Nat
         /\ Len(game_turns) <= Cycle!LastTurn
         /\ game_state \in {"LOBBY", "GAME"}
         /\ game_state = "LOBBY" => Len(game_turns) = 0 /\ Len(players) < PlayersCount
         /\ game_state = "GAME" => Len(game_turns) > 0 /\ Len(players) = PlayersCount
         /\ current_turn = Len(game_turns) % TurnMod
<1>1. Len(game_turns) \in Nat /\ DOMAIN game_turns = 1 .. Len(game_turns)
  BY SequenceLen DEF CInv, IInv, TypeOK
<1>2. Len(players) \in Nat
  BY LenProperties DEF CInv, IInv, TypeOK
<1>3. game_turns # <<>> => Len(game_turns) > 0
  <2>1. game_turns \in Seq({game_turns[i] : i \in DOMAIN game_turns})
    BY DEF CInv, IInv, TypeOK, IsSequence
  <2> QED BY <1>1, <2>1, EmptySeq
<1>4. Len(<<>>) = 0
  BY EmptySequence
<1> QED BY <1>1, <1>2, <1>3, <1>4
        DEF CInv, IInv, TypeOK, TurnsBounded, GameIsFull, TurnsNumbered

\* A join takes a seat, and the last one starts a game.
LEMMA JoinSteps ==
  ASSUME CInv, NEW s \in Servers, NEW name \in Names, handle_join(s, name)
  PROVE  Cycle!CycleNext /\ TurnsBounded'
<1>1. /\ game_state = "LOBBY"
      /\ \/ /\ Len(Append(players, NewPlayer(name))) = PlayersCount
            /\ start_game(Append(players, NewPlayer(name)),
                          Accepted(Len(Append(players, NewPlayer(name))), NewPlayer(name)))
         \/ /\ Len(Append(players, NewPlayer(name))) # PlayersCount
            /\ players' = Append(players, NewPlayer(name))
            /\ UNCHANGED game_turns
  BY DEF handle_join, may_join, gameVars
<1>2. Len(game_turns) = 0 /\ Len(players) \in Nat /\ Len(players) < PlayersCount
  BY <1>1, Lengths
<1>3. IsSequence(players) /\ IsSequence(game_turns)
  BY SequenceOf DEF CInv, IInv, TypeOK
<1>4. Len(Append(players, NewPlayer(name))) = Len(players) + 1
  BY <1>3, AppendSequence
<1>5. Cycle!LastTurn \in Nat \ {0} /\ PlayersCount \in Nat
  BY LastTurnType, GameMasterAssumption
<1>6. CASE Len(Append(players, NewPlayer(name))) # PlayersCount
  BY <1>1, <1>2, <1>4, <1>5, <1>6
     DEF Cycle!CycleNext, Cycle!TakeSeat, Cycle!InGame, TurnsBounded
<1>7. CASE Len(Append(players, NewPlayer(name))) = PlayersCount
  <2> DEFINE ps == Append(players, NewPlayer(name))
  <2>1. PICK positions \in [DOMAIN ps -> Cells], initial \in InitialBlockSets :
          /\ players' = [i \in DOMAIN ps |-> [ps[i] EXCEPT !.position = positions[i]]]
          /\ game_turns' = Append(game_turns, Turn0(positions, initial))
    BY <1>1, <1>7 DEF start_game
  <2>2. IsSequence(ps)
    BY <1>3, AppendSequence
  <2>3. DOMAIN ps = 1 .. Len(ps) /\ Len(ps) \in Nat
    BY <2>2, SequenceLen
  <2>4. Len(players') = Len(ps)
    <3>1. Len([i \in 1 .. Len(ps) |-> [ps[i] EXCEPT !.position = positions[i]]]) = Len(ps)
      BY <2>3, MappedLen
    <3> QED BY <2>1, <2>3, <3>1
  <2>5. Len(game_turns') = 1
    BY <1>2, <1>3, <2>1, AppendSequence
  <2> HIDE DEF ps
  <2>6. Len(players') = PlayersCount
    BY <1>7, <2>4 DEF ps
  <2> QED BY <1>2, <1>4, <1>5, <1>7, <2>5, <2>6
          DEF Cycle!CycleNext, Cycle!StartGame, Cycle!InGame, TurnsBounded
<1> QED BY <1>6, <1>7

\* A turn is one of the game, or its last and the end of it.
LEMMA TurnSteps ==
  ASSUME CInv, LengthFits, make_turn
  PROVE  Cycle!CycleNext /\ TurnsBounded'
<1> DEFINE next == (current_turn + 1) % TurnMod
<1>1. game_state = "GAME"
  BY DEF make_turn, CInv, IInv, NoTurnInLobby
<1>2. /\ Len(game_turns) \in Nat /\ Len(game_turns) > 0
      /\ Len(game_turns) <= Cycle!LastTurn
      /\ current_turn = Len(game_turns) % TurnMod
  BY <1>1, Lengths
<1>3. /\ Cycle!LastTurn \in Nat \ {0} /\ GameLength <= Cycle!LastTurn
      /\ GameLength \in Nat
      /\ TurnMod \in Nat /\ Cycle!LastTurn + 1 < TurnMod
  BY LastTurnType, GameMasterAssumption DEF LengthFits
<1>4. next = Len(game_turns) + 1
  <2>1. current_turn = Len(game_turns)
    BY <1>2, <1>3
  <2> QED BY <1>2, <1>3, <2>1
<1>5. CASE /\ ~is_over(next)
           /\ Len(game_turns') = Len(game_turns) + 1
           /\ Len(players') = Len(players)
  <2>1. Len(game_turns) + 1 <= GameLength
    BY <1>2, <1>3, <1>4, <1>5 DEF is_over
  <2> HIDE DEF next
  <2> QED BY <1>2, <1>3, <1>5, <2>1
          DEF Cycle!CycleNext, Cycle!PlayTurn, Cycle!InGame, TurnsBounded
<1>6. CASE is_over(next) /\ clear_game_state
  <2>1. Len(game_turns') = 0 /\ Len(players') = 0
    BY <1>6, EmptySequence DEF clear_game_state
  <2>2. Len(game_turns) + 1 > GameLength
    BY <1>4, <1>6 DEF is_over
  <2> HIDE DEF next
  <2>3. Len(game_turns) = Cycle!LastTurn
    <3>1. Cycle!LastTurn = 1 \/ Cycle!LastTurn = GameLength
      BY DEF Cycle!LastTurn
    <3> QED BY <1>2, <1>3, <2>2, <3>1
  <2> QED BY <1>2, <1>3, <2>1, <2>3
          DEF Cycle!CycleNext, Cycle!EndGame, Cycle!InGame, TurnsBounded
<1>7. ASSUME NEW respawn \in [DestroyedRobots(World) -> Cells]
      PROVE  Len(Played(World, respawn).players) = Len(players)
  <2>1. clock = "sleeping"
    BY DEF make_turn
  <2> QED BY <2>1, TurnPlayed DEF CInv
<1>8. PICK respawn \in [DestroyedRobots(World) -> Cells] :
        \/ /\ ~is_over(next)
           /\ players' = Played(World, respawn).players
           /\ game_turns' = Append(game_turns, TurnEvents(World, respawn, current_turn))
        \/ is_over(next) /\ clear_game_state
  BY DEF make_turn
<1>9. \A turn : Len(Append(game_turns, turn)) = Len(game_turns) + 1
  BY AppendSequence DEF CInv, IInv, TypeOK
<1> HIDE DEF next
<1> QED BY <1>5, <1>6, <1>7, <1>8, <1>9

\* Every step of GameMaster is one of the cycle, or none.
LEMMA CycleStep ==
  ASSUME CInv, LengthFits, [Next]_vars
  PROVE  [Cycle!CycleNext]_(Cycle!cycleVars) /\ CInv'
<1>1. IInv'
  BY NextInv DEF CInv
<1> SUFFICES \/ Cycle!CycleNext /\ TurnsBounded'
             \/ UNCHANGED <<Len(players), Len(game_turns)>>
  BY <1>1 DEF CInv, TurnsBounded, Cycle!cycleVars, Cycle!LastTurn
<1>2. ASSUME NEW s \in Servers, Join(s) PROVE Cycle!CycleNext /\ TurnsBounded'
  BY <1>2, JoinSteps DEF Join
<1>3. ASSUME NEW s \in Servers, Act(s)
      PROVE  UNCHANGED <<Len(players), Len(game_turns)>>
  <2>1. PICK action \in Inputs : handle_action(s, action)
    BY <1>3 DEF Act
  <2>2. players \in Seq(PlayerType)
    BY DEF CInv, IInv, TypeOK
  <2>3. players' = [players EXCEPT ![playing_servers[s]].action = action]
        /\ game_turns' = game_turns
    BY <2>1 DEF handle_action, gameVars
  <2> DEFINE i == playing_servers[s]
             p == [players[i] EXCEPT !.action = action]
  <2>4. players' = [j \in DOMAIN players |-> IF j = i THEN p ELSE players[j]]
    BY <2>3
  <2>5. DOMAIN players = 1 .. Len(players) /\ Len(players) \in Nat
    BY <2>2, LenProperties
  <2> HIDE DEF i, p
  <2>6. Len([j \in 1 .. Len(players) |-> IF j = i THEN p ELSE players[j]]) = Len(players)
    BY <2>5, MappedLen
  <2> QED BY <2>3, <2>4, <2>5, <2>6
<1>4. ASSUME NEW s \in Servers, ResetServer(s) \/ ServerPop(s)
      PROVE  UNCHANGED <<Len(players), Len(game_turns)>>
  BY <1>4 DEF ResetServer, reset_server, ServerPop, gameVars
<1>5. CASE ClockCheck \/ SpuriousWakeup
  BY <1>5 DEF ClockCheck, SpuriousWakeup, gameVars
<1>6. CASE make_turn
  BY <1>6, TurnSteps
<1>7. CASE UNCHANGED vars
  BY <1>7 DEF vars
<1> QED BY <1>2, <1>3, <1>4, <1>5, <1>6, <1>7 DEF Next

\* Games go through the cycle of GameCycle, whatever joins, resets, wakeups and
\* late clients come in between: the last join starts a game with turn 0, turns
\* follow one by one, the last one ends it, and the seats are free again.
THEOREM GamesGoThroughCycle == ASSUME LengthFits PROVE Spec => IsGameCycle
<1>1. Init => Cycle!CycleInit /\ CInv
  <2>1. ASSUME Init PROVE IInv
    BY <2>1, InitInv
  <2>2. ASSUME Init PROVE Len(players) = 0 /\ Len(game_turns) = 0
    BY <2>2, EmptySequence DEF Init
  <2> QED BY <2>1, <2>2, LastTurnType DEF CInv, TurnsBounded, Cycle!CycleInit
<1>2. CInv /\ [Next]_vars => [Cycle!CycleNext]_(Cycle!cycleVars) /\ CInv'
  BY CycleStep
<1> QED BY <1>1, <1>2, PTL DEF Spec, IsGameCycle, Cycle!CycleSpec
=============================================================================
