---------------------------- MODULE ReplicaProofs ----------------------------
(***************************************************************************)
(* A client that handles every turn agrees with the server, on boards of   *)
(* every size, with any number of players, bombs and turns.                *)
(***************************************************************************)
EXTENDS Replica, TurnProofs

-----------------------------------------------------------------------------
(* The inductive invariant *)

\* Agreement needs TypeOK: a bomb or a robot off the board would be found
\* by neither side, and a vector of another length by only one of them.
IInv == TypeOK /\ Agreement

LEMMA WithActionsWorld ==
  ASSUME TypeOK, NEW acts \in [Ids -> Action \cup {None}]
  PROVE  LET w == WithActions(acts)
         IN /\ WorldOK(w, NumPlayers)
            /\ \A i \in Ids : w.players[i] \in PlayerType
            /\ \A i \in Ids : /\ w.players[i].position = world.players[i].position
                              /\ w.players[i].score = world.players[i].score
            /\ w.blocks = world.blocks
            /\ w.bombs = world.bombs
            /\ w.bomb_count = world.bomb_count
            /\ DOMAIN w.players = Ids
<1> DEFINE w == WithActions(acts)
           q == [i \in Ids |-> [world.players[i] EXCEPT !.action = acts[i]]]
<1>1. \A i \in Ids : world.players[i] \in PlayerType
  BY DEF TypeOK, WorldType
<1>2. \A i \in Ids : /\ [world.players[i] EXCEPT !.action = acts[i]] \in PlayerType
                     /\ [world.players[i] EXCEPT !.action = acts[i]].position = world.players[i].position
                     /\ [world.players[i] EXCEPT !.action = acts[i]].score = world.players[i].score
  BY <1>1 DEF PlayerType
<1>3. \A i \in Ids : /\ q[i] \in PlayerType
                     /\ q[i].position = world.players[i].position
                     /\ q[i].score = world.players[i].score
  BY <1>2
<1>4. DOMAIN q = Ids
  OBVIOUS
<1> HIDE DEF q
<1>5. w = [players |-> q, blocks |-> world.blocks, bombs |-> world.bombs,
           bomb_count |-> world.bomb_count]
  BY DEF TypeOK, WithActions, q
<1>6. \A i \in Ids : q[i].position \in Cells
  BY <1>3 DEF PlayerType
<1>7. WorldOK(w, NumPlayers)
  BY <1>4, <1>5, <1>6, ReplicaAssumption DEF WorldOK, Ids, TypeOK, WorldType
<1> QED BY <1>3, <1>4, <1>5, <1>7

LEMMA BoundedInputsType == BoundedInputs \cup {None} \subseteq Action \cup {None}
BY ReplicaAssumption DEF BoundedInputs

\* The world is that of WithActions, played.
LEMMA PlayTurnType ==
  ASSUME TypeOK, NEW acts \in [Ids -> Action \cup {None}], NEW respawn,
         PlayTurn(acts, respawn)
  PROVE  TypeOK'
<1> DEFINE w == WithActions(acts)
<1>1. /\ respawn \in [DestroyedRobots(w) -> Cells]
      /\ world' = Played(w, respawn)
  BY DEF PlayTurn
<1>2. /\ WorldOK(w, NumPlayers)
      /\ \A i \in Ids : w.players[i] \in PlayerType
      /\ DOMAIN w.players = Ids
  BY WithActionsWorld
<1> HIDE DEF w
<1>3. /\ DOMAIN world'.players = Ids
      /\ \A i \in Ids : world'.players[i] = PlayedPlayer(w, respawn, i)
      /\ world'.blocks \subseteq Cells
      /\ world'.bomb_count \in Nat
      /\ \A b \in DOMAIN world'.bombs :
           world'.bombs[b] \in [position : Cells, timer : 0 .. TimeMod - 1]
  BY <1>1, <1>2, PlayedWorld DEF Ids
<1>4. ASSUME NEW i \in Ids PROVE world'.players[i] \in PlayerType
  <2>1. \A j \in Ids : w.players[j].score \in Nat
    BY <1>2 DEF PlayerType
  <2>2. PICK pos \in Cells, point \in {0, 1} :
          PlayedPlayer(w, respawn, i) =
            PlayerAfter(w.players[i], pos, w.players[i].score + point)
    BY <1>1, <1>2, <2>1, PlayedPlayerType DEF Ids
  <2>3. w.players[i] \in PlayerType /\ w.players[i].score + point \in Nat
    BY <1>2, <2>1
  <2> QED BY <1>3, <2>2, <2>3 DEF PlayerAfter, PlayerType
<1>5. world' = [players |-> world'.players, blocks |-> world'.blocks,
                bombs |-> world'.bombs, bomb_count |-> world'.bomb_count]
  BY <1>1 DEF Played
<1>6. world'.players = [i \in Ids |-> world'.players[i]]
  BY <1>1, <1>2 DEF Played
<1>7. world'.players \in [Ids -> PlayerType]
  BY <1>4, <1>6
<1> QED BY <1>3, <1>5, <1>7 DEF TypeOK, WorldType

LEMMA InitInv == Init => IInv
<1> SUFFICES ASSUME NEW positions \in [Ids -> Cells], NEW blocks \in SUBSET Cells,
                    world = StartWorld(positions, blocks),
                    view = handle_turn(set_gamers(NewView, [i \in Ids |-> i]),
                                       StartEvents(positions, blocks))
             PROVE  IInv
  BY DEF Init
<1>1. /\ world.players = [i \in Ids |-> [position |-> positions[i], score |-> 0,
                                          action |-> None]]
      /\ world.blocks = blocks /\ world.bombs = <<>> /\ world.bomb_count = 0
      /\ world = [players |-> world.players, blocks |-> world.blocks,
                  bombs |-> world.bombs, bomb_count |-> world.bomb_count]
  BY DEF StartWorld
<1>2. DOMAIN <<>> = {}
  OBVIOUS
<1>3. TypeOK
  BY <1>1, <1>2 DEF TypeOK, WorldType, PlayerType
<1> DEFINE v == set_gamers(NewView, [i \in Ids |-> i])
           t == StartEvents(positions, blocks)
<1>4. /\ v.player_positions = <<>> /\ v.blocks = {} /\ v.bombs = <<>>
      /\ v.scores = [i \in Ids |-> 0]
  BY DEF set_gamers, NewView
<1>5. /\ t.exploded = <<>> /\ t.moved = positions /\ t.bombs_placed = <<>>
      /\ t.blocks_placed = blocks /\ Robots(t) = {}
  BY <1>2 DEF StartEvents, Robots
<1> HIDE DEF v, t
<1>6. view.player_positions = [i \in Ids |-> positions[i]]
  BY <1>2, <1>4, <1>5 DEF handle_turn, v, t
<1>7. view.blocks = blocks
  BY <1>2, <1>4, <1>5 DEF handle_turn, v, t
<1>8. view.bombs = <<>>
  <2>1. view.bombs = [b \in {} |-> Tick(v.bombs[b])]
    BY <1>2, <1>4, <1>5 DEF handle_turn, v, t
  <2> QED BY <2>1, <1>2
<1>9. view.scores = [i \in Ids |-> 0]
  BY <1>4, <1>5 DEF handle_turn, v, t
<1>10. Agreement
  BY <1>1, <1>6, <1>7, <1>8, <1>9 DEF Agreement
<1> QED BY <1>3, <1>10 DEF IInv

-----------------------------------------------------------------------------
(* Steps *)

LEMMA PlayTurnInv ==
  ASSUME IInv, NEW acts \in [Ids -> Action \cup {None}], NEW respawn,
         PlayTurn(acts, respawn)
  PROVE  IInv'
<1> DEFINE w == WithActions(acts)
<1>1. /\ respawn \in [DestroyedRobots(w) -> Cells]
      /\ world' = Played(w, respawn)
      /\ view' = handle_turn(view, TurnEvents(w, respawn, 0))
  BY DEF PlayTurn
<1>2. /\ WorldOK(w, NumPlayers)
      /\ \A i \in Ids : w.players[i] \in PlayerType
      /\ \A i \in Ids : /\ w.players[i].position = world.players[i].position
                        /\ w.players[i].score = world.players[i].score
      /\ w.blocks = world.blocks
      /\ w.bombs = world.bombs
  BY WithActionsWorld DEF IInv
<1> HIDE DEF w
<1>3. Agree(view, w, NumPlayers)
  BY <1>2 DEF Agree, IInv, Agreement, Ids
<1>4. Agree(view', world', NumPlayers)
  <2>1. \A i \in 1 .. NumPlayers : /\ w.players[i].score \in Nat
                                  /\ {"position", "score"} \subseteq DOMAIN w.players[i]
    BY <1>2 DEF PlayerType, Ids
  <2> QED BY <1>1, <1>2, <1>3, <2>1, TurnAgrees
<1>5. Agreement'
  BY <1>4 DEF Agree, Agreement, Ids
<1>6. TypeOK'
  BY PlayTurnType DEF IInv
<1> QED BY <1>5, <1>6 DEF IInv

\* Every step is a turn for some actions and respawn positions.
LEMMA NextIsTurn ==
  ASSUME Next
  PROVE  \E acts \in [Ids -> Action \cup {None}] :
           \E respawn \in [DestroyedRobots(world) -> Cells] : PlayTurn(acts, respawn)
<1>1. PICK acts \in [Ids -> BoundedInputs \cup {None}] :
        \E respawn \in [DestroyedRobots(world) -> Cells] : PlayTurn(acts, respawn)
  BY DEF Next
<1>2. acts \in [Ids -> Action \cup {None}]
  BY BoundedInputsType
<1> QED BY <1>1, <1>2

LEMMA NextInv == IInv /\ [Next]_vars => IInv'
<1>1. IInv /\ Next => IInv'
  BY NextIsTurn, PlayTurnInv
<1>2. IInv /\ UNCHANGED vars => IInv'
  BY DEF IInv, TypeOK, WorldType, Agreement, vars
<1> QED BY <1>1, <1>2

\* The explosions of the server's turn are those the client works out from its
\* own copy of the blocks and the bombs.
LEMMA TurnShown ==
  ASSUME IInv, NEW acts \in [Ids -> Action \cup {None}], NEW respawn,
         PlayTurn(acts, respawn)
  PROVE  view'.explosions = UNION {FieldsHit(world, b) : b \in Exploding(world)}
<1> DEFINE w == WithActions(acts)
           t == TurnEvents(w, respawn, 0)
<1>1. w.blocks = world.blocks /\ w.bombs = world.bombs
  BY WithActionsWorld DEF IInv
<1>2. DOMAIN t.exploded = Exploding(w)
  BY ExplodedEvents
<1>3. Exploding(w) = Exploding(world)
  BY <1>1 DEF Exploding
<1>4. view'.explosions = UNION {handle_explosions(BombPosition(view, b), view.blocks) :
                                  b \in DOMAIN t.exploded}
  BY DEF PlayTurn, handle_turn
<1>5. view.blocks = world.blocks /\ view.bombs = world.bombs
  BY DEF IInv, Agreement
<1>6. ASSUME NEW b \in Exploding(world)
      PROVE  handle_explosions(BombPosition(view, b), view.blocks) = FieldsHit(world, b)
  BY <1>5 DEF BombPosition, FieldsHit, Exploding
<1> HIDE DEF t
<1>7. {handle_explosions(BombPosition(view, b), view.blocks) : b \in DOMAIN t.exploded}
        = {FieldsHit(world, b) : b \in Exploding(world)}
  BY <1>2, <1>3, <1>6
<1> QED BY <1>4, <1>7

\* A robot that scores was reached by a bomb, which is gone after the turn.
LEMMA TurnScores ==
  ASSUME IInv, NEW acts \in [Ids -> Action \cup {None}], NEW respawn,
         PlayTurn(acts, respawn), NEW i \in Ids
  PROVE  \/ world'.players[i].score = world.players[i].score
         \/ /\ world'.players[i].score = world.players[i].score + 1
            /\ i \in DestroyedRobots(world)
<1> DEFINE w == WithActions(acts)
<1>1. /\ WorldOK(w, NumPlayers)
      /\ w.players[i] \in PlayerType
      /\ \A j \in Ids : w.players[j].position = world.players[j].position
      /\ w.players[i].score = world.players[i].score
      /\ w.blocks = world.blocks /\ w.bombs = world.bombs
      /\ DOMAIN w.players = Ids
  BY WithActionsWorld DEF IInv
<1>2. respawn \in [DestroyedRobots(w) -> Cells] /\ world' = Played(w, respawn)
  BY DEF PlayTurn
<1>3. DOMAIN world.players = Ids
  BY DEF IInv, TypeOK, WorldType
<1> HIDE DEF w
<1>4. DestroyedRobots(w) = DestroyedRobots(world)
  <2>1. Exploding(w) = Exploding(world)
    BY <1>1 DEF Exploding
  <2>2. \A b : RobotsIn(w, b) = RobotsIn(world, b)
    BY <1>1, <1>3 DEF RobotsIn, FieldsHit
  <2> QED BY <2>1, <2>2 DEF DestroyedRobots
<1>5. world'.players[i] = PlayedPlayer(w, respawn, i)
  BY <1>1, <1>2 DEF Played
<1>6. CASE i \in DOMAIN respawn
  BY <1>1, <1>2, <1>4, <1>5, <1>6 DEF PlayedPlayer, PlayerType
<1>7. CASE i \notin DOMAIN respawn
  BY <1>1, <1>5, <1>7 DEF PlayedPlayer, PlayerType
<1> QED BY <1>6, <1>7

\* Why BombsFresh is inductive: the ids of new bombs start at bomb_count, and a
\* timer that has not run out is still above zero after the turn.
LEMMA TurnFresh ==
  ASSUME TypeOK, BombsFresh, NEW acts \in [Ids -> Action \cup {None}], NEW respawn,
         PlayTurn(acts, respawn)
  PROVE  BombsFresh'
<1> DEFINE w == WithActions(acts)
           placed == Cardinality(Acting(w, "PLACE_BOMB"))
<1>1. /\ WorldOK(w, NumPlayers) /\ w.bombs = world.bombs
      /\ w.bomb_count = world.bomb_count
  BY WithActionsWorld
<1>2. world' = Played(w, respawn)
  BY DEF PlayTurn
<1> HIDE DEF w
<1>3. /\ world'.bombs = PlayedBombs(w)
      /\ world'.bomb_count = w.bomb_count + placed
  BY <1>2 DEF Played
<1>4. w.bomb_count \in Nat /\ placed \in Nat
  BY <1>1, ActingFinite DEF WorldOK
<1> HIDE DEF placed
<1> SUFFICES ASSUME NEW b \in DOMAIN world'.bombs
             PROVE  /\ b \in 0 .. world'.bomb_count - 1
                    /\ BombTimer > 0 => world'.bombs[b].timer \in 1 .. BombTimer
  BY DEF BombsFresh
<1>5. CASE b \in DOMAIN PlacedBombs(w)
  <2>1. world'.bombs[b] = [position |-> PlacedBombs(w)[b], timer |-> BombTimer]
    BY <1>3, <1>5 DEF PlayedBombs
  <2>2. b \in Nat /\ w.bomb_count <= b /\ b < w.bomb_count + placed
    BY <1>1, <1>5, PlacedIds DEF placed
  <2>3. b \in 0 .. world'.bomb_count - 1
    BY <1>3, <1>4, <2>2
  <2>4. BombTimer > 0 => BombTimer \in 1 .. BombTimer
    BY BoardAssumption
  <2> QED BY <2>1, <2>3, <2>4
<1>6. CASE b \notin DOMAIN PlacedBombs(w)
  <2>1. /\ b \in DOMAIN w.bombs /\ b \notin Exploding(w)
        /\ world'.bombs[b] = Tick(w.bombs[b])
    BY <1>3, <1>6 DEF PlayedBombs
  <2>2. /\ b \in 0 .. w.bomb_count - 1
        /\ BombTimer > 0 => w.bombs[b].timer \in 1 .. BombTimer
    BY <1>1, <2>1 DEF BombsFresh
  <2>3. b \in 0 .. world'.bomb_count - 1
    BY <1>3, <1>4, <2>2
  <2>4. ASSUME BombTimer > 0 PROVE world'.bombs[b].timer \in 1 .. BombTimer
    <3> DEFINE timer == w.bombs[b].timer
    <3>1. timer \in 1 .. BombTimer /\ BombTimer \in 0 .. TimeMod - 1 /\ TimeMod \in Nat \ {0}
      BY <2>2, <2>4, BoardAssumption
    <3>2. (timer - 1) % TimeMod # 0 /\ Tick(w.bombs[b]).timer = (timer - 1) % TimeMod
      BY <2>1 DEF Exploding, Tick
    <3> HIDE DEF timer
    <3>3. timer - 1 \in 0 .. TimeMod - 1 /\ (timer - 1) % TimeMod = timer - 1
      BY <3>1
    <3>4. (timer - 1) % TimeMod \in 1 .. BombTimer
      BY <3>1, <3>2, <3>3
    <3> QED BY <2>1, <3>2, <3>4
  <2> QED BY <2>3, <2>4
<1> QED BY <1>5, <1>6

\* A bomb that explodes leaves the board, and no new one takes its id.
LEMMA ExplodedBombsGone ==
  ASSUME IInv, BombsFresh, NEW acts \in [Ids -> Action \cup {None}], NEW respawn,
         PlayTurn(acts, respawn), NEW b \in Exploding(world)
  PROVE  b \in DOMAIN world.bombs \ DOMAIN world'.bombs
<1> DEFINE w == WithActions(acts)
<1>1. WorldOK(w, NumPlayers) /\ w.bombs = world.bombs /\ w.bomb_count = world.bomb_count
  BY WithActionsWorld DEF IInv
<1>2. world' = Played(w, respawn)
  BY DEF PlayTurn
<1> HIDE DEF w
<1>3. DOMAIN world'.bombs = (DOMAIN w.bombs \ Exploding(w)) \cup DOMAIN PlacedBombs(w)
  BY <1>2 DEF Played, PlayedBombs
<1>4. b \in DOMAIN world.bombs /\ b \in Exploding(w)
  BY <1>1 DEF Exploding
<1>5. b \in 0 .. w.bomb_count - 1 /\ w.bomb_count \in Nat
  BY <1>1, <1>4 DEF BombsFresh, WorldOK
<1>6. b \notin DOMAIN PlacedBombs(w)
  <2> SUFFICES ASSUME b \in DOMAIN PlacedBombs(w) PROVE FALSE
    OBVIOUS
  <2>1. w.bomb_count <= b
    BY <1>1, PlacedIds
  <2> QED BY <1>5, <2>1
<1> QED BY <1>3, <1>4, <1>6

-----------------------------------------------------------------------------
(* The theorems *)

\* The inductive invariant holds in every reachable state.
THEOREM Invariance == Spec => []IInv
<1>1. Init => IInv
  BY InitInv
<1>2. IInv /\ [Next]_vars => IInv'
  BY NextInv
<1> QED BY <1>1, <1>2, PTL DEF Spec

\* Positions, blocks, bombs and scores keep their types in every game.
THEOREM TypeCorrect == Spec => []TypeOK
<1>1. IInv => TypeOK
  BY DEF IInv
<1> QED BY <1>1, Invariance, PTL

\* A client that handled every turn shows the positions, blocks, bombs and
\* scores the server has.
THEOREM ClientAgrees == Spec => []Agreement
<1>1. IInv => Agreement
  BY DEF IInv
<1> QED BY <1>1, Invariance, PTL

\* Bomb ids are not reused and no timer wraps, in games of any length.
THEOREM BombsStayFresh == Spec => []BombsFresh
<1>1. Init => BombsFresh
  <2> SUFFICES ASSUME Init PROVE BombsFresh
    OBVIOUS
  <2>1. world.bombs = <<>>
    BY DEF Init, StartWorld
  <2>2. DOMAIN <<>> = {}
    OBVIOUS
  <2> QED BY <2>1, <2>2 DEF BombsFresh
<1>2. IInv /\ BombsFresh /\ [Next]_vars => BombsFresh'
  <2>1. IInv /\ BombsFresh /\ Next => BombsFresh'
    BY NextIsTurn, TurnFresh DEF IInv
  <2>2. BombsFresh /\ UNCHANGED vars => BombsFresh'
    BY DEF BombsFresh, vars
  <2> QED BY <2>1, <2>2
<1> QED BY <1>1, <1>2, Invariance, PTL DEF Spec

\* What a client shows as exploding is what the server destroyed things on.
THEOREM ExplosionsAreShown == Spec => ExplosionsShown
<1>1. IInv /\ [Next]_vars =>
        [view'.explosions = UNION {FieldsHit(world, b) : b \in Exploding(world)}]_vars
  BY NextIsTurn, TurnShown
<1> QED BY <1>1, Invariance, PTL DEF Spec, ExplosionsShown

OneScore ==
  \A i \in Ids :
    \/ world'.players[i].score = world.players[i].score
    \/ /\ world'.players[i].score = world.players[i].score + 1
       /\ \E b \in DOMAIN world.bombs \ DOMAIN world'.bombs :
            world.players[i].position \in FieldsHit(world, b)

\* A robot scores at most once a turn, and only for a bomb that exploded.
THEOREM ScoresOnce == Spec => OneScorePerTurn
<1>1. ASSUME IInv, BombsFresh, Next PROVE OneScore
  <2>1. PICK acts \in [Ids -> Action \cup {None}] :
          \E respawn \in [DestroyedRobots(world) -> Cells] : PlayTurn(acts, respawn)
    BY <1>1, NextIsTurn
  <2>2. PICK respawn : PlayTurn(acts, respawn)
    BY <2>1
  <2>3. ASSUME NEW i \in Ids, i \in DestroyedRobots(world)
        PROVE  \E b \in DOMAIN world.bombs \ DOMAIN world'.bombs :
                 world.players[i].position \in FieldsHit(world, b)
    <3>1. PICK b \in Exploding(world) : i \in RobotsIn(world, b)
      BY <2>3 DEF DestroyedRobots
    <3>2. world.players[i].position \in FieldsHit(world, b)
      BY <3>1 DEF RobotsIn
    <3>3. b \in DOMAIN world.bombs \ DOMAIN world'.bombs
      BY <1>1, <2>2, <3>1, ExplodedBombsGone
    <3> QED BY <3>2, <3>3
  <2> QED BY <1>1, <2>2, <2>3, TurnScores DEF OneScore
<1>2. IInv /\ BombsFresh /\ [Next]_vars => [OneScore]_vars
  BY <1>1
<1> QED BY <1>2, Invariance, BombsStayFresh, PTL DEF Spec, OneScorePerTurn, OneScore
=============================================================================
