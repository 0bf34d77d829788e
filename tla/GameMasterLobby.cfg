\* Two players and three servers: joins, resets and games interleave.
CONSTANTS
  SizeX = 1
  SizeY = 1
  ExplosionRadius = 1
  BombTimer = 1
  CoordMod = 65536
  TimeMod = 65536
  None = None
  Servers = {s1, s2, s3}
  Names = {ann}
  PlayersCount = 2
  InitialBlocks = 0
  GameLength = 2
  TurnMod = 4
  Inputs = {"PLACE_BOMB"}
  QueueBound = 1
SYMMETRY Symmetry
SPECIFICATION Spec
INVARIANTS SeatsDistinct GameIsFull NoTurnInLobby TurnsNumbered NothingMissed
PROPERTIES IsGameCycle ScoresSent
