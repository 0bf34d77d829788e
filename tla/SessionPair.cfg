\* Two slots and games of two players: players leave the lobby and the game.
\* What outlived threads do is left to SessionOne.cfg.
CONSTANTS
  SizeX = 1
  SizeY = 1
  ExplosionRadius = 1
  BombTimer = 1
  CoordMod = 65536
  TimeMod = 65536
  None = None
  Servers = {s1, s2}
  Names = {ann}
  PlayersCount = 2
  InitialBlocks = 0
  GameLength = 1
  TurnMod = 4
  Inputs = {"PLACE_BOMB"}
  QueueBound = 1
  GmQueueBound = 1
  SentBound = 1
  OutlivedBound = 0
SYMMETRY Symmetry
SPECIFICATION SessionSpec
INVARIANT ClientsFollow
PROPERTY OnlyLateClientsExit
