\* Two players on a board of 3 x 1, bombs with a fuse of 1 turn.
CONSTANTS
  SizeX = 3
  SizeY = 1
  ExplosionRadius = 2
  BombTimer = 1
  CoordMod = 65536
  TimeMod = 65536
  None = None
  NumPlayers = 2
  Inputs = {"LEFT", "RIGHT", "PLACE_BOMB", "PLACE_BLOCK"}
  MaxBombs = 2
SPECIFICATION Spec
INVARIANTS TypeOK Agreement BombsFresh
PROPERTIES ExplosionsShown OneScorePerTurn
