\* One player on a board of 2 fields, blocks, and bombs with a timer of 0 in a
\* game_time_t that wraps after 3: they wrap, then count down. The longest game
\* that ends; the clock is fair.
CONSTANTS
  SizeX = 2
  SizeY = 1
  ExplosionRadius = 1
  BombTimer = 0
  CoordMod = 65536
  TimeMod = 3
  None = None
  Servers = {s1}
  Names = {ann}
  PlayersCount = 1
  InitialBlocks = 1
  GameLength = 5
  TurnMod = 7
  Inputs = {"LEFT", "PLACE_BOMB", "PLACE_BLOCK"}
  QueueBound = 0
SPECIFICATION FairSpec
INVARIANTS TypeOK FuseExact HistoryReplays
PROPERTIES GamesEnd
