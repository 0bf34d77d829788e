\* One slot: what is left for a client, from it or because of it when the next connects.
\* A thread that was outlived takes a step after every disconnection.
CONSTANTS
  SizeX = 1
  SizeY = 1
  ExplosionRadius = 1
  BombTimer = 1
  CoordMod = 65536
  TimeMod = 65536
  None = None
  Servers = {s1}
  Names = {ann, bob}
  PlayersCount = 1
  InitialBlocks = 0
  GameLength = 2
  TurnMod = 4
  Inputs = {"PLACE_BOMB"}
  QueueBound = 2
  GmQueueBound = 2
  SentBound = 1
  OutlivedBound = 1
SPECIFICATION SessionSpec
INVARIANTS ClientsFollow SeatIsOwn ScoresAgree
