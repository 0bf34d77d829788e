\* Every set of blocks and every bomb on a board of 3 x 3. The loops stop.
CONSTANTS
  SizeX = 3
  SizeY = 3
  ExplosionRadius = 2
  BombTimer = 1
  CoordMod = 65536
  TimeMod = 65536
SPECIFICATION Spec
INVARIANTS TypeOK LoopIsClosedForm ExplosionIsExposure
CHECK_DEADLOCK FALSE
