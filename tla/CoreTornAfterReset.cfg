SPECIFICATION MCSpec
CONSTANTS
  NUM_Q_TILES = 1
  NUM_K_TILES = 2
  BEATS_PER_TILE_Q = 1
  BEATS_PER_TILE_KV = 2
  NUM_BATCHES = 1
  BatchCycles = 16
  QBase = 100
  KBase = 200
  VBase = 300
  OBase = 400
  MaxRdStall = 0
  MaxWrStall = 0
  MaxResetCycles = 1
INVARIANT NothingTornStored
