SPECIFICATION MCFairSpec
CONSTANTS
  NUM_Q_TILES = 1
  NUM_K_TILES = 2
  BEATS_PER_TILE_Q = 2
  BEATS_PER_TILE_KV = 2
  NUM_BATCHES = 1
  BatchCycles = 16
  QBase = 100
  KBase = 200
  VBase = 300
  OBase = 400
  MaxRdStall = 0
  MaxWrStall = 1
  MaxResetCycles = 1
PROPERTY NextRunCompletes
