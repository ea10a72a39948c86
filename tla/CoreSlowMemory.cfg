SPECIFICATION UninterruptedSpec
CONSTANTS
  NUM_Q_TILES = 2
  NUM_K_TILES = 3
  BEATS_PER_TILE_Q = 2
  BEATS_PER_TILE_KV = 2
  NUM_BATCHES = 2
  BatchCycles = 3
  QBase = 100
  KBase = 200
  VBase = 300
  OBase = 400
  MaxRdStall = 8
  MaxWrStall = 0
INVARIANTS NoTileSkipped
PROPERTIES RunCompletes
