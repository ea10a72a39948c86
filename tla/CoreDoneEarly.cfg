SPECIFICATION UninterruptedSpec
CONSTANTS
  NUM_Q_TILES = 1
  NUM_K_TILES = 3
  BEATS_PER_TILE_Q = 2
  BEATS_PER_TILE_KV = 2
  NUM_BATCHES = 2
  BatchCycles = 7
  QBase = 100
  KBase = 200
  VBase = 300
  OBase = 400
  MaxRdStall = 1
  MaxWrStall = 3
INVARIANTS DoneAfterLastResponse
