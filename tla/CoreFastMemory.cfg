SPECIFICATION PipeSpec
CONSTANTS
  NUM_Q_TILES = 2
  NUM_K_TILES = 4
  BEATS_PER_TILE_Q = 8
  BEATS_PER_TILE_KV = 8
  NUM_BATCHES = 2
  BatchCycles = 2
  QBase = 100
  KBase = 200
  VBase = 300
  OBase = 400
  MaxRdStall = 1
  MaxWrStall = 1
  ChunkCounts = {1, 2}
INVARIANTS ComputeOnWholeTiles MaskOfItsKey ScoresApart
PROPERTIES ImplementsTiledAttention ImplementsBatch RunCompletes
