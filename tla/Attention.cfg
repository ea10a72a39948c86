SPECIFICATION Spec
CONSTANTS
  N_HEADS = 3
  KV_MUL = 2
  SEQ_LEN = 3
  Scores = {0, 2}
  Programs = {"run_fa", "runperf"}
INVARIANT AttentionIsSoftmax
PROPERTIES SlicesApart AttentionEnds
CHECK_DEADLOCK FALSE
