SPECIFICATION ProgramSpec
CONSTANTS
  N_LAYERS = 2
  SEQ_LEN = 22
  Tokens <- MCTokens
  Zero = 98
  Torn = 99
  Headers <- MCHeaders
  Requests <- MCLongRequests
  TOTAL = 100
  COINS = 4
  SystemText <- MCSystemText
  UserTexts <- MCUserTexts
  TokenPrompts <- MCTokenPrompts
  Vocab <- MCVocab
  Score <- MCScore
  Continuation = {6, 7}
  SPACE = 3
  NEWLINE = 4
  BLANK <- MCBlank
  IM_START = 13
  IM_END = 14
  SYSTEM = 15
  USER = 16
  ASSISTANT = 17
  NL = 7
  Dist <- MCDist
INVARIANT ContextIsHistory
CHECK_DEADLOCK FALSE
