SPECIFICATION Spec
CONSTANTS
  A = A
  B = B
  Bufs <- MCBufs
  Programs <- MCPrograms
  May = {}
  MaxChains = 4
  MIN_BUFFER_SIZE = 3
  EVBUFFER_CHAIN_SIZE = 2
  EVBUFFER_CHAIN_MAX_AUTO_SIZE = 4
  MAX_TO_COPY_IN_EXPAND = 2
  MAX_TO_REALIGN_IN_EXPAND = 2
  NUM_READ_IOVEC = 3
  vprintf_space = 1
INVARIANTS
  NothingBreaks
  HoldsWhatWasPut
  ChainsSound
  ReadersAgree
CHECK_DEADLOCK FALSE
