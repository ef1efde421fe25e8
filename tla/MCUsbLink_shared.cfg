\* Two backends share the connection, and one of them loses a reply.
CONSTANTS
  w1 = w1
  w2 = w2
  Processes <- Pair
  NoCall = NoCall
  Plans <- SharedPlans
  PACKET = 64
  XCHUNK = 64
  MCHUNK = 32
  RXFIFO = 4096
  TXFIFO = 4096
  Faulty <- Pair
  MAX_FRAMES = 8
  MAX_OPENS = 1
SPECIFICATION FairSpec
INVARIANTS OwnReplies
CHECK_DEADLOCK FALSE
