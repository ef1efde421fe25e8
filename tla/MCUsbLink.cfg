\* A transport alone whose transfers may time out, or two that share the
\* connection without timeouts; the FIFOs are small enough to fill.
CONSTANTS
  w1 = w1
  w2 = w2
  Processes <- AloneOrPair
  NoCall = NoCall
  Plans <- AllPlans
  PACKET = 64
  XCHUNK = 64
  MCHUNK = 32
  RXFIFO = 128
  TXFIFO = 128
  Faulty <- Alone
  MAX_FRAMES = 9
  MAX_OPENS = 1
SPECIFICATION FairSpec
INVARIANTS TypeOK OwnReplies Synced AllSucceed
PROPERTIES CallsReturn
CHECK_DEADLOCK FALSE
