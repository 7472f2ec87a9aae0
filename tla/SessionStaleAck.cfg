SPECIFICATION Spec
CONSTANTS
  MAX_SEQUENCE = 7
  StreamLen = 3
  HeadOf <- MixedHead
  SizeOf <- MixedSize
  Small = {0}
  MaxMulti = 2
  PacketRate = 2
  InboundLen = 0
  MaxArrivals = 0
  MaxReplies = 2
  ReplyFaults = {"reorder"}
INVARIANTS
  CachedUntilReceived
