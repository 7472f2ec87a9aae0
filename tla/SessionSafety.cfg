SPECIFICATION Spec
CONSTANTS
  MAX_SEQUENCE = 7
  StreamLen = 3
  HeadOf <- MixedHead
  SizeOf <- MixedSize
  Small = {0, 1}
  MaxMulti = 2
  PacketRate = 2
  InboundLen = 1
  MaxArrivals = 1
  MaxReplies = 1
  ReplyFaults = {"loss"}
INVARIANTS
  TypeOK
  CachedUntilReceived
  MissedIsOnItsWay
  NoDoubleResend
