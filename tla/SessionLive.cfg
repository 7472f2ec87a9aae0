SPECIFICATION LiveSpec
CONSTANTS
  MAX_SEQUENCE = 7
  StreamLen = 2
  HeadOf <- SingleHead
  SizeOf <- SingleSize
  Small = {0}
  MaxMulti = 2
  PacketRate = 1
  InboundLen = 3
  MaxArrivals = 2
  MaxReplies = 1
  ReplyFaults = {}
PROPERTIES
  EventuallyReceived
  RetransmissionStops
  EventuallyAnswered
