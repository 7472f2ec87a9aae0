SPECIFICATION FairSpec
CONSTANTS
  MAX_SEQUENCE = 8
  StreamLen = 7
  HeadOf <- MixedHead
  SizeOf <- MixedSize
  MaxBatch = 2
INVARIANTS
  TypeOK
  DeliveredInOrder
  AckedNotLost
  NoStall
PROPERTIES
  ImplementsOrderedDelivery
  AllDelivered
