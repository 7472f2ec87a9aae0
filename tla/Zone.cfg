SPECIFICATION ZoneSpec
CONSTANTS
  Players = {p1}
  Addresses = {a1, a2}
  Sessions = {s1, s2, s3, s4, s5}
  Clients = {c1, c2, c3, c4, c5}
  MaxVisits = 2
  MaxFaults = 1
  MaxRetry = 4
  MaxLinkFaults = 3
  MayRevoke = TRUE
  Fighters = {h1}
  Effects = {"snared", "swizzle"}
  Whole = 2
  Plenty = 1
  Meals <- SomeMeals
  MaxNeed = 1
  SnareDamage = 1
  HealCount = 1
  MaxHealing = 1
  MinBleeding <- NoCut
  MaxGod = 1
  MaxModified = 2
  MaxIgnited = 2
  Cuttable <- CutLevels
  Charges <- Row
  Near <- InRow
  None = None
INVARIANTS TypesOK Watched AliveOrDown SpeedIsRestored ExplodesOnce
PROPERTIES
  ThrownOutByOwnAddress
  StayersGetIn
  KeptWithoutFaults
  LinkAgreesInTheEnd
  BleedersDie
CHECK_DEADLOCK FALSE
