SPECIFICATION Spec
CONSTANTS
  LastSlot = 2
  Food = food
  Trash = trash
  Cloth = cloth
  MaxStack = 4
  MaxCount = 5
  MaxBulk = 5
  BagBulk = 2
  ClothCount = 2
  LastObject = 8
  MaxRequests = 4
PROPERTY OnlyEmptyBagsClose
CHECK_DEADLOCK FALSE
