SPECIFICATION MCSpec
CONSTANTS
  Blocks = {b1, b2}
  Zones = {z1, z2}
  Null = Null
  Sizes = {0, 1, 2}
  Modulus = 16
  MaxMallocs = 3
  CrossFree = TRUE
INVARIANTS TypeOK RingsLinked RingsComplete OwnCountersAgree OnlyEmptyObjectsAbort
PROPERTY ImplementsZoneSpec
CHECK_DEADLOCK FALSE
