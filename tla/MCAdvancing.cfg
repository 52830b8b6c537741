SPECIFICATION Spec
CONSTANTS
  shop = shop
  www = www
  other = other
  t1 = t1
  t2 = t2
  g1 = g1
  g2 = g2
  long = long
  maxDuration = 15
  Cores <- MCCores
  Under <- MCUnder
  Texts = {t1, t2}
  Garbled = {g1, g2}
  Overlong = {long}
  MaxTail = 2
  MaxRecords = 2
  Typed <- MCTyped
  Derived <- MCDerived
  Relayed <- MCRelayed
  Cadences <- MCCadences
  Hashes = {0, 29}
  MaxFailures = 5
  MaxSince = 16
INVARIANTS
  TypeOK
  AcceptedIsKept
  LookedAtAgain
  WaitsGrow
PROPERTIES
  SentBackForAReason
  SeenIsWritten
  Spaced
CHECK_DEADLOCK FALSE
