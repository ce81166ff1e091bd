CONSTANTS
  MAX_STR_LEN = 64
  OutputLen = 12
  Spare = 6
  ShortBits = 4
  IntBits = 6
  LongBits = 10
  PointerLen = 2
  ShortArgs <- Shorts
  IntArgs <- Ints
  LongArgs <- Longs
  Pointers <- Addresses
  Words <- Some
  Letters = {107, 200}
  MaxElements = 2
SPECIFICATION Spec
CHECK_DEADLOCK FALSE
INVARIANTS TextAsMeant ZeroBehindText StringsAsSequences
