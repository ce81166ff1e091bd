CONSTANTS
  KeysUsed <- SomeKeys
  Raised <- SomeLines
  BootMasks <- SomeMasks
  MaxTyped = 2
  MaxPrints = 1
  MaxGlitches = 1
SPECIFICATION Spec
CHECK_DEADLOCK FALSE
INVARIANTS InServiceIsRunning NoReentry OpenLinesHandled ModifiersHeld
