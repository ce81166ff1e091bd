CONSTANTS
  Configs <- Found
  ResetConfigs <- AfterSelfTest
  ScanSets = {2, 3}
  irq_enable = TRUE
  MaxTyped = 1
  MaxResends = 2
SPECIFICATION Spec
CHECK_DEADLOCK FALSE
INVARIANTS SuccessMeansSet2 ConfiguredUnlessLate PromptSucceeds NeedsForgetting
PROPERTIES Terminates
