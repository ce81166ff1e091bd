CONSTANTS
  Thread = {t1, t2, t3}
  NULL = NULL
SPECIFICATION FairSpec
INVARIANTS TypeOK Represents NeverHalts
PROPERTIES ImplementsQueue EveryThreadServed
