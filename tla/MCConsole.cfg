CONSTANTS
  Rows = 2
  Cols = 3
  TabLength = 2
  BuffSize = 2
  UartSize = 1
  Chars <- Characters
  Strings <- Messages
  KeyStrings <- Shown
  Silent = TRUE
  MaxPrints = 1
  MaxKeys = 2
SPECIFICATION FairSpec
CHECK_DEADLOCK FALSE
INVARIANTS SentInOrder CursorOnScreen
PROPERTIES KeyHandled
