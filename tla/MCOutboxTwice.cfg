SPECIFICATION Spec
CONSTANTS
  Sends = {a, b}
  Text <- OwnText
  Skew = 3
  Margin = 4
  Crowded = FALSE
  Scans = 1
  MaxLost = 1
INVARIANTS NeverTwice
CHECK_DEADLOCK FALSE
