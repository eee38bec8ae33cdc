SPECIFICATION Spec
CONSTANTS
  Sends = {a, b}
  Text <- OwnText
  Skew = 0
  Margin = 1
  Crowded = FALSE
  Scans = 1
  MaxLost = 2
INVARIANTS NeverTwice PendingMeansInFlight
PROPERTIES EverySendSettles UndoneIsGone
CHECK_DEADLOCK FALSE
