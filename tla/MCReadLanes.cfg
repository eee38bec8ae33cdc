SPECIFICATION Spec
CONSTANTS
  list = list
  history = history
  presence = presence
  again = again
  other = other
  Calls = {list, history, presence, again, other}
  Background = {presence, again, other}
  Listing = {list, other}
  Method <- TheMethods
  Key <- TheKeys
  TransientRetries = 1
  TransportRetries = 1
  MaxLimited = 1
INVARIANTS LaneMoves
PROPERTIES EveryCallerHears
CHECK_DEADLOCK FALSE
