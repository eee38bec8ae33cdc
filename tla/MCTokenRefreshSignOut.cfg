SPECIFICATION Spec
CONSTANTS
  Call = {c1, c2}
  MaxToken = 2
  MaxQuits = 1

PROPERTIES SignOutMeansDeadKeys
CHECK_DEADLOCK FALSE
