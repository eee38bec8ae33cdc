SPECIFICATION FairSpec
CONSTANTS
  File = {"roster", "users", "meta", "messages"}
  Data = {d1, d2}
  Nothing = Nothing
  MaxCaches = 2
  MaxClears = 1
  MaxEdits = 2
  MaxFailures = 1
INVARIANTS TypeOK Believed WipedStaysWiped DrainPromised SignedOutIsGone KeptAtClose
PROPERTY Saved
CHECK_DEADLOCK FALSE
