CONSTANTS
  Tabs = {a, b}
  OldVia = "mint"
  MaxAsked = 4
  MaxLogins = 5
SPECIFICATION LoginSpec
INVARIANTS
  LoginTypeOK
  LoginsAreAsked
PROPERTIES
  FailsForCause
  Settles
CHECK_DEADLOCK FALSE
