CONSTANTS
  Instances = {i1, i2}
  Users = {u1}
  Groups = {"staff"}
  Keys = {"k1", "k2"}
  Roles <- MCRoles
  Names <- MCNames
  Configs <- MCConfigs
  Down = Down
  SessionTTL = 2
  Lifetimes = {0, 1}
  Lists <- MCLists
  Horizon = 5
  MaxTokens = 1
SPECIFICATION SessionSpec
INVARIANTS
  SessionTypeOK
  RightsAreRecent
CHECK_DEADLOCK FALSE
