SPECIFICATION FairSpec

CONSTANTS
  Accounts = {"a1"}
  Imports = {}
  ConfigSpecs <- OnlyGenerate
  Limits = {"some"}
  AccountKeys = {1, 2, 3, 4, 5, 6, 7, 8}
  OperatorKeys = {11, 12, 13}
  ImportableSeeds = {1}
  ImportableOperators = {11}
  Lag = {}
  Disturbances = {"fault", "crash", "delete", "account-jwt", "server-auth", "sameSecond"}
  Budget = 1
  NoKey = 0
  Absent = Absent

PROPERTY
  Settles
