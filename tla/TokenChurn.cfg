SPECIFICATION FullFairSpec

CONSTANTS
  Accounts = {}
  Imports = {}
  ConfigSpecs <- OnlyToken
  Limits = {"some"}
  AccountKeys = {1, 2, 3, 4}
  OperatorKeys = {11, 12, 13}
  ImportableSeeds = {1}
  ImportableOperators = {11}
  Lag = {}
  Disturbances = {}
  Budget = 0
  NoKey = 0
  Absent = Absent
  Users = {"u1"}
  UserSpecs <- GeneratedUsers
  Permissions = {"all", "few"}
  UserKeys = {21, 22, 23, 24, 25}
  Random = {41, 42}
  Chosen = {31, 32}
  ImportableUserSeeds = {21}
  StoredPasswords = {32}
  UserLag = {}
  UserDisturbances = {}
  UserBudget = 0

PROPERTY
  CredentialsSettle
