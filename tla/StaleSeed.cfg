SPECIFICATION FullSpec

CONSTANTS
  Accounts = {"a1"}
  Imports = {}
  ConfigSpecs <- OnlyImported
  Limits = {"some"}
  AccountKeys = {1, 2, 3, 4}
  OperatorKeys = {11, 12, 13}
  ImportableSeeds = {1}
  ImportableOperators = {11}
  Lag = {"account-jwt"}
  Disturbances = {"crash"}
  Budget = 1
  NoKey = 0
  Absent = Absent
  Users = {"u1"}
  UserSpecs <- JWTUsers
  Permissions = {"all", "few"}
  UserKeys = {21, 22, 23, 24, 25}
  Random = {41, 42, 43}
  Chosen = {31, 32}
  ImportableUserSeeds = {21}
  StoredPasswords = {32}
  UserLag = {}
  UserDisturbances = {}
  UserBudget = 0

INVARIANT
  SignedByAccount
