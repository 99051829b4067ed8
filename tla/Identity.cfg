SPECIFICATION Spec

CONSTANTS
  Accounts = {"a1"}
  Imports = {}
  ConfigSpecs <- OnlyImport
  Limits = {"zero", "unlimited"}
  AccountKeys = {1, 2, 3, 4, 5, 6}
  OperatorKeys = {11, 12, 13, 14}
  ImportableSeeds = {1}
  ImportableOperators = {11}
  Lag = {"NatsAccount", "account-jwt"}
  Disturbances = {"fault", "crash", "edit", "delete", "recreate", "account-jwt"}
  Budget = 2
  NoKey = 0
  Absent = Absent

CONSTRAINT
  ConfigAway
INVARIANT
  MismatchAttended
PROPERTIES
  IdentityKept
  IdentityRefined
  AnnouncedSeedKept
  UsersWin
