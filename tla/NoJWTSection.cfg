SPECIFICATION Spec

CONSTANTS
  Accounts = {"a1"}
  Imports = {}
  ConfigSpecs <- OnlyBare
  Limits = {"some"}
  AccountKeys = {1, 2, 3, 4}
  OperatorKeys = {11, 12, 13}
  ImportableSeeds = {1}
  ImportableOperators = {11}
  Lag = {}
  Disturbances = {}
  Budget = 0
  NoKey = 0
  Absent = Absent

INVARIANT
  NoPanic
