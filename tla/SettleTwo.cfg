SPECIFICATION FairSpec

CONSTANTS
  Accounts = {"a1", "a2"}
  Imports = {}
  ConfigSpecs <- OnlyGenerate
  Limits = {"some"}
  AccountKeys = {1, 2, 3, 4, 5, 6, 7, 8}
  OperatorKeys = {11, 12, 13}
  ImportableSeeds = {1}
  ImportableOperators = {11}
  Lag = {}
  Disturbances = {"sameSecond"}
  Budget = 0
  NoKey = 0
  Absent = Absent

PROPERTY
  Settles
