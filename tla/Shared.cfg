SPECIFICATION Spec

CONSTANTS
  Accounts = {"a1"}
  Imports = {}
  ConfigSpecs <- WithBare
  Limits = {"some"}
  AccountKeys = {1, 2, 3, 4, 5, 6}
  OperatorKeys = {11, 12, 13, 14}
  ImportableSeeds = {1}
  ImportableOperators = {11}
  Lag = {"account-jwt", "operator-seed", "NatsAuthConfig"}
  Disturbances = {"fault", "crash", "sameSecond", "delete", "reconfigure"}
  Budget = 1
  NoKey = 0
  Absent = Absent

INVARIANTS
  TypeOK
  ReadyMeansSound
  OneOperator
  NothingForgotten
PROPERTY
  UsersWin
