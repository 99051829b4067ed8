SPECIFICATION Spec

CONSTANTS
  Accounts = {"a1"}
  Imports = {}
  ConfigSpecs <- EveryMode
  Limits = {"some"}
  AccountKeys = {1, 2, 3, 4, 5, 6}
  OperatorKeys = {11, 12, 13, 14}
  ImportableSeeds = {1}
  ImportableOperators = {11}
  Lag = {}
  Disturbances = {"reconfigure", "deleteConfig", "recreateConfig", "crash"}
  Budget = 2
  NoKey = 0
  Absent = Absent

INVARIANTS
  ReadyMeansPublished
  OperatorAnnounced
  PublishedAsAnnounced
