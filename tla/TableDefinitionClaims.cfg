SPECIFICATION LibrarySpec
CONSTANTS
  Parts = {"definition"}
  Batches <- MCBatches
  Regions = {"home", "west", ""}
  Unset = ""
  Default = "home"
  MaxCalls = 4
  Threads = {t1, t2, t3}
  NoThread = NoThread
  MaxTokens = 4
  Templates <- AllTemplates
  Values <- SomeValues
  Names <- SomeNames
  MaxIndex = 2
  MaxBinds = 2
  Definitions <- AllDefinitions
  Changes <- SomeChanges
  Replicas <- SomeReplicas
  Keywords = {"total"}
  None = None
  MaxAlters = 2
CHECK_DEADLOCK FALSE
INVARIANT
  AShowCreateClaimHolds
