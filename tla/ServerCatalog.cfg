SPECIFICATION SCSpec
CONSTANTS
  Decorated <- MCDecorated
  Dynamic <- MCDynamic
  Options <- MCOptions
  ServerName = "main"
  Index = "index"
  Schema = "schema"
  Callers <- MCCallers
  PageSize = 1
  MaxPages = 4
  MaxBatchSize = 1
  MaxChanges = 3
INVARIANTS SdkFollowsRegistry ToolsInReach DrainLosesLittle
CHECK_DEADLOCK FALSE
