SPECIFICATION Spec
CONSTANTS
  Steps = 1
  MaxRetries = 1
  Retries <- OneRetried
  ReadOnlySteps <- AllWritable
  WindowEnd = "client"
INVARIANT TargetExplained
