SPECIFICATION FairSpec
CONSTANTS
  Steps = 4
  MaxRetries = 1
  Retries <- SecondRetried
  ReadOnlySteps <- ReaderThird
  WindowEnd = "request"
INVARIANT TargetExplained
INVARIANT AcceptedLineage
INVARIANT PublishFenceHolds
INVARIANT UpdatesOfCurrentStep
INVARIANT HeldResultIsVisible
PROPERTY HistorySpec
PROPERTY WorkflowEnds
PROPERTY AbandonedIsResolved
