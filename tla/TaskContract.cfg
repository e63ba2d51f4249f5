SPECIFICATION Spec
CONSTANTS
  None = None
  NoConfig = NoConfig
  BlankTexts = {""}
  PathTexts = {}
  Models <- AllModels
  RootModels = {"Root"}
  Fields <- ModelFields
  WorkspaceModel = "WorkspaceInput"
  Validated <- ValidatedFields
  Modules <- ModuleTexts
  Processes <- ShellEnvironments
  Dotenvs <- DotenvFiles
  SlotCount = 1
  Methods = {"fork", "spawn"}
  MaxEdits = 1
  Values <- JsonValues
INVARIANT ChildrenComeUp
INVARIANT CalledAsDeclared
INVARIANT BudgetIsAnnounced
INVARIANT ServedAsRegistered
INVARIANT SupersetIsServed
CHECK_DEADLOCK FALSE
