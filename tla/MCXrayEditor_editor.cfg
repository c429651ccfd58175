SPECIFICATION Spec
CONSTANTS
  Names <- MCNames
  Balancers <- MCBalancers
  Stored <- MCStored
  Default <- MCDefault
  Servers <- MCServers
  Texts <- MCTexts
  Shared <- MCShared
  Budgets <- MCBudgets
INVARIANTS
  ObserverWhereNeeded
  SavedOnlyWhenStored
PROPERTIES
  EditsKeepReferences
  PreviewAgrees
  FormKeepsTheRest
  ImportedReaches
CHECK_DEADLOCK FALSE
