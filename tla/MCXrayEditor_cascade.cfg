SPECIFICATION Spec
CONSTANTS
  Names <- MCNames
  Balancers <- MCBalancers
  Stored <- CascadeStored
  Default <- MCDefault
  Servers <- MCServers
  Texts <- MCTexts
  Shared <- MCShared
  Budgets <- CascadeBudgets
INVARIANT BalancersResolve
CHECK_DEADLOCK FALSE
