SPECIFICATION RolesSpec
CONSTANTS
    RoleIds = {3, 4}
    BuiltIn = {3}
    Assigned = 3
    Missing = Missing
    NewRole = 0
    Pairs <- MCPairs
    FormPairs <- MCFormPairs
    ScopedPairs <- MCScopedPairs
    Routes <- MCRoutes
    RouteNeed <- MCRouteNeed
    OperatorPermissions <- MCOperator
    OtherSaves <- MCOtherSaves
    MaxChanges = 1
    MaxSaves = 2
INVARIANTS
    GrantedAlike
    GuardLands
PROPERTIES
    SavedAsShown
CHECK_DEADLOCK FALSE
