----------------------------- MODULE MCRolesPage -----------------------------
(***************************************************************************)
(* The built-in Operator, whose scopes the dialog holds to "own", and one   *)
(* custom role that may be created, copied and deleted.  Two permissions of  *)
(* the form: a scoped one that the clients' service evaluates, and one whose *)
(* section and key the middleware knows by other names.  The names of the    *)
(* server are in older data only.                                           *)
(***************************************************************************)
EXTENDS RolesPage, TLC

MCFormPairs == {<<"users", "read">>, <<"admin_roles", "read">>}
MCPairs == MCFormPairs \cup {<<"users", "view">>, <<"roles", "view">>}
MCScopedPairs == {<<"users", "read">>}
MCRoutes == <<"/clients", "/admin-roles">>
MCRouteNeed == [r \in {"/clients", "/admin-roles"} |->
                  IF r = "/clients" THEN <<"users", "read">> ELSE <<"admin_roles", "read">>]
Granting(users, view) ==
    [NoPermissions EXCEPT ![<<"users", "read">>] = users,
                          ![<<"admin_roles", "read">>] = view]

MCOperator == Granting("scope1", "absent")
MCOtherSaves == {[NoPermissions EXCEPT ![<<"users", "view">>] = "all",
                                       ![<<"users", "read">>] = "all",
                                       ![<<"roles", "view">>] = "true"]}
=============================================================================
