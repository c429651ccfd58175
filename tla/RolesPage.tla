------------------------------ MODULE RolesPage ------------------------------
(***************************************************************************)
(* The page on which an owner edits roles (admin-roles-list.tsx,            *)
(* admin-role-modal.tsx), the roles on the server, which another owner may  *)
(* edit too, and the panel of an admin who has one of them: the role loaded *)
(* once (use-admin.ts), the menu (AppSidebar.tsx) and the guard that leaves  *)
(* a page the role may not open (route-guard.tsx).                           *)
(*                                                                         *)
(* The owner's list is a query: what it shows is the server's roles at its   *)
(* last fetch.  Of a role only the permissions are followed; the limits,     *)
(* features and access of the form travel with them.  A save is in flight    *)
(* while its dialog can be closed and another one opened.                    *)
(***************************************************************************)
EXTENDS PanelRoles

CONSTANTS
    RoleIds,        \* the roles that are not the owner's, present or to come
    BuiltIn,        \* those of them no one can delete: Administrator, Operator
    Assigned,       \* the role of the admin whose panel is followed
    OperatorPermissions,   \* the permissions a new role gets for an empty payload
    OtherSaves,     \* permissions another owner may store
    Missing,        \* no such role
    NewRole,        \* the id of a dialog that creates a role
    MaxChanges,     \* bound: permissions changed in one dialog
    MaxSaves        \* bound: saves, deletions and edits by others in a run

ASSUME RolesAssumption ==
    /\ BuiltIn \subseteq RoleIds
    /\ Assigned \in BuiltIn
    /\ OtherSaves \subseteq Permissions
    /\ OperatorPermissions \in Permissions
    /\ Missing \notin Permissions /\ NewRole \notin RoleIds
    /\ MaxChanges \in Nat /\ MaxSaves \in Nat

\* The pairs of an action that hold a value, under whichever name.
HeldPairs(perms, p) == {q \in Names(p[1], p[2]) \cap Pairs : perms[q] # "absent"}

\* Permissions without the values that the form does not write and that one
\* program reads otherwise than another: the string "2", which the front end
\* takes for "all" and the middleware for nothing; a plain true on a scoped
\* action, shown as the most the role may have; a scope or the number 1 on any
\* other, which the clients' service refuses; and an action held under two
\* names with two values, of which one program takes the first and another any.
Consistent(perms) ==
    /\ \A p \in Pairs : perms[p] # "two"
    /\ \A p \in ScopedPairs : perms[p] # "true"
    /\ \A p \in FormPairs \ ScopedPairs : \A q \in HeldPairs(perms, p) : perms[q] \notin Scoped \cup {"one"}
    /\ \A p \in FormPairs : \A q, r \in HeldPairs(perms, p) : perms[q] = perms[r]

ASSUME StoredAssumption == \A perms \in OtherSaves \cup {OperatorPermissions} : Consistent(perms)

VARIABLES
    roles,          \* the server's table
    list,           \* the roles the page's query holds
    dialog,         \* the dialog: open, the role edited, the form
    saving,         \* the mutation under way
    budget,         \* saves, deletions and edits by others left
    admin,          \* the permissions the admin's panel loaded, or Missing
    route,          \* the page the admin's panel shows
    guardDue,       \* why the route guard's effects have to run: "no", "admin", "path"
    navigated       \* the guard's hasNavigatedRef

guardVars == <<admin, route, guardDue, navigated>>
rolesVars == <<roles, list, dialog, saving, budget, guardVars>>

Closed == [open |-> FALSE, id |-> NewRole, named |-> FALSE, section |-> FALSE,
           perms |-> NoPermissions, changes |-> 0]
NoSave == [st |-> "none", id |-> NewRole, named |-> FALSE, payload |-> NoPermissions, shown |-> FALSE]
Paths == {Routes[n] : n \in DOMAIN Routes} \cup {FallbackRoute}
Groups == {{p \in FormPairs : p[1] = q[1]} : q \in FormPairs}

AsRole(perms) == [owner |-> FALSE, perms |-> perms]

\* PermissionsSection holds Administrator and Operator to "own", and any role
\* whose name in the form is one of these two.
Restricted(id, named) == id \in BuiltIn \/ named

-----------------------------------------------------------------------------
(* The owner's page.                                                       *)

\* The query's answer: on mount, after a mutation, on focus, by the button.
Refetch ==
    /\ list' = roles
    /\ UNCHANGED <<roles, dialog, saving, budget, guardVars>>

\* handleEdit resets the form to the row shown, not to the role stored now.
HandleEdit(id) ==
    /\ ~dialog.open /\ list[id] # Missing
    /\ \E named \in IF id \in BuiltIn THEN {FALSE} ELSE BOOLEAN :
         dialog' = [Closed EXCEPT !.open = TRUE, !.id = id, !.named = named,
                      !.perms = AdminRoleFormFromResponse(AsRole(list[id]))]
    /\ UNCHANGED <<roles, list, saving, budget, guardVars>>

OpenCreate ==
    /\ ~dialog.open
    /\ dialog' = [Closed EXCEPT !.open = TRUE]
    /\ UNCHANGED <<roles, list, saving, budget, guardVars>>

\* The permissions are rendered, and held to the role's most, only while their
\* section of the dialog is unfolded; one section is at a time.
OpenSection ==
    /\ dialog.open /\ ~dialog.section
    /\ dialog' = [dialog EXCEPT !.section = TRUE,
                    !.perms = IF Restricted(dialog.id, dialog.named) THEN ClampScopes(@) ELSE @]
    /\ UNCHANGED <<roles, list, saving, budget, guardVars>>

FoldSection ==
    /\ dialog.section
    /\ dialog' = [dialog EXCEPT !.section = FALSE]
    /\ UNCHANGED <<roles, list, saving, budget, guardVars>>

\* The name becomes, or no longer is, that of a built-in role.  A role that is
\* built in itself is held to "own" whatever its name.
ChangeName ==
    /\ dialog.open /\ dialog.id \notin BuiltIn
    /\ dialog' = [dialog EXCEPT !.named = ~@,
                    !.perms = IF dialog.section /\ Restricted(dialog.id, ~dialog.named)
                              THEN ClampScopes(@) ELSE @]
    /\ UNCHANGED <<roles, list, saving, budget, guardVars>>

\* A select or a switch of the section, or a group's two buttons.
Choices(p, restrict) ==
    IF p \in ScopedPairs THEN IF restrict THEN {"scope0", "scope1"} ELSE Scoped
    ELSE Booleans

ChangePermission ==
    /\ dialog.section /\ dialog.changes < MaxChanges
    /\ LET restrict == Restricted(dialog.id, dialog.named)
       IN \/ \E p \in FormPairs : \E v \in Choices(p, restrict) :
               dialog' = [dialog EXCEPT !.changes = @ + 1,
                            !.perms = SetPermission(@, restrict, p, v)]
          \/ \E group \in Groups, mode \in {"all", "none"} :
               dialog' = [dialog EXCEPT !.changes = @ + 1,
                            !.perms = SetGroupAll(@, restrict, group, mode)]
    /\ UNCHANGED <<roles, list, saving, budget, guardVars>>

\* Cancel, Escape or a click outside; a save under way goes on.
CloseDialog ==
    /\ dialog.open
    /\ dialog' = Closed
    /\ UNCHANGED <<roles, list, saving, budget, guardVars>>

\* The button is disabled while a mutation of this page is pending.
Submit ==
    /\ dialog.open /\ saving.st = "none" /\ budget > 0
    /\ saving' = [st |-> "sent", id |-> dialog.id, named |-> dialog.named, shown |-> dialog.section,
                  payload |-> AdminRoleFormToPayload(dialog.perms)]
    /\ budget' = budget - 1
    /\ UNCHANGED <<roles, list, dialog, guardVars>>

\* handleDuplicate creates a role from the row shown, without a dialog.
HandleDuplicate(id) ==
    /\ list[id] # Missing /\ saving.st = "none" /\ budget > 0
    /\ saving' = [st |-> "copy", id |-> NewRole, named |-> FALSE, shown |-> FALSE,
                  payload |-> AdminRoleFormToPayload(AdminRoleFormFromResponse(AsRole(list[id])))]
    /\ budget' = budget - 1
    /\ UNCHANGED <<roles, list, dialog, guardVars>>

\* The server stores the role: a new one under an unused id.
ServerSaves ==
    /\ saving.st \in {"sent", "copy"}
    /\ \/ /\ saving.id # NewRole /\ roles[saving.id] # Missing
          /\ roles' = [roles EXCEPT ![saving.id] = StoredByUpdate(saving.payload)]
          /\ saving' = [saving EXCEPT !.st = "ok"]
       \/ /\ saving.id = NewRole
          /\ \E id \in RoleIds :
               /\ roles[id] = Missing
               /\ roles' = [roles EXCEPT ![id] = StoredByCreate(saving.payload, OperatorPermissions)]
          /\ saving' = [saving EXCEPT !.st = IF @ = "sent" THEN "ok" ELSE "copied"]
    /\ UNCHANGED <<list, dialog, budget, guardVars>>

\* A missing role, a name that is taken, or a lost connection.
ServerRefuses ==
    /\ saving.st \in {"sent", "copy"}
    /\ saving' = NoSave
    /\ UNCHANGED <<roles, list, dialog, budget, guardVars>>

\* onSubmit goes on after its mutation and the refetch: it closes whatever
\* dialog is open by then and resets the form.
SubmitReturns ==
    /\ saving.st \in {"ok", "copied"}
    /\ saving' = NoSave
    /\ list' = roles
    /\ dialog' = IF saving.st = "ok" THEN Closed ELSE dialog
    /\ UNCHANGED <<roles, budget, guardVars>>

\* The rows ticked are deleted, each by a request of its own; one that fails
\* does not stop the others.  Protected rows cannot be ticked, and the server
\* keeps a role that is assigned.
HandleBulkDelete ==
    /\ budget > 0
    /\ \E deletableSelectedIds \in SUBSET {id \in RoleIds \ BuiltIn : list[id] # Missing} :
         \E done \in SUBSET (deletableSelectedIds \ {Assigned}) :
            /\ deletableSelectedIds # {}
            /\ roles' = [id \in RoleIds |-> IF id \in done THEN Missing ELSE roles[id]]
    /\ list' = roles'
    /\ budget' = budget - 1
    /\ UNCHANGED <<dialog, saving, guardVars>>

\* Another owner saves or deletes a role.
OtherOwner(id) ==
    /\ budget > 0 /\ roles[id] # Missing
    /\ budget' = budget - 1
    /\ \/ \E perms \in OtherSaves : roles' = [roles EXCEPT ![id] = perms]
       \/ id \notin BuiltIn /\ roles' = [roles EXCEPT ![id] = Missing]
    /\ UNCHANGED <<list, dialog, saving, guardVars>>

-----------------------------------------------------------------------------
(* The admin's panel.                                                      *)

\* The document is loaded and useAdmin's request answered.
LoadCurrentAdmin ==
    /\ admin' = roles[Assigned]
    /\ route' \in Paths
    /\ guardDue' = "admin"
    /\ navigated' = FALSE
    /\ UNCHANGED <<roles, list, dialog, saving, budget>>

\* An entry of the menu, which shows the pages the role may open, or the
\* history of the browser, which may hold any.  React runs the effects of a
\* render before it takes the next event.
Navigate(r) ==
    /\ admin # Missing /\ route # r /\ guardDue = "no"
    /\ route' = r
    /\ guardDue' = "path"
    /\ UNCHANGED <<roles, list, dialog, saving, budget, admin, navigated>>

\* The guard's two effects after a render: the first leaves a page the role
\* may not open, unless that was just done; the second, which runs when the
\* path has changed, forgets that it was done.
GuardEffect ==
    /\ guardDue # "no" /\ admin # Missing
    /\ LET allowed == CanAccessRoute(AsRole(admin), route)
           leave == ~allowed /\ ~navigated
           target == IF leave THEN FirstAllowedRoute(AsRole(admin)) ELSE route
       IN /\ route' = target
          /\ navigated' = (~allowed /\ guardDue # "path")
          /\ guardDue' = IF target # route THEN "path" ELSE "no"
    /\ UNCHANGED <<roles, list, dialog, saving, budget, admin>>

-----------------------------------------------------------------------------
RolesInit ==
    /\ roles = [id \in RoleIds |-> IF id \in BuiltIn THEN OperatorPermissions ELSE Missing]
    /\ list = roles
    /\ dialog = Closed
    /\ saving = NoSave
    /\ budget = MaxSaves
    /\ admin = Missing
    /\ route = FallbackRoute
    /\ guardDue = "no"
    /\ navigated = FALSE

RolesNext ==
    \/ Refetch
    \/ \E id \in RoleIds : HandleEdit(id)
    \/ OpenCreate
    \/ OpenSection
    \/ FoldSection
    \/ ChangeName
    \/ ChangePermission
    \/ CloseDialog
    \/ Submit
    \/ \E id \in RoleIds : HandleDuplicate(id)
    \/ ServerSaves
    \/ ServerRefuses
    \/ SubmitReturns
    \/ HandleBulkDelete
    \/ \E id \in RoleIds : OtherOwner(id)
    \/ LoadCurrentAdmin
    \/ \E r \in Paths : Navigate(r)
    \/ GuardEffect

RolesSpec == RolesInit /\ [][RolesNext]_rolesVars

-----------------------------------------------------------------------------
\* What the permissions section shows of a value.
ShownGranted(restrict, p, v) == IF p \in ScopedPairs THEN ShownScope(v, restrict) > 0 ELSE v = "true"
ShownAll(restrict, v) == ShownScope(v, restrict) = 2

\* A role saved from a dialog that shows its permissions has on the server the
\* rights the dialog showed, neither more nor fewer, and "all" for the panel
\* where it showed "all".  The exception is a new role none of whose
\* permissions was touched: the server gives it the operator's.
SavedAsShown ==
    [][ (saving.st = "sent" /\ saving'.st = "ok" /\ saving.shown
           /\ ~(saving.id = NewRole /\ saving.payload = NoPermissions))
          => LET restrict == Restricted(saving.id, saving.named)
             IN \A id \in RoleIds : (roles'[id] # roles[id] \/ id = saving.id) =>
                  /\ \A p \in RequestedPairs :
                       ServerGrants(AsRole(roles'[id]), p[1], p[2])
                         <=> ShownGranted(restrict, p, saving.payload[p])
                  /\ \A p \in ScopedPairs :
                       HasScopeAll(AsRole(roles'[id]), p[1], p[2])
                         <=> ShownAll(restrict, saving.payload[p]) ]_rolesVars

\* Of a role that the page, a copy or another owner stored, whatever names its
\* actions are held under, the front end and the server say the same: an
\* action counts as allowed in the panel exactly where the middleware, or the
\* clients' service, grants the request that asks for it.
GrantedAlike ==
    \A id \in RoleIds : roles[id] # Missing =>
      \A p \in RequestedPairs :
        HasPermission(AsRole(roles[id]), p[1], p[2])
          <=> ServerGrants(AsRole(roles[id]), p[1], p[2])

\* Once the guard's effects have run, the page shown is one the role loaded
\* may open, whichever page the address, the menu or the history named and
\* whatever the role has lost.
GuardLands == (admin # Missing /\ guardDue = "no") => CanAccessRoute(AsRole(admin), route)
=============================================================================
