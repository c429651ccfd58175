----------------------------- MODULE PanelRoles -----------------------------
(***************************************************************************)
(* What a role of the panel allows, evaluated three times: by the front    *)
(* end, which hides pages and some buttons (pg-ui/utils/rbac.ts), by the   *)
(* server's middleware, which refuses requests                             *)
(* (internal/web/controller/admin_security.go), and by the service of the  *)
(* clients, which has evaluations of its own                               *)
(* (internal/web/service/client_rbac.go); and what the role editor does to *)
(* the permissions it loads, changes and saves                             *)
(* (pg-ui/features/admin-roles).                                           *)
(*                                                                         *)
(* A role is its owner flag and a function from <<section, key>> pairs to  *)
(* permission values; a key or a section missing from the JSON is the      *)
(* value "absent".  The values are those the three evaluations tell apart: *)
(* booleans, a scope object, and the strings and numbers older data and    *)
(* the API may hold.                                                       *)
(***************************************************************************)
EXTENDS Naturals, Sequences, FiniteSets, Functions

CONSTANTS
    Pairs,          \* the <<section, key>> pairs a permission JSON may hold
    FormPairs,      \* those of them PERMISSION_GROUPS lists
    ScopedPairs,    \* those of them with scoped: true
    Routes,         \* the pages in the order firstAllowedRoute tries them
    RouteNeed       \* page -> the <<section, key>> ROUTE_PERMISSIONS asks for

ASSUME FormPairsAssumption ==
    /\ Pairs \subseteq STRING \X STRING
    /\ FormPairs \subseteq Pairs
    /\ ScopedPairs \subseteq FormPairs
    /\ <<"users", "create">> \notin ScopedPairs /\ <<"users", "admin_filter">> \notin ScopedPairs

Scoped == {"scope0", "scope1", "scope2"}
Booleans == {"true", "false"}
OldValues == {"own", "all", "two", "one"}    \* "own", "all", "2" as strings, the number 1
Values == {"absent"} \cup Booleans \cup Scoped \cup OldValues

Permissions == [Pairs -> Values]
NoPermissions == [p \in Pairs |-> "absent"]

-----------------------------------------------------------------------------
(* The front end's evaluation.                                             *)

\* An alias of the section, tried after the section itself.  "clients" has
\* the alias "users"; no page asks for "clients" under another name.
SectionAlias(s) ==
    CASE s = "roles"       -> <<"roles", "admin_roles">>
      [] s = "admin_roles" -> <<"admin_roles", "roles">>
      [] s = "clients"     -> <<"clients", "users">>
      [] OTHER             -> <<s>>

\* The two names of an action: the server's and the role editor's.
TwoNames == { <<"view", "read">>, <<"viewSimple", "read_simple">>, <<"viewGeneral", "read_general">>,
     <<"resetUsage", "reset_usage">>, <<"revokeSubscription", "revoke_sub">>,
     <<"activateNextPlan", "activate_next_plan">>, <<"setOwner", "set_owner">>,
     <<"updateCore", "update_core">>, <<"viewStatistics", "stats">>, <<"viewLogs", "logs">> }

\* The front end reads either name as an alias of the other, and treats
\* adminFilter and admin_filter so too.
FrontNames == TwoNames \cup { <<"adminFilter", "admin_filter">> }
ServersOf(k) == {m[1] : m \in {n \in FrontNames : n[2] = k}}
OtherNames(k) == {m[2] : m \in {n \in FrontNames : n[1] = k}} \cup ServersOf(k)

KeyAlias(k) == IF OtherNames(k) = {} THEN <<k>> ELSE <<k, CHOOSE o \in OtherNames(k) : TRUE>>

\* The pairs in the order the two nested loops of findPermissionValue visit
\* them; the first that is present counts: a false there hides a later true.
InSection(s, ks) == [n \in DOMAIN ks |-> <<s, ks[n]>>]
LookupOrder(s, k) ==
    LET ss == SectionAlias(s)
    IN InSection(ss[1], KeyAlias(k))
         \o IF Len(ss) = 1 THEN <<>> ELSE InSection(ss[2], KeyAlias(k))

First(S) == CHOOSE n \in S : \A m \in S : n <= m

FirstPresent(perms, order) ==
    LET present == {n \in DOMAIN order : order[n] \in Pairs /\ perms[order[n]] # "absent"}
    IN IF present = {} THEN "absent" ELSE perms[order[First(present)]]

Lookup(perms, s, k) == FirstPresent(perms, LookupOrder(s, k))

\* Everything the front end may look under for this permission.
Names(s, k) == Range(SectionAlias(s)) \X ({k} \cup OtherNames(k))

\* PERMISSION_GROUPS has one entry for an action, under the editor's name.
ASSUME FormNamesAssumption ==
    \A p \in FormPairs :
      /\ Names(p[1], p[2]) \cap FormPairs = {p}
      /\ p[1] # "clients" /\ p[2] \notin {n[1] : n \in FrontNames}
      /\ p[2] = "admin_filter" => p[1] = "users"

PermissionValueAllowed(v) == v \in {"true", "scope1", "scope2", "own", "all", "two", "one"}
PermissionValueScopeAll(v) == v \in {"true", "scope2", "all", "two"}

HasPermission(role, s, k) ==
    role.owner \/ PermissionValueAllowed(Lookup(role.perms, s, k))

HasScopeAll(role, s, k) ==
    role.owner \/ PermissionValueScopeAll(Lookup(role.perms, s, k))

CanReadResourcePage(role, s) == HasPermission(role, s, "read") \/ HasPermission(role, s, "view")

\* A page without an entry in ROUTE_PERMISSIONS, /api-docs among them, is
\* open to every role.
CanAccessRoute(role, r) ==
    r \in DOMAIN RouteNeed => HasPermission(role, RouteNeed[r][1], RouteNeed[r][2])

FallbackRoute == "/api-docs"

ASSUME RoutesAssumption == Routes \in Seq(DOMAIN RouteNeed) /\ FallbackRoute \notin DOMAIN RouteNeed

\* Mutant: the dashboard instead of a page every role may open.
MutFirstAllowedRoute(role) ==
    LET ok == {n \in DOMAIN Routes : CanAccessRoute(role, Routes[n])}
    IN IF ok = {} THEN Routes[1] ELSE Routes[First(ok)]
FirstAllowedRoute(role) ==
    LET ok == {n \in DOMAIN Routes : CanAccessRoute(role, Routes[n])}
    IN IF ok = {} THEN FallbackRoute ELSE Routes[First(ok)]

-----------------------------------------------------------------------------
(* The middleware's evaluation.  The one of the inbounds' service          *)
(* (inbound.go:153-219) is the same for one section.                       *)

ServerSections(s) == IF s \in {"roles", "admin_roles"} THEN {"roles", "admin_roles"} ELSE {s}

\* One direction only: a request that needs "read" is not granted by "view".
ServerKeys(k) == {k} \cup {m[2] : m \in {n \in TwoNames : n[1] = k}}

ServerValueAllowed(v) == v \in {"true", "scope1", "scope2", "own", "all", "one"}

RoleAllowsPermission(role, s, k) ==
    \/ role.owner
    \/ \E p \in ServerSections(s) \X ServerKeys(k) :
         p \in Pairs /\ ServerValueAllowed(role.perms[p])

-----------------------------------------------------------------------------
(* The evaluation of the clients' service, which no middleware precedes.   *)

UserNames == {n \in FrontNames : n[1] \in {"view", "resetUsage", "revokeSubscription",
                                           "activateNextPlan", "setOwner", "adminFilter"}}

\* The names a permission is looked up under, the server's first; the first
\* present counts.  Nothing asks for viewSimpleList.
\* Mutant: the editor's names are not known.
MutUserKeys(k) == <<k>>
UserKeys(k) ==
    IF \E n \in UserNames : n[1] = k
    THEN <<k, (CHOOSE n \in UserNames : n[1] = k)[2]>>
    ELSE <<k>>

UserValue(perms, k) == FirstPresent(perms, InSection("users", UserKeys(k)))

\* Whose clients a request may reach.  Only the owner reaches those of other
\* admins: any other role's "all" is brought down to "own".
ClientAccessMode(role, k) ==
    IF role.owner THEN "all"
    ELSE IF UserValue(role.perms, k) \in {"true", "scope1", "scope2", "own", "all", "two", "one"}
         THEN "own" ELSE "none"

\* Creating and filtering by owner are either allowed or not.
UserBoolPermission(role, k) == role.owner \/ UserValue(role.perms, k) \in {"true", "own", "all"}

UserGranted(role, k) ==
    IF k \in {"create", "adminFilter"} THEN UserBoolPermission(role, k)
    ELSE ClientAccessMode(role, k) # "none"

\* What the server asks for where the form has <<s, k>>, and who evaluates it.
ServerNames(k) == IF ServersOf(k) = {} THEN {k} ELSE ServersOf(k)
ServerGrants(role, s, k) ==
    \A name \in ServerNames(k) :
      IF s = "users" THEN UserGranted(role, name) ELSE RoleAllowsPermission(role, s, name)

\* Of the permissions on clients these are the ones some request asks for.
RequestedPairs == {p \in FormPairs : p[1] = "users" =>
             p[2] \in {"read", "create", "update", "delete", "reset_usage", "revoke_sub", "admin_filter"}}

-----------------------------------------------------------------------------
(* The role editor.                                                        *)

\* Booleans and scope objects pass; anything else is dropped from the form.
NormalizePermissionValue(v) == IF v \in Booleans \cup Scoped THEN v ELSE "absent"

SanitizeRolePermissions(perms) ==
    [p \in Pairs |->
       IF p \in FormPairs THEN NormalizePermissionValue(perms[p]) ELSE "absent"]

BuildOwnerRolePermissions ==
    [p \in Pairs |->
       IF p \in ScopedPairs THEN "scope2" ELSE IF p \in FormPairs THEN "true" ELSE "absent"]

\* What the form holds when a role is opened.
AdminRoleFormFromResponse(role) ==
    IF role.owner THEN BuildOwnerRolePermissions ELSE SanitizeRolePermissions(role.perms)

\* The effect of PermissionsSection on the built-in Administrator and
\* Operator, and on any role given one of those two names: a scope above
\* "own" comes down to "own".  A plain true on a scoped action is left alone.
ClampScopes(perms) ==
    [p \in DOMAIN perms |->
       IF p \in ScopedPairs /\ perms[p] = "scope2" THEN "scope1" ELSE perms[p]]

\* One control of the form: a select for a scoped action, a switch otherwise.
SetPermission(perms, restrict, p, v) ==
    [perms EXCEPT ![p] = IF restrict /\ v = "scope2" THEN "scope1" ELSE v]

\* Mutant: "Select all" forgets what the role may have at most.
MutSetGroupAll(perms, restrict, group, mode) ==
    [p \in DOMAIN perms |->
       IF p \notin group THEN perms[p]
       ELSE IF p \in ScopedPairs
            THEN IF mode = "none" THEN "scope0" ELSE "scope2"
            ELSE IF mode = "none" THEN "false" ELSE "true"]
\* "Select all" and "Clear" of a group of actions.
SetGroupAll(perms, restrict, group, mode) ==
    [p \in DOMAIN perms |->
       IF p \notin group THEN perms[p]
       ELSE IF p \in ScopedPairs
            THEN IF mode = "none" THEN "scope0" ELSE IF restrict THEN "scope1" ELSE "scope2"
            ELSE IF mode = "none" THEN "false" ELSE "true"]

\* The scope the select shows for an action; a plain true shows as the most
\* the role may have.
ShownScope(v, restrict) ==
    CASE v = "scope1" -> 1
      [] v \in {"scope2", "true"} -> IF restrict THEN 1 ELSE 2
      [] OTHER -> 0

AdminRoleFormToPayload(perms) == SanitizeRolePermissions(perms)

\* AdminRoleService.Update stores the payload; Create replaces a payload
\* without any entry by the operator's permissions.
StoredByUpdate(payload) == payload
StoredByCreate(payload, operatorPermissions) ==
    IF payload = NoPermissions THEN operatorPermissions ELSE payload
=============================================================================
