# TLA+ verification of the panel

This directory holds TLA+ specifications of the panel: of the pages an
administrator works with in the browser and of the concurrent core of the Go
server behind them, which manages an Xray core process, its clients, and a tree
of remote nodes. TLC checks them on small instances, TLAPS proves their central
invariants. `PROJECT.json` lists every run, the source lines behind every
definition, the hazards, and the mutated definition that breaks each property.

## 1. Inventory

The repository is a fork of 3x-ui. Its own logic is the TypeScript under
`src/frontend/src` (about 95,000 lines, a third of them generated schemas,
endpoint tables, charts and styling) and the Go code under `src/internal` (about
80,000 lines without tests). Installers, packaging and translations are
deployment.

### The front end

| Component (source) | State it keeps | Operations | Hard because of |
|---|---|---|---|
| HTTP client and session (`api/http-init.ts`, `LoginPage.tsx`, `AppSidebar.tsx`; `web/session`, `web/middleware`) | `csrfToken`, `csrfFetchPromise`, `sessionExpired`; the cookie; the login epoch | every request, sign-in, sign-out, revocation | tabs share a cookie and not a token; a write refused once is sent again |
| Roles (`pg-ui/utils/rbac.ts`, `pg-ui/features/admin-roles`, `route-guard.tsx`; `web/controller/admin_security.go`, `web/service/client_rbac.go`) | the permission JSON of a role, the role form, the loaded role | edit, copy, save, delete; menu, buttons, guard | three evaluations of one JSON with different aliases and formats |
| Clients page (`pages/clients`, `hooks/useClients.ts`) | slim rows, the form with its seed, the save under way | edit, add, switch, delete, bulk | one save is up to four requests; the rows leave most of a client out |
| Live feed and inbounds page (`api/websocket*.ts`, `pages/inbounds`) | sockets and timers, query cache, rows, form, fallbacks | open, reopen, refetch; edit, clone, switch, delete, attach | events, fetches and records in any order; replaced sockets still speak |
| Xray page (`hooks/useXraySetting.ts`, `pages/xray`) | draft, its text, what it is compared with, dialogs | outbounds, rules, balancers, basic page, provider dialogs, save, refetch | one deletion touches five lists; refetches seed the draft under a dialog |
| Outbound form (`pages/xray/outbounds/OutboundFormModal.tsx`, `outbound-form-helpers.ts`, `lib/xray/outbound-form-adapter.ts`) | form values, tab, text of the JSON tab | controls, effects, JSON, import of a link, OK | each choice replaces settings of the others, effects replace them again |
| Links (`lib/xray/inbound-link.ts`, `subscription-profile.ts`, `outbound-link-parser.ts`), other adapters, schemas | none | conversion between JSON, form values and links | many formats, written and read by different modules |
| Settings, nodes, hosts, groups, admins pages | one record each | edit, save | few |
| Dashboards, charts, subscription page, API docs | query caches | view | none |

### The server

| Component (source) | State it keeps | Operations | Hard because of |
|---|---|---|---|
| Xray lifecycle control (`web/service/xray.go`, `web/job/check_xray_running_job.go`) | `p`, `isNeedXrayRestart`, `xrayRestartGeneration`, `isManuallyStopped`, `xrayLifecycleMu`, `lock` | request a restart, `RestartXray`, `ReconcileXray`, hot apply, `StopXray`, cron, health check | requests race with restarts that are finishing; stale snapshots; partial failures |
| Live inbound edits (`web/service/inbound.go`, `web/runtime/local.go`) | inbound rows, handlers in the core | add, delete, update, enable | commit first, push after; no lock from the commit to the push |
| Xray process and shared-port runtime (`xray/process.go`, `web/service/xray_frontmux_runtime.go`, `frontmux/manager.go`) | `cmd`, `done`, `intentionalStop`; `Manager.running` | start, stop, crash callback, publish and close listeners, rollback, recovery | callback goroutine beside the lifecycle mutex, timeouts, stops that half succeed |
| Traffic writer (`web/service/traffic_writer.go`) | queue, context, done channel, `twMu` | submit, start, stop, drain | two locks' worth of hand-over, full queue, stop against submit |
| Strict IP limit (`iplimit/coordinator.go`, `web/service/strict_ip_limit.go`) | lease rows, `LimitIP` | acquire, renew, release, prune, relay to the parent | expiry, holders that share an IP, limits lowered while in use |
| Node synchronisation (`web/service/inbound_node.go`, `node.go`, `web/runtime/*.go`) | `config_dirty`, `config_dirty_at`, remote caches, tombstones | mark dirty, push, reconcile, clear, adopt remote rows | offline nodes, remote calls while rows change, equal time stamps |
| Node traffic and heartbeat jobs (`web/job/node_*.go`) | node status, baselines | poll, merge, publish transitions | decisions from a stale snapshot |
| Traffic accounting (`inbound_traffic*.go`, `inbound_disable.go`, `client_inbound_billing.go`, `admin_usage_limit.go`) | counters, quotas, expiry | add deltas, disable, renew, reset | resets against polls, global sums over nodes |
| Client CRUD and bulk (`client_*.go`) | client rows, inbound settings JSON, per-inbound locks | create, update, attach, delete, bulk | lock order, several inbounds per client |
| Hot diff (`xray/hot_diff.go`) | none | compare two configurations | what may be hot applied |
| Shared-port planning (`frontmux/plan.go`, `classifier.go`) | none | build and validate a plan, classify a connection | ambiguous routes |
| MTProto manager (`mtproto/*.go`) | running instances | reconcile with desired, restart | process exits during reconcile |
| Event bus, WebSocket hub | bounded channels, subscribers | publish, subscribe, stop | full buffers, stop against publish |
| Tunnel monitor, login limiter, hash storage, presence, metric history | time-windowed tables | step, record, expire | time boundaries |
| Server start and stop (`main.go`, `web/web.go`) | servers, cron, signal loop | start, panel-only restart, stop | cron jobs are not awaited |
| Subscription server (`sub/*.go`), outbound subscriptions, profile validation, client activity, bot, e-mail, update, roles, migrations | rows and caches | read, format, fetch | mostly sequential data shaping |

How they interact. The pages talk to the server through one HTTP client and hear
of changes through one WebSocket; each page holds a copy of what it last read and
sends whole records back. On the server, HTTP handlers and cron jobs are
goroutines of one process. They write the database, push to the local core
through its gRPC API or to nodes over HTTP, and call `SetToNeedRestart`. The
30-second cron job, the one-second health check, traffic jobs and operators call
into `restartXray`, which drives the process and the shared-port listeners under
`xrayLifecycleMu`. A goroutine per process waits for its end and runs the crash
callback. Traffic rows are written through the one traffic-writer goroutine.
Cores ask the panel on their machine for IP leases; each panel forwards the
request to its parent, and the root decides.

What makes each part correct is in section 2 for the parts that are modelled
and in section 6 for those that are planned.

## 2. Modules

| Module | Models | Composition |
|---|---|---|
| `PanelSession` | tabs, their requests, the token, the cookie, sign-in and sign-out | browser and server in one module |
| `PanelRoles` | what a permission JSON allows, in the front end, the middleware and the clients' service; what the role form does to it | operators, used by `RolesPage` |
| `RolesPage` | owners editing roles, and the panel of an admin who has one | extends `PanelRoles` |
| `ClientsPage` | the clients page of one admin, the server's table, other admins | browser and server in one module |
| `LiveFeed` | sockets, pushed lists, refetches | used by `InboundsPage` |
| `InboundsPage` | the inbounds page on top of that feed, the server's inbounds, other admins | extends `LiveFeed` |
| `XrayConfig` | the edits of the configuration editor as functions of the configuration | operators, used by `XrayEditor` |
| `OutboundForm` | the outbound form as functions of its values: reading, writing, controls, effects | operators, extends `XrayConfig` |
| `ProxyLinks` | share links: written for an inbound and its profiles, read into an outbound | operators, extends `OutboundForm` |
| `XrayEditor` | the page that applies them: draft, text, dialogs, the outbound form, saves, refetches | extends `ProxyLinks` |
| `XrayRestart` | who requests restarts and how one operation at a time serves them | treats the runtime as `StopOld`, `StartNew` and `Crash` |
| `XrayRuntime` | that runtime: processes, listeners, callbacks, rollback | every operation of `XrayRestart` may come at any time |
| `TrafficWriter` | the serial writer and its submitters | implements `WriteOnce` |
| `WriteOnce` | the promise of a submit: applied once or refused | abstract |
| `IPLease` | the lease coordinator for one client | implements `LeaseSlots` |
| `LeaseSlots` | a strict limit on a set of admitted IPs | abstract |
| `NodeSync` | the inbounds of one remote node: edits with their marks and pushes, the sync job, the node | both sides of the connection in one module |
| `*_proofs` | the theorems of a module, `Panel_proofs` those of `PanelSession`, `RolesPage` and `ClientsPage` | extends it and TLAPS |
| `MC*` | the instances for TLC | extends it |

`XrayRestart` and `XrayRuntime` are two views of the same code, divided where
`restartXray` calls `stopXrayRuntime` and `startXrayRuntime`. The first keeps
the contents of the configuration and abstracts the runtime to one step that
succeeds or fails; the second keeps the steps of the runtime and abstracts the
configuration to its shared-port plan. A joint state space would be their
product without another interaction: between those calls nothing but the crash
callback touches the listeners, and `XrayRuntime` has the callback.

The pages are not composed with each other: they share the session and the
query cache only, and each writes records the others do not. The server appears
in each page's module as its table and its handlers; requests are carried out
and answered in steps of their own, and what the answers do to the page is part
of the step that receives them.

### PanelSession

State: `jar` (the browser's cookie: who is signed in, and the session's token),
`epoch` (changed by a password change, which signs every session out), and per
tab `page`, `meta` (the token in the served document), `csrfToken`, `csrfFetch`
(the shared request for a token), `sessionExpired`, `leaving` (a navigation under
way). A call goes from `token` over `sent`, `answered` to `done`, `failed`, `hung`
(a 401 never settles) or `gone` (the document was replaced). The server answers
from the cookie that was sent, not from the one the browser has by then.

- `AtMostOnce`: a write that is refused with 403 and sent again is never carried
  out twice. What makes it true is spread out: the 403 comes before the work, a
  status other than 403 is not repeated, and only one repetition is made.
- `CallsEnd`: no call waits for ever, including those a 401 left hanging, which
  only the navigation of `expireSession` ends.

### PanelRoles and RolesPage

A permission is a function from pairs of a section and a key to a value; the
values are those the evaluators tell apart, old formats included. There are three
evaluators: the front end's search through aliases (`Lookup`, `HasPermission`), the
middleware of the server (`RoleAllowsPermission`), and, for clients, whose requests
no middleware guards, the clients' service (`UserValue`, `ClientAccessMode`). They differ
in the names they know, in the values they accept and in what counts when an action
is present twice. The state of `RolesPage` is the server's
table, the list, dialog and save of an owner, and, of an admin with one of these
roles, the loaded role, the page shown and the guard's `hasNavigatedRef`. The
dialog holds a built-in role to "own", and any role whose name in the form is a built-in
role's (`Restricted`, `ChangeName`), but only while the permissions are unfolded
(`OpenSection`, `FoldSection`).

The assumptions say what the tables in the code are. The form has one entry
for an action, under the editor's name, and no other entry of the form is an alias of it
(`FormNamesAssumption`). The pages tried are pages with a rule, and the last resort has none
(`RoutesAssumption`). `StoredAssumption` leaves out what no form of the program
writes and what the evaluators read differently: the string "2", `true` on a scoped
action, a scope or the number 1 on any other, two values for one action; section 5 says
what happens to those.

- `GrantedAlike`: of every stored role, the front end and the server, whichever of its
  two evaluators answers for the section, agree on every permission of the form that
  some request asks for. It compares evaluations. It does not say that a button asks for
  the permission its request needs: section 5 lists where it does not.
- `SavedAsShown`: the rights that a save gives on the server are those the form showed.
- `GuardLands`: after its effects the guard is on a page the role may open.

### ClientsPage

State: the server's table (`server`, `used`), the slim rows of the query, the
fetches of full records (`fetch`), the switch that is locked, the dialog with the
record it was filled from, the save with the request it has reached, the bulk
confirmation and its request. Emails are unique at the start (`ClientsAssumption`), as
the column is in the database.

A client has one field for each way in which the code treats a field: its email, its
subscription id `sub`, `data` for limits, dates, notes and the ids nobody checks, the
switch, `key` for its password, `flow` for what an effect clears when it is hidden
(flow, security, reverse tag), `adTag` for what the payload leaves out, the links and
the attached inbounds. The user may change any of them (`Changed`). The form is not
the record: it rounds (`Rounded`), effects replace a key its inbounds do not take
(`Rekeyed`, `Choose`) and clear what they hide (`FlowIn`), and the server replaces
keys once more (`Fitted`), inbound by inbound, with what that leaves behind when one
of them fails (`PartlyWritten`, `NewClient`, `KnownClient`, `Moved`).

The server finds a row by its email, but a dialog may outlive an email: rows are
renamed and deleted, emails given to others. What ties a form to its row is the
`sub`, which `Taken` keeps apart. One history, `replaced`, holds the rows whose sub a
write has replaced. That takes a form whose client was deleted while it was open, and
whose email another row has got by then: its save puts the deleted client's sub into
that row, and forms of the row from before are no longer about it. A user who types
another `sub` takes the check away: such an edit may overwrite another row, and
`EditsRowShown` is not about it.

- `EditsRowShown`: the first request of an edit that keeps the `sub` writes the row
  the dialog shows, unless that is gone or `replaced`.
- `UntouchedKept`: a full record nobody has changed meanwhile keeps what the user
  did not touch, but for the rounding, a key an inbound of it does not take, and a
  flow or an ad tag without an inbound for it.
- `SavedWhole`: success is reported only for a form that is stored whole. It does not
  speak of a "new" client that was there before (`save.made`), and excepts, by the
  inbounds the row had at the first request (`save.had`), what is kept with the
  inbounds of a row that has none and a flow without an inbound for it, and that a
  new client is enabled whatever the form says.

### LiveFeed and InboundsPage

`LiveFeed` has, for each of the two clients of `WebSocketClient`, its sockets by
`readyState`, `ws`, `isConnected`, `reconnectTimer` and the messages on their way;
and the query: what it holds, its request, the timer of a refetch, and whether a
change of one's own is recent. `InboundsPage` adds the rows, the switches under
way, the fetch of a full record, the form with its fallbacks, its save, the
confirmation and its request. Clients appear as "full", "bare" (with their key, but
without what the form's schema does not know, which `Payload` leaves out), "slim"
(without key), "fresh" (with a key the server made for them, `Normalized`) or "none".

- `SingleSocket`, `NeverStranded`: one live socket at a time; after the first
  connection there is a socket in use or a timer that will open one.
- `RowsOfList`: the page shows the inbounds of the last list.
- `KeysSurvive`: for the protocols whose schema requires a client's key (VLESS, VMess,
  Trojan, Hysteria), a page that failed to read the full record cannot write the
  list's clients back without their keys. For the others (Shadowsocks, MTProto,
  WireGuard), whose schema lets them pass (`Valid`), a client loses its key only by a
  save whose form had not read it or changes the fields. A save keeps the keys that
  were read and leaves the other inbounds alone.

### XrayConfig, OutboundForm, ProxyLinks and XrayEditor

`XrayConfig` holds the pure edits: `SyncObservatories`, the classification of rules
by `planDeletion`, `ApplyCleanup`, renames, the loopbacks of balancers, the rules
of the basic page. `XrayEditor` holds the page: `draft`, `text` (which may not
parse), `base` (what it is compared with), `canSave` (the one-second timer), the
save under way, the query's `cache`, and the open dialog with the index, taken
tags and deletion plan it captured. A refetch may seed the draft under a dialog
(`dialog.stale`). The server stores a save before the test URL and before it restarts
the core, so a save that is answered as a failure may have been stored
(`ServerSaves`); `save.doubt` remembers that one was.

The tables of outbounds and rules hide the loopbacks, and their buttons pass the
index among the visible rows to handlers that use it on the whole list
(`useRoutingColumns.tsx:76-92`, `useOutboundColumns.tsx:80-93`): `OutboundRows` and
`RuleRows` are these indices, so a button may open, move or delete a loopback.

`EditorAssumption` says that the configurations the server holds at first and the
default one are records of the fields the model keeps (`Configs`), have the observer
their balancers need (`ObserverFits`), let the rule of a loopback lead to its balancer
and nowhere else (`LoopbacksLead`), as the page writes it, and give every balancer a
name of its own (`NamesOfTheirOwn`), as the form demands (`BalancerFormSchema`,
`src/frontend/src/schemas/xray.ts:113`, and the duplicates that
`src/frontend/src/pages/xray/balancers/BalancerFormModal.tsx:170` refuses); that
typed outbounds are records; and that the bounds are numbers. A configuration
written by hand and stored past the page may differ: the page mends the observer at
the next change of a balancer, the other two never.

The dialog of an outbound holds its form: the values, the tab, the text of the JSON
tab and whether it was typed; for the properties also what the values came from and
the controls used since. `OutboundForm` has what the form does to the values: the
adapter (`FromWire`, `ToWire`), the choice of a protocol, a network and a security,
and the two effects that follow every change (`Effects`). The fields of a network
and of a security are functions to strings; a field of its own is one that some
conversion treats in a way of its own. `ProxyLinks` has the links: the host and the
stream of each profile (`ExpandEndpoints`), one writer and one reader per protocol.
A link is its parameters; `Reaches` states from the endpoint alone what the
outbound made of its link must be.

- `EditsKeepReferences`: no edit takes the outbound from a rule that had one, or
  cuts a fallback between balancers that led to its balancer before, or gives a
  loopback's rule another destination, with the exceptions that section 5 names and,
  for the fallbacks, the wrong row of a table (`OnLoopback`). Typed text and the
  default replace the
  draft and are not meant; the property tells them by their result, a configuration
  of `Stored` or `Default` made while no dialog was open.
- `PreviewAgrees`: what the deletion dialog announces is what is deleted. A rule
  called kept is the same in its place among those that stay; one called repaired
  still leads somewhere, gave up only a destination that is gone, and names no outbound
  or balancer that went; the balancers and the observer that go are those announced.
  The deletion of a balancer is meant only while the loopbacks' rules lead where the
  page made them lead: after an edit through the wrong row it announces as modified a
  rule that it removes.
- `ObserverWhereNeeded`: the observer fits the balancers after every edit.
- `SavedOnlyWhenStored`: a draft that counts as saved is what the server holds, unless
  a save was stored and answered as a failure since the page last loaded or saved.
- `FormKeepsTheRest`: an outbound saved through its form is the one the form was
  opened on, or the one typed as JSON, but for what the controls used in between
  stand for. A change of protocol or transport that supports the security keeps
  it with all its settings; the transport's own settings go with the transport.
- `ImportedReaches`: a link of the panel that is imported and saved leads to the
  endpoint it was written for: host, port, credential, transport, security, masks.
  What a link does not carry is excepted (`Lossy`, section 5).
- `BalancersResolve` is violated (run `editor_cascade`): deleting the only outbound
  of a balancer deletes the balancer, but another that falls back to it keeps
  its fallback, and saving writes the rule to the removed balancer again.

### XrayRestart

State: `db` (what `GetXrayConfig` would build), `snapshot` (`Process.config`),
`core` (what the live core has), `running`, `manual`, `flag` and `gen`
(`isNeedXrayRestart`, `xrayRestartGeneration`), `op` (the holder of the
lifecycle mutex and where it stands in `restartXray` or `StopXray`), `edit`
(one per editor), `cron`, `check` (the counter of the health check). `covered`,
`overtaken`, `touched` and `unasked` are histories.

A configuration maps tags to contents. A hot tag stands for a handler the core
API can change, a cold tag for a section that needs a new process.
`markXrayRestartNeeded` is two steps (`MarkInc`, `MarkStore`) and the end of a
restart is two (`FinishLoad`, then `FinishClear` or `FinishKeep`), as the two
atomics in the code are.

- `NoRequestLost`: a request that is not covered by a successful restart is
  still visible: in the flag, in a restart under way that will cover it, or in a
  mark about to be made. The one exception is the window inside
  `finishXrayRestart`, which `overtaken` remembers (section 5).
- `DriftExplained`: the live core differs from the snapshot only in handlers an
  edit or a failed hot apply has touched.
- `ColdEditsReachCore`: a committed cold edit is in the core or a restart for it
  is due. The exception is `unasked`: a save of the Xray page that finds the core
  down asks for nothing, while a restart may be starting the core from an older
  build (section 5). An edit in `Saver` is such a save.
- `RequestsServed`, `CrashRecovered`: liveness of the two.

### XrayRuntime

State: `proc` (process objects with the goroutine that waits for each), `p`,
`front` (the process for which `Manager.running` was published, or none), `op`
(the operation under the lifecycle mutex), `manual`. `proc[i].done` is the
closed `done` channel, which `IsRunning` reads; it is closed after the crash
callback, because `close` is deferred in `waitForCommand`.

- `NoSecondProcess`, `ListenersOfCurrent`, `CallbackOwnListeners`: no start next
  to a process that is wanted, no listeners of a forgotten live process, no
  callback that closes the listeners of another live process.
- `SingleFaultRollsBack`: a restart that fails once leaves the previous
  configuration current and its listeners published.
- `RecoversUnlessStale`: a core that is down comes back, unless listeners
  without a process are in the way (section 5).

### TrafficWriter

State: the package variables (`current`, `twMu`), per generation the queue,
`closed` (`twDone`), `cancelled` (the context) and the writer goroutine; per
submitter its program counter. `Send` under `twMu`, the full queue that blocks
with the mutex held, its timeout, the drain after a cancel, and the inline write
while no writer is in service are actions of their own. `AppliedOnce` is the
refinement of `WriteOnce`: each write is applied exactly once before its caller
hears of success, or never when it was refused. `NoWriteAbandoned` says that the
branch "traffic writer stopped before write completed" is unreachable.
`CallsReturn` is liveness: every submit and every stop returns.

### IPLease

State: the lease rows of one client, `limit`, the root's clock in ticks, and the
history `since`. `Acquire` is the whole transaction: prune, converge, then
renew, grant or refuse. A relayed request that is lost, late or sent twice is
one that does not come, comes later or comes again, so the relay needs no state.
`StrictLimit` is the refinement of `LeaseSlots`; `NoPreemption` is "first IPs
win"; `GrantWithinLimit` holds right after a limit was lowered;
`AgeWithinTenure` says that no IP gets seniority it does not have.

### NodeSync

State of the panel: `db` (the inbound rows with this `node_id`), `dirty`,
`dirtyAt`, `adopted` (columns of the node record), `fp` and `ids` (the maps of
`Remote`, lost in a restart), `job` (API requests between reading a row,
committing it and pushing it), `sync` (`NodeTrafficSyncJob.syncOne`, which the
job's mutex runs one at a time). State of the node: `node`, its own rows.

A request has up to three steps: the node carries it out (`Send`, `Push`,
`Sweep`), the panel has the answer (`Record`, `Answered`), or the request or the
answer is lost. `AddInbound` and `UpdateInbound` push nothing to a node and
leave it to the sync job; `SetInboundEnable`, `DelInbound` and the client edits
push after their commit, if the node looked online. A content is the enable
switch and the clients; the other columns are handled like the switch.

`CleanMeansEqual` is what the mark is for: without it, the node has what the
panel wrote. It cannot hold of every tag, because some situations mislead the
panel in ways that it has no means to see. `doubt` collects the tags on which
one of these has happened, and each is a hazard in `PROJECT.json`:

- an edit between the poll's look at the mark and its merge;
- two requests for one inbound at a time, one of which sends an old row;
- a deletion before the node's first adoption, which the reconcile does not sweep;
- a request of an edit that overlaps a push, a sweep or a stamp of the sync job
  on the same inbound, so that fingerprints are recorded in another order;
- a lost answer;
- a client request while the node has another row than the edit started from
  (`StaleFP`): the old fingerprint stays although the node's row has changed;
- a blank list that makes a reconcile forget a deletion, and a blank snapshot
  before the first adoption;
- an edit by the node's own operator, who is as good a source as the panel.

The state is checked with these tags left out, not the behaviour: they stay in
the model, and everything that follows from them does. `Agree` (both sides have
the same rows in the end) has no exception but the node that reports nothing.

- `ClearOnlyReconciled`: the compare-and-swap on the stamp. A mark is cleared
  only if what the reconcile read is what the database has.
- `MergeKeepsEdits`: a merge, whose snapshot may be much older, undoes no edit.
- `NativeUntouched`: the panel leaves alone what the node had before it was
  added and the panel has not imported.

## 3. Runs

| Run | Result | Bounds |
|---|---|---|
| `session` | passes | 2 tabs, 2 calls, 1 password change, 9 tokens at a time |
| `roles` | passes | a built-in and a custom role, 2 permissions of the form and 2 under the server's names, 10 values, 1 change per dialog, 2 saves |
| `clients` | passes | 2 tables of 2 clients, room for a third, 2 inbounds, 2 fetches at a time, 3 clicks, edits by others or further fields changed in a form |
| `inbounds` | passes | 3 inbounds, 1 client each, 2 sockets per connection, five budgets of clicks, others, faults, drops |
| `editor` | passes | 2 configurations, 3 edits, or 2 with a save and a refetch, or 1 with 3 steps of the outbound form; 26 inbounds with links, 3 typed texts |
| `editor_cascade` | violated | 1 edit and 1 save |
| `restart_safety` | passes | an editor and a saver of the Xray page, a hot and a cold tag, 1 failure or crash |
| `restart_live` | passes | 1 editor, liveness under fairness |
| `runtime` | passes | 1 plan and none, 5 process objects, 3 failures |
| `writer` | passes | 2 submitters, 2 controllers, queue of 1, 2 generations, 3 writes |
| `lease` | passes | 3 IPs, 2 holders, limits 0 to 2, TTL 2, 3 ticks |
| `nodesync` | passes | 2 inbounds, 1 client, 1 request beside the sync job, 2 edits, 1 fault |

The violated run checks what a comment of the repository says; the finding in
`PROJECT.json` quotes the line.

Why the bounds are enough. In `session`, a second tab is whoever signs in or out
between two attempts of a write, and two calls of one tab share a request for a
token or a 401; a third call adds no interaction. Nine tokens are more than can
be held at once, so that a fresh one always exists. In `roles` the two pairs of the
form are a scoped one of the clients and one that the middleware knows by other names,
and the server's names exist in old data only; every value a JSON may hold is among the ten, and two
saves let an edit start from a list that is out of date. In `clients`, three
actions are an edit whose save fails half way with another admin between its
requests, or two edits whose records arrive late, or an edit and a switch of one
row; one of the two clients of the first table has no inbounds. The first field a user
changes in a form costs nothing, each after it as much as a click: an edit in which two
fields affect each other, inbounds and key, or inbounds and flow, takes all three. The
second table is for these: a key too short for an inbound, a client that may come to
have a flow. In `inbounds` the
five budgets put much on the page and little around it, or the reverse; each has what
one property needs to fail (the mutants show it), and the second inbound is of a
protocol whose keys the server makes. In
`editor` the first configuration has two balancers linked by a fallback, a rule with
two destinations and an observer; three edits are enough to rename, change and
delete what the first one created. Three steps of a form are a protocol, a
transport and a security in any order, or the JSON tab, a text or a link, and a step
after it. The 26 inbounds have every protocol and transport, every security with all
its fields, every way of naming the host, and profiles that take over, replace or
switch off what they can.

In `restart_safety`, two editors, one of which saves the Xray page, make every race
of two requests with each other, with cron and with a finishing restart; a third
adds no new order of the two atomics. One failure reaches each failure branch of
`restartXray`; the runtime, where failures combine (a stop that times out, then a
restore that fails, then a stop of that one), has three, which is what the deepest
such path takes. Five process objects are never all in use. A queue of one is full
after one write; three writes and two generations give a writer that drains, one
that has just started and a write for each. In the lease instance three IPs are one
more than the largest limit, two holders share an IP, and a lease can be granted,
expire and be granted again. Holder keys are only compared, hence the symmetry.

In the node instance two inbounds let one fail while the other is pushed or
swept; two edits beside the sync job make an edit and its revert, an edit of a
row whose push has failed, a deletion and its return. The safety properties have
also been run on larger instances: one inbound with two requests at a time, four
edits without a fault or three with one, and two inbounds with two requests.

Deadlock checking is off for the pages, where a user need do nothing once the
bound on clicks is used up, and for the writer, where nothing need happen once all
generations and writes are used up.

### Fairness

- Goroutines that can go on do (weak fairness of the steps of an operation, of
  a writer, of a submitter once it has begun, of the goroutine that waits for a
  process). The Go scheduler gives that.
- Mutexes: a waiting goroutine gets one eventually (`sync.Mutex` hands over to a
  waiter after a millisecond). Callers that compete with an unbounded number of
  others, the cron job and the health check, have strong fairness.
- Nothing forces an edit, an operator, a failure or a crash; the number of
  failures is bounded, which is the assumption that failures stop eventually.
- The cron library runs the jobs again and again, and requests to a node end,
  because each has a time limit: the steps of the sync job and those of a request
  under way are weakly fair. Faults are bounded, as failures are.
- In the browser (`PanelSession`) a request that was sent is carried out, refused
  or lost and then answered, and a navigation that was begun loads: the browser's
  event loop and its network stack give that. No user action is fair.

## 4. Proofs

TLAPS checks the theorems for every value of the constants: any sets of
tabs, calls, rows, configurations, editors, tags, submitters, plans, any queue
size and any bound.

`Panel_proofs`, the session. `TypeCorrect` and `RunAtMostOnce`. `AtMostOnce` is not
inductive: it needs what a call's state says of how often it ran. `CallInv`: a call that
waits for its token or is under way has not run, and one whose answer refuses it
(neither 200 nor 500) has not either. `FetchInv`: a request for a token carries a
cookie. The one step at which the invariant is at
stake is the repetition after a 403.

The roles. `GuardFindsOpenPage` from `GuardInv`: for a loaded role, `hasNavigatedRef`
is set only while the effects of a changed path are due, on a page the role may open;
and when no effect is due the page is one the role may open. Without the first part a
guard that remembers its own navigation could stay on a forbidden page. `StoredReadAlike` and `SaveKeepsShownRights`
from `RolesInv`: what is stored and listed is `Consistent`, what is edited or
under way has besides only values that the form writes (`FormOK`), and the form of a
restricted role has no scope above one's own while its section is unfolded (`OwnAtMost`).
Both rest on lemmas about one permission at a time: the names the front end looks under
(`OrderNames`) are those the middleware tries (`MiddlewareNames`) and those the service
does (`UsersNames`), whichever comes first says what all say (`FirstSays`), and what the
form reads and writes. The alias that counts is at the least of a set of positions (`First`);
that there is one comes from the well-foundedness of the naturals.

The clients. `EditsFindTheRow`, `EditsKeepTheRest` and `SavesStoreTheForm` from
`ClientsInv`, which follows a row by its sub from the click to the table. `Same(i, sub)`
says that row `i` has that sub, unless it is gone or
replaced; it holds of the rows of the query (`RowsOK`), of the row and the record
of every fetch (`FetchOK`), of the form with its seed (`DialogOK`) and of the save
(`SaveOK`), of the last two until the user types another. The update of an edit is refused if a row other than
the one it writes has the payload's sub, so that the row it writes is the one the form
shows. The emails do not do for this, as they change hands; that no two rows share one
(`ServerOK`) says which row a request writes. `DialogOK` also says what of the record
it was filled from the form still has (`Kept`): the fields the user has not changed,
rounded where the form rounds, the key unless it does not fit, the flow with an inbound
for it; `SaveOK` says that of the payload. `StagesOK` says for each step of a save what
the row has by then if nobody else wrote it (`StoredSoFar`): the fields after the
update, the inbounds after the attach and the detach, or because there were none to
send, and the links at the end. The inbounds the row had at first stay until the
detach, which is what keeps the flow. At the last step this is `SavedWhole`.

`InboundsPage_proofs`. `OneSocket` and `NobodyStranded` from `FeedInv`: every socket
but the one in `ws` is closed or closing, a client that has none there has its timer
set, and one whose timer is set has no socket in use. Without the last part a firing
timer could open a second socket. The other actions of the page leave these
variables alone. `RowsAreTheList` and `SavesKeepKeys` from `PageInv`, which follows
the inbounds from the server to the save. The server's clients have the keys they
need (`ServerInv`); the page has a row for every inbound of the last list and no
other, whatever the patches and the switches did to them (`RowsInv`); the form of an
edit is for an inbound that exists or existed, and that of an addition has no
clients (`FormInv`); and a save of an edit under way has all keys that its inbound
needs (`SaveInv`), which is where a form that was opened on a slim row is stopped. For
the inbounds that need none, one lemma goes through every step that changes the
server (`OwnKept`): only a save takes a key, and of what it carries only `Normalized`
changes one, after a change of the fields.
The other parts say what messages, fetches, switches and dialogs may hold.

`XrayEditor_proofs`. `SavedMeansStored` from `SaveInv`: `base` is what the server holds,
except between the moment a save is stored and its answer, when the server holds
what the save carries, and from an answer that calls a stored save a failure until the
page loads or saves again (`save.doubt`). Every edit and every dialog leaves server, query and save
alone (`Kept`), and so does every step of an outbound's form, which one lemma per
group of edits shows. `ObserverFollows` from `ConfigInv`: the draft, the server's
configuration and the one a save carries each have the observer that their balancers
need. `SyncObservatories` establishes that for any configuration, and is called
after every edit of a balancer; all other edits touch outbounds and rules only. The
exception is the renaming of an outbound, which changes the selectors and fallbacks
of balancers without that call. It keeps the strategy of each, and turns no
empty fallback into one or the reverse, because a rename from or to an empty tag
does nothing.

`DeletionsAsAnnounced` from `PageInv`: the draft, the server's configuration and the
one a save carries are well shaped (`Shaped`: every outbound, rule and balancer is a
record of its fields, every balancer has a name), and a dialog holds what it was opened on (`DialogFits`): a form
on such a record, or a deletion's plan, which is that of the present draft unless
something overtook the dialog. Every edit of every tab keeps the shape, the readers of
links and the outbound form included, each by a lemma of its own. The rest is about
deletions only: `Cleaned` says what `applyCleanup` makes of any configuration, `Agrees`
that the plan says the same, and `BalancerDeletionAgrees` that taking the balancer's
loopback out first, which the page does after it made the plan, changes nothing of
that: the rule of the loopback would have been removed in any case, since it leads to
that balancer alone. That is what `LoopbacksLead` is for: the property assumes it, since
an edit through the wrong row of a table may have cut it. So `Shaped` has two levels.
The loose one is kept by every step and is the invariant (`PageInv`); the upper one,
`Led`, adds that the rule of a loopback leads to its balancer alone, and every lemma
about an edit says that it starts and ends at the level it is given (`PageAt`,
`Landed`). The position of a rule
after a deletion is its rank among those that stay; lemmas `Counted` to `Twice`
say what is needed of ranks, and of a selection from a selection.

`ReferencesKept` from `PageInv` and `RefInv`: a fallback that is a loopback is the
loopback of the balancer it names, no two balancers share a name (`Wired`), and
what a dialog was opened on, unless it was overtaken, is what its tab offers: the
inbound of the rule it changes, an outbound that is there or named, no balancer that
another falls back to (`Aims`). That no rule loses its outbound holds at the loose
level; that the fallbacks lead is shown at the upper one, which the step starts from
when the loopbacks' rules lead and the dialog is on no loopback (`Starts`,
`DialogLeads`), and in which it ends. The property speaks of the first rule for a loopback; in a well shaped and
wired configuration it comes down to three memberships, the loopback among the
outbounds, the balancer among the balancers, and some rule from one to the other
(`LeadsAgree`). For those, one lemma per edit says that they survive it (`Mends`,
and for balancers `Repairs`). The submit of the balancer form is the long one
(`BalancerMends`): after the balancer is put in its place, the fallbacks to its old
name lead nowhere, and the one it was given may not lead yet; renaming repairs the
first (`RenamedMends`), taking out the loopback it no longer needs harms no other
(`LoopbackTrimmed`), completing the new one repairs the last (`EnsuredMends`). That
balancers have names of their own is needed here: two of one name would share a
loopback, and renaming one would take it from the other. The deletion of an outbound
keeps the fallbacks only when it takes no balancer along; the run `editor_cascade`
shows what happens otherwise.

`XrayRestart_proofs`. `TypeCorrect`, and `NoRequestIsLost`. The invariant
`NoRequestLost` is not inductive: that a restart in progress covers a request is
only kept because its caller goes on to the end, and the callers, cron, check
and the editors, know whether they are inside. `Callers` ties the owner of `op`
to the state of cron, check and the edits. Then one lemma per step.
`DriftIsExplained` from `DriftInv`: at every stage of a hot apply the core is the
snapshot it started from, off the touched tags, with what the plan has removed and
added so far. `ColdSectionsApplied` from `DriftInv` and `ColdInv`: the build a
restart carries has the database's cold sections, except those for which a request
is pending that this restart does not cover.

`TrafficWriter_proofs`. `TypeCorrect`, `WritesNotAbandoned`, `OneWriterAlways`.
The strengthening says where a waiting submitter's request is (`WaitInv`), that a
closed `twDone` means an empty queue (`ClosedInv`), that only the writer in the
package variables is alive (`LiveInv`), and that a sender holds the mutex
(`SendInv`). `WriterImplementsOnce` is the refinement of `WriteOnce`, from
`AnswerInv`: what is queued or being applied is still owed to its caller (`OwedInv`),
a request is in one place only over the queues and writers of all generations
(`OnceInv`), and how often a write was applied follows from how far its call has got
(`CountInv`). Every action is then a step of `WriteOnce` or leaves its variables alone.

`XrayRuntime_proofs`. `TypeCorrect`, `ListenersAreCurrent`,
`NoSecondProcessEver` and `CallbacksCloseOwn` from one invariant: while an
operation starts a process the current one is dead (`CurrentDead`), listeners
with a live process belong to the current one (`FrontOwner`), a process whose
callback may still run is current or the subject of the operation (`Wanted`),
and what each program counter implies about that subject (`Subject`). Each
action has a lemma with a step per conjunct. `OneFailureRollsBack` from `RollInv`,
which says of a restart of a running core that has met at most one failure (`Single`)
what each stage has left: while the old process is stopped, an error or a process
that is no longer intact is that one failure (`Stopping`); whoever recovers from it,
or starts the previous configuration after it, can rely on there being no other
(`Recovering`, `Launching`); a new process is given up only for that failure
(`Undoing`); and at the end the previous configuration is current, its listeners are
published, and no callback is about to close them (`Restored`). `Sound` says how such a
restart begins.

`IPLease_proofs`. All five properties of the run: `TypeCorrect`,
`SlotsImplementLimit` (the rows refine `LeaseSlots`), `GrantsRespectLimit`,
`FirstComeFirstServed`, `AgeIsTenure`. The argument is about the rank of a slot,
the number of slots senior to it. Seniority is a strict total order, so an older
slot has a smaller rank (`RankGrows`). The youngest slot that `Converge` keeps
has all the others before it, hence at most `limit` stay (`AtMostLimit`); the
oldest one it gives up has only kept slots before it, hence `limit` stay if any
goes (`AtLeastLimit`), and a grant never coincides with an eviction. `AgeInv`
says that no live row is older than the tenure of its slot.

`NodeSync_proofs`. `TypeCorrect`, `ClearedWhenReconciled`, `NativesUntouched`.
For the mark, `MarkInv`: while the job reconciles, its stamp is at most the
mark's, and if it is the same, no marked edit came after the rows were loaded. For
the natives, four parts: the panel has no row of such an inbound and no request
for one (`NotImported`); the node has it, and so has a snapshot that is not
merged yet (`StillThere`); an adoption leaves none (`NoneAfterAdoption`), because
the merge before it imports all; and a reconcile pushes only rows the panel has
and sweeps only an adopted node (`Todo`). `CleanNodeAgrees` and
`MergeRestoresNothing` from `EqualInv`, which is about tags without a doubt: until a
request commits, the panel has the row it read, and afterwards the one it sends
(`JobsSure`); no two requests, and no request and the sync job, are at work on one
inbound (`Apart`); a fingerprint is the node's row, but for answers on their way
(`PrintSure`); as long as nobody marks the node again, what the reconcile has behind
it is at the node as it was loaded, and the rest is on its list (`ReconcileSure`); a
snapshot that is going to be merged is what the node has still, or blank
(`SnapSure`); and an unmarked node has what the panel has (`CleanSure`).

Assumptions: only the named `ASSUME` of each module, which every run evaluates.

Only model-checked:

- All liveness: `CallsEnd`, `RequestsServed`, `CrashRecovered`, `RecoversUnlessStale`,
  `CallsReturn`, `Agree`. This prover does not reason about fairness.
- `ImportedReaches`. It follows what folds over profiles compute, which takes
  induction over data, and a link's end to end comes down to a case for every
  protocol with every transport and security.
- `FormKeepsTheRest`. It needs for each control what the adapter and the effects leave
  of every other field, for each protocol with each transport: a case distinction of
  the size of the form, which TLC makes.

## 5. What the models leave out, and what they show besides

- In `PanelSession`: two-factor codes, the login limiter, downloads and uploads.
- In `RolesPage`: limits, features and access of a role, and the list's filters; which
  button asks for which permission, and which request for which; requests that need
  "all" of the clients, which only the owner has.
- In `ClientsPage`: dialogs for links, activity and groups, filters and pages; Telegram
  ids, groups and comments by themselves, WireGuard keys and MTProto secrets, which
  travel as `data` and `key` do.
- In `InboundsPage`: the protocol fields of the form and the effects between them,
  import, export, traffic figures other than those that patch a row.
- In `XrayEditor`: DNS, reverse proxies, logging, import of a whole configuration,
  connection tests.
- In `OutboundForm` and `ProxyLinks`: the fields of a protocol's settings beyond
  server and credential, headers, sockopt beyond the dialer, the editor of the masks,
  percent encodings, and base64 other than that of Shadowsocks, which the reader
  undoes, remarks put together from parts, WireGuard configuration files.
- The contents of configurations beyond tags, and how the database builds them.
- The hot apply of `XrayRestart` takes all removals in one step and all
  additions in another; an API call in between may fail at either.
- In `XrayRuntime`: connections through the frontmux, the log, the API port, and
  the rule for exit status 1 on Windows. A failing write of the configuration
  file is a failed start. Timeouts of a stop expire only on a process that has
  not died: the goroutine of a dead one has seconds to close `done`.
- In `TrafficWriter`: what a write does and its error; a panic is an error.
- In `IPLease`: clients other than one (rows and mutex are per client; two that
  share a mutex stripe only wait for each other), database errors (the
  transaction rolls back), clocks that go backwards, tokens and certificates.
- In `NodeSync`: the "selected" mode, the tag prefix of a node, edits of the node
  record (which drop its `Remote`), tombstones of deleted clients, traffic
  columns, database errors, and marks within one millisecond. `UpdateInbound` is
  one step, as it sends nothing. The merge is one step, although it reads the
  panel's rows before its transaction: what could differ are tags edited in
  between, which are in `doubt`. The node's panel answers every request that it
  gets for an inbound it has.
- Everything that section 1 lists and section 2 does not; `PROJECT.json` gives
  the reason for each component.

What the models do that a user may not expect. The models take these steps as
the code does; a property that speaks of them excepts them and says so.

- Session: after a 403 the token is read again from the document's `meta` element
  (`http-init.ts:56`), which a sign-in or sign-out in another tab has made stale, so
  that the repetition sends the refused token again; `test/http-init.test.tsx`
  ("refreshes the token and retries once on 403") has no such element.
- Roles: `true` on a scoped action is shown as "own" and kept as "all" unless touched;
  a role created without any permission gets the operator's; saving drops values
  of formats the form does not know; a save that returns late closes the dialog
  that is open by then; scopes of a built-in role come down only while the section
  is unfolded, and the select offers "all" to other roles, which the clients' service
  brings down to "own" (`client_rbac.go:468`); the server asks for
  `clients.resetUsage` (`group.go:29`) and `hosts.delete` (`host.go:31`), which the form
  cannot grant. A control may need another permission than its request, or none: the
  owner filter of the clients page needs `users.admin_filter` (`ClientsPage.tsx:229`) and
  asks for the list of admins, which needs `admins.view` (`admins.go:23`); the page itself
  needs `users.read` and asks for the inbounds' options (`useClients.ts:216`), which need
  `inbounds.viewSimple` (`inbound.go:76`); many buttons of the clients and inbounds pages
  are shown to everybody, and the server refuses what the role may not
  (`inbound.go:81-90`).
- Clients: the switch of a row sends the record without its ad tag
  (`useClients.ts:728`) and the server stores the ad tag it is sent
  (`client_crud.go:515`); a record that could not be fetched opens on the row, and
  saving it clears links, ad tag and keys; an update of a client without inbounds
  succeeds and leaves its limits, dates, notes and identifiers as they were
  (`client_crud.go:429` writes them once per inbound; against "the server replaces the
  row, it does not patch", `endpoints.ts:806`), and attaching it later copies the old
  ones into the inbound; a form whose client was deleted writes the row that has got
  its email since, and one with another subscription id typed into it any row that has
  (`client_crud.go:418`); a new client is enabled whatever the switch says
  (`client_crud.go:80`); a create that failed half way leaves the client in the
  inbounds before, and repeating it stores nothing but the inbounds it lacks; totals
  and delayed starts are rounded by any edit (`ClientFormModal.tsx:149`), keys that do
  not fit Shadowsocks 2022 replaced, and a flow typed together with the first inbound
  for it is lost, as the attach takes the stored one (`client_crud.go:689`).
- Inbounds: a change by another admin within 1.5 s of one's own is not refetched;
  two quick switches that both fail put back the first one's value; the answer for
  one inbound's fallbacks fills the form of another. A form of a Shadowsocks, MTProto
  or WireGuard inbound opens on the list's row when its record could not be fetched,
  and saving it takes the clients' keys: the server makes new ones for Shadowsocks 2022
  and MTProto and stores WireGuard clients without (against "Actions that touch
  per-client secrets (uuid, password, flow, ...) need the full payload",
  `InboundsPage.tsx:496`). Every save of the form drops what its schema does not know of
  a client: the speed limits, which the server then stores as unlimited
  (`client_link.go:110`; against "those pass-through sub-trees survive",
  `InboundFormModal.tsx:522`).
- Xray page: removing WARP leaves the rules that use it; a basic rule may name a
  "blocked" outbound that does not exist; a deletion that takes a balancer along
  leaves the fallbacks to it (`editor_cascade`); a refetch discards unsaved edits; renaming an
  outbound leaves the observer's subjects; the buttons of a row after a hidden loopback
  edit, move or delete another row than their own, the loopback included
  (`useRoutingColumns.tsx:76-92`, `useOutboundColumns.tsx:80-93`; against "_bl_ prefix is
  reserved for internal balancer loopback objects", `translation/en-US.json:2051`); loopback tags are offered as destinations, and a rule that names one
  keeps it when the fallback and its loopback go (`EditsKeepReferences` counts the
  outbounds that are no loopbacks); after a save that was stored but answered as a failure, the older text
  counts as saved (`controller/xray_setting.go:163-172`); of two outbounds with one tag a deletion removes both.
- Outbound form: an outbound of a protocol the form does not know becomes VLESS
  without a server when it is saved; a new transport drops sockopt and masks; masks of
  a WireGuard outbound are shown and not saved; a transport left behind under a
  protocol without one is saved when the protocol returns, and XHTTP left so turns
  multiplexing off for SOCKS; the mask editor keeps the masks it was mounted with
  (`FinalMaskField.tsx:19`) when a text or link replaces those under it.
- Links: a VMess link is read without masks, ECH, certificate name and pin; a
  Shadowsocks link without any parameter, and with the wrong method and password when
  its base64 has a character of the alphabet for URLs (written by
  `inbound-link.ts:704`, read by `outbound-link-parser.ts:467`, which then takes the
  encoded text for the password, 489); a Trojan or Hysteria password that has to be
  escaped is read as it is written; a WireGuard link has no pre-shared key.
- Restarts: a request between the load of the generation and the store of the flag
  is wiped out (`xray.go:65`); a requested restart whose snapshot is stale compares
  equal and does nothing (`xray.go:1284`); a save of the Xray page while the core is
  down asks for no restart, although one may be starting it from an older build
  (`controller/xray_setting.go:168`, against the comment at 138); a traffic job may start
  a core the operator stopped (`node_traffic_sync_job.go:161`).
- Runtime: one exit at the wrong moment leaves listeners without a process, and no
  restart succeeds until a manual stop (`xray_frontmux_runtime.go:32`).
- Writer: a write that is submitted while a cancelled writer drains runs on its
  caller beside the writer (`traffic_writer.go:157`, against the comment at line 115).
- Leases: an IP whose first holder has left while another kept it counts as young
  (`coordinator.go:346`, against "the oldest distinct source-IP slots win" at 335).
- Nodes: an edit between the look at the mark and the merge is undone
  (`node_traffic_sync_job.go:428`); after a blank first answer the reconcile deletes
  inbounds that were never imported (`node_traffic_sync_job.go:451`); a disabled
  inbound added to a node is not marked (`inbound.go:963`).

## 6. Plan

In this order:

1. `NodeTraffic`: delta accounting against baselines and node resets; no byte
   counted twice, none of a deleted row adopted again.
2. `ClientQuota`: accounting, disable, renew and reset on the writer goroutine.
3. The settings page, whose save also moves the subscription port of the default
   profile, and the nodes page.
4. `Mtproto`, `EventBus`, `TunnelMonitor`, WebSocket hub: small machines.
5. Pure modules: hot diff (applying a diff yields the new configuration), port
   conflicts, shared-port plans.
6. Proofs: `FormKeepsTheRest` for one control at a time.
